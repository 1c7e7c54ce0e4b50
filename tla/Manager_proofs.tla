--------------------------- MODULE Manager_proofs ---------------------------
(***************************************************************************)
(* Theorems about Manager, for any platforms, any number of images and any *)
(* behaviour of the hosts: one classification at a time, and no failure is *)
(* lost, left over, or survived when it may not be.                        *)
(***************************************************************************)
EXTENDS Manager, SequenceTheorems, WellFoundedInduction, TLAPS

(* The members of a queue with one signal. *)
LEMMA OneSignal ==
  ASSUME NEW m PROVE ToSet(<<m>>) = {m}
  BY DEF ToSet

LEMMA NoSignal == ToSet(<<>>) = {}
  BY DEF ToSet

(* An exception is not the absence of one. *)
LEMMA Thrown ==
  /\ NoException.kind = "none"
  /\ \A k, h : k # "none" => Exception(k, h) # NoException
  <1>1. \A k, h : Exception(k, h).kind = k
    BY DEF Exception
  <1>2. QED
    BY <1>1 DEF NoException

(* Sending the first signal and taking the only one. *)
LEMMA SendFirst ==
  ASSUME NEW m PROVE Append(<<>>, m) = <<m>>
  OBVIOUS

LEMMA TakeOnly ==
  ASSUME NEW m PROVE Head(<<m>>) = m /\ Tail(<<m>>) = <<>> /\ <<m>> # <<>>
  OBVIOUS

LEMMA InitInv == Init => ManagerInv
  BY NoSignal, Thrown
     DEF Init, ManagerInv, LockInv, ExceptionInv, FinalInv, Active, FailureOnItsWay

-----------------------------------------------------------------------------
(* The steps that leave what ManagerInv is about alone, or nearly so. *)
LEMMA GuiSteps ==
  ASSUME ManagerInv,
         \/ \E selected \in SUBSET offered, n \in 1..MaxImages :
              StartClassification(selected, n)
         \/ RefuseSelection \/ ReturnToStart \/ CloseDialog \/ CloseWindow
         \/ DisplayProgress \/ UpdatePlatformsCrashes \/ ServerChanges
  PROVE  ManagerInv'
  <1> USE DEF ManagerInv, LockInv, ExceptionInv, FinalInv, Active, FailureOnItsWay,
              guiVars, handlerVars, updateVars, resultVars, sharedVars
  <1>1. CASE \E selected \in SUBSET offered, n \in 1..MaxImages :
               StartClassification(selected, n)
    BY <1>1 DEF StartClassification
  <1>2. CASE RefuseSelection
    BY <1>2 DEF RefuseSelection
  <1>3. CASE ReturnToStart
    BY <1>3 DEF ReturnToStart
  <1>4. CASE CloseDialog
    BY <1>4 DEF CloseDialog
  <1>5. CASE CloseWindow
    BY <1>5 DEF CloseWindow
  <1>6. CASE DisplayProgress
    BY <1>6 DEF DisplayProgress
  <1>7. CASE UpdatePlatformsCrashes
    BY <1>7 DEF UpdatePlatformsCrashes
  <1>8. CASE ServerChanges
    BY <1>8 DEF ServerChanges
  <1>9. QED
    BY <1>1, <1>2, <1>3, <1>4, <1>5, <1>6, <1>7, <1>8

(* The GUI thread takes the only signal there is. *)
LEMMA SignalSteps ==
  ASSUME ManagerInv, DisplayResult \/ DisplayFailure
  PROVE  ManagerInv'
  <1> USE DEF ManagerInv, LockInv, ExceptionInv, FinalInv, Active, FailureOnItsWay,
              guiVars, handlerVars, updateVars, resultVars, sharedVars
  <1> DEFINE m == inbox[1]
  <1>1. /\ inbox = <<m>> /\ worker = "idle" /\ Head(inbox) = m /\ Tail(inbox) = <<>>
        /\ ToSet(inbox) = {m} /\ ToSet(<<>>) = {}
    BY OneSignal, NoSignal, TakeOnly DEF DisplayResult, DisplayFailure
  <1>2. CASE DisplayResult
    BY <1>1, <1>2 DEF DisplayResult
  <1>3. CASE DisplayFailure
    BY <1>1, <1>3, Thrown DEF DisplayFailure, LockedByError
  <1>4. QED
    BY <1>2, <1>3

(* The worker before its threads, and the threads. *)
LEMMA UpdateSteps ==
  ASSUME ManagerInv,
         \/ BeginUpdate \/ MatchHost \/ MatchFails \/ SelectHosts
         \/ \E d \in Assignments(DOMAIN availableHosts, request.images) : PlaceImages(d)
         \/ PlacerThrows \/ StartThread \/ JoinThreads
         \/ \E h \in Host : HostThread(h)
  PROVE  ManagerInv'
  <1> USE DEF ManagerInv, LockInv, ExceptionInv, FinalInv, Active, FailureOnItsWay,
              guiVars, handlerVars, updateVars, resultVars, sharedVars
  <1>1. CASE BeginUpdate
    BY <1>1, NoSignal DEF BeginUpdate
  <1>2. CASE MatchHost
    BY <1>2 DEF MatchHost
  <1>3. CASE MatchFails
    BY <1>3, Thrown, NoSignal DEF MatchFails
  <1>4. CASE SelectHosts
    BY <1>4 DEF SelectHosts
  <1>5. CASE \E d \in Assignments(DOMAIN availableHosts, request.images) : PlaceImages(d)
    BY <1>5 DEF PlaceImages
  <1>6. CASE PlacerThrows
    BY <1>6, Thrown, NoSignal DEF PlacerThrows
  <1>7. CASE StartThread
    BY <1>7 DEF StartThread
  <1>8. CASE JoinThreads
    BY <1>8 DEF JoinThreads
  <1>9. CASE \E h \in Host : HostThread(h)
    <2>1. PICK h \in Host : HostThread(h)
      BY <1>9
    <2>2. worker = "start" /\ inbox = <<>>
      BY <2>1 DEF HostThread, HostClassifies, HostThrows
    <2>3. CASE HostClassifies(h)
      BY <2>2, <2>3 DEF HostClassifies
    <2>4. CASE \E kind \in {"comm", "resource", "other"} : HostThrows(h, kind)
      BY <2>2, <2>4, Thrown, NoSignal DEF HostThrows
    <2>5. QED
      BY <2>1, <2>3, <2>4 DEF HostThread
  <1>10. QED
    BY <1>1, <1>2, <1>3, <1>4, <1>5, <1>6, <1>7, <1>8, <1>9

(* The worker ends: with a result, with a failure, or with the process. *)
LEMMA ReturnSteps ==
  ASSUME ManagerInv, ReturnResult \/ PerformanceThrows \/ ReportFailure \/ EmitNull
  PROVE  ManagerInv'
  <1> USE DEF ManagerInv, LockInv, ExceptionInv, FinalInv, Active, FailureOnItsWay,
              guiVars, handlerVars, updateVars, resultVars, sharedVars
  <1>1. inbox = <<>> /\ worker # "idle"
    BY DEF ReturnResult, PerformanceThrows, ReportFailure, EmitNull
  <1>2. CASE ReturnResult
    <2> DEFINE m == [ok |-> TRUE, images |-> FlattenSeq(allResults)]
    <2>1. inbox' = <<m>> /\ ToSet(inbox') = {m} /\ m.ok
      BY <1>1, <1>2, OneSignal, SendFirst DEF ReturnResult
    <2>2. \A h \in Host : thread'[h] # "running"
      BY <1>2 DEF ReturnResult, ReturnFromUpdate
    <2>3. /\ UNCHANGED <<guiVars, handlerVars, sharedVars>> /\ worker' = "idle"
          /\ worker = "report" /\ exceptionptr = NoException
      BY <1>2 DEF ReturnResult
    <2> HIDE DEF m
    <2>4. inbox' # <<>> /\ inbox' = <<inbox'[1]>>
      BY <2>1
    <2>5. handlerException.kind # "resource"
      BY <1>1, <2>3, NoSignal
    <2>6. QED
      BY <1>1, <2>1, <2>2, <2>3, <2>4, <2>5
  <1>3. CASE PerformanceThrows
    BY <1>3 DEF PerformanceThrows
  <1>4. CASE ReportFailure
    BY <1>1, <1>4, NoSignal
       DEF ReportFailure, HandlerTakesException, NullException, ReturnFromUpdate
  <1>5. CASE EmitNull
    <2> DEFINE m == [ok |-> FALSE, images |-> <<>>]
    <2>1. inbox' = <<m>> /\ ToSet(inbox') = {m} /\ ~ m.ok
      BY <1>1, <1>5, OneSignal, SendFirst DEF EmitNull
    <2>2. QED
      BY <1>1, <1>5, <2>1, NoSignal DEF EmitNull
  <1>6. QED
    BY <1>2, <1>3, <1>4, <1>5

(* Every step keeps the invariant. *)
LEMMA NextInv == ManagerInv /\ [Next]_vars => ManagerInv'
  <1> SUFFICES ASSUME ManagerInv, [Next]_vars PROVE ManagerInv'
    OBVIOUS
  <1>1. CASE UNCHANGED vars
    BY <1>1 DEF vars, guiVars, handlerVars, updateVars, resultVars, sharedVars,
       ManagerInv, LockInv, ExceptionInv, FinalInv, Active, FailureOnItsWay
  <1>2. CASE User \/ EventLoop \/ Worker \/ (\E h \in Host : HostThread(h)) \/ ServerChanges
    BY <1>2, GuiSteps, SignalSteps, UpdateSteps, ReturnSteps DEF User, EventLoop, Worker
  <1>3. QED
    BY <1>1, <1>2 DEF Next, Exited

(* The lock, exception and shutdown protocol between the GUI thread, the   *)
(* worker and the threads of the hosts (MainWindowHandler.cpp:60-142,      *)
(* Manager.cpp:162-360) is invariant.                                      *)
THEOREM Invariance == Spec => []ManagerInv
  <1>1. QED
    BY InitInv, NextInv, PTL DEF Spec

-----------------------------------------------------------------------------
(* The request update reads is not deleted or replaced while it runs.      *)
THEOREM RequestIsStable == Spec => RequestNotReplaced
  <1>1. ManagerInv /\ [Next]_vars => [worker # "idle" => request' = request]_vars
    <2> SUFFICES ASSUME ManagerInv, Next, worker # "idle" PROVE request' = request
      BY DEF vars, guiVars
    <2> USE DEF ManagerInv, LockInv, Active, guiVars, vars
    <2>1. CASE User
      BY <2>1 DEF User, StartClassification, RefuseSelection, ReturnToStart, CloseDialog,
         CloseWindow
    <2>2. CASE EventLoop
      BY <2>2 DEF EventLoop, DisplayProgress, DisplayResult, DisplayFailure,
         UpdatePlatformsCrashes
    <2>3. CASE Worker
      BY <2>3 DEF Worker, BeginUpdate, MatchHost, MatchFails, SelectHosts, PlaceImages,
         PlacerThrows, StartThread, JoinThreads, ReturnResult, PerformanceThrows,
         ReportFailure, EmitNull
    <2>4. CASE \E h \in Host : HostThread(h)
      BY <2>4 DEF HostThread, HostClassifies, HostThrows
    <2>5. CASE ServerChanges \/ Exited
      BY <2>5 DEF ServerChanges, Exited
    <2>6. QED
      BY <2>1, <2>2, <2>3, <2>4, <2>5 DEF Next
  <1>2. QED
    BY <1>1, Invariance, PTL DEF Spec, RequestNotReplaced

(* No exception of one classification is found by the next one.            *)
THEOREM ExceptionsAreFresh == Spec => []NoStaleException
  <1>1. ManagerInv => NoStaleException
    BY DEF ManagerInv, ExceptionInv, NoStaleException
  <1>2. QED
    BY <1>1, Invariance, PTL

(* The signal tells success from failure, whatever failed and however the  *)
(* stores to exceptionptr were ordered.                                    *)
THEOREM SignalsAreTrue == Spec => []ResultIffNoFailure
  <1>1. ManagerInv => ResultIffNoFailure
    BY DEF ManagerInv, ExceptionInv, ResultIffNoFailure
  <1>2. QED
    BY <1>1, Invariance, PTL

(* The case MainWindowHandler.cpp:113 calls impossible is impossible.      *)
THEOREM FailuresAreExplained == Spec => []FailureIsExplained
  <1>1. ManagerInv => FailureIsExplained
    BY DEF ManagerInv, ExceptionInv, FailureIsExplained, FailureOnItsWay
  <1>2. QED
    BY <1>1, Invariance, PTL

(* After a ResourceException the start page stays locked.                  *)
THEOREM ResourceExceptionLocks == Spec => []ResourceExceptionIsFinal
  <1>1. ManagerInv => ResourceExceptionIsFinal
    BY NoSignal DEF ManagerInv, FinalInv, FailureOnItsWay, ResourceExceptionIsFinal
  <1>2. QED
    BY <1>1, Invariance, PTL

-----------------------------------------------------------------------------
(* What the hosts offer changes with the list of hosts and the server only. *)
LEMMA SameOffer ==
  UNCHANGED <<computationHosts, serverPlatforms>>
    => AvailablePlatforms(computationHosts)' = AvailablePlatforms(computationHosts)
  BY DEF AvailablePlatforms, PlatformsOf

LEMMA OfferInit == Init => OfferInv
  <1> SUFFICES ASSUME Init PROVE offered = AvailablePlatforms(computationHosts)
    BY DEF OfferInv, Init
  <1>1. CASE computationHosts = <<"local">>
    <2>1. ToSet(computationHosts) = {"local"}
      BY <1>1, OneSignal
    <2>2. QED
      BY <2>1 DEF Init, AvailablePlatforms, PlatformsOf
  <1>2. CASE computationHosts = <<"fpga", "local">>
    <2>1. ToSet(computationHosts) = {"fpga", "local"}
      BY <1>2 DEF ToSet
    <2>2. QED
      BY <2>1 DEF Init, AvailablePlatforms, PlatformsOf
  <1>3. QED
    BY <1>1, <1>2 DEF Init

(* Only ReportFailure, DisplayFailure and the server touch the offer.      *)
LEMMA OfferStep ==
  ASSUME ManagerInv, OfferInv, [Next]_vars
  PROVE  OfferInv'
  <1> USE DEF guiVars, handlerVars, updateVars, resultVars, sharedVars, serverVars
  <1> DEFINE offerVars == <<offered, updatedPlatforms, computationHosts, serverVars>>
  <1>1. ASSUME UNCHANGED offerVars, FailureOnItsWay => FailureOnItsWay'
        PROVE  OfferInv'
    BY <1>1, SameOffer DEF OfferInv
  <1>2. CASE UNCHANGED vars
    BY <1>1, <1>2 DEF vars, FailureOnItsWay
  <1>3. CASE User
    BY <1>1, <1>3 DEF User, StartClassification, RefuseSelection, ReturnToStart,
       CloseDialog, CloseWindow, FailureOnItsWay, ManagerInv, LockInv, Active
  <1>4. CASE DisplayProgress \/ UpdatePlatformsCrashes
    BY <1>1, <1>4 DEF DisplayProgress, UpdatePlatformsCrashes, FailureOnItsWay
  <1>5. CASE DisplayResult
    <2>1. inbox = <<inbox[1]>> /\ Head(inbox) = inbox[1] /\ worker = "idle"
      BY <1>5, TakeOnly DEF DisplayResult, ManagerInv, LockInv
    <2>2. ~ FailureOnItsWay
      BY <1>5, <2>1, OneSignal DEF DisplayResult, FailureOnItsWay
    <2>3. QED
      BY <1>1, <1>5, <2>2 DEF DisplayResult
  <1>6. CASE DisplayFailure
    <2>1. UNCHANGED <<computationHosts, serverVars>>
      BY <1>6 DEF DisplayFailure
    <2>2. CASE updatedPlatforms = <<>>
      BY <1>6, <2>1, <2>2, SameOffer DEF DisplayFailure, OfferInv
    <2>3. CASE updatedPlatforms # <<>>
      <3>1. ~ serverChanged =>
              Head(updatedPlatforms) = AvailablePlatforms(computationHosts)
        BY <2>3, TakeOnly DEF OfferInv
      <3>2. QED
        BY <1>6, <2>1, <2>3, <3>1, SameOffer DEF DisplayFailure, OfferInv
    <2>4. QED
      BY <2>2, <2>3
  <1>7. CASE ReportFailure
    <2>1. FailureOnItsWay' /\ UNCHANGED <<offered, serverVars>>
      BY <1>7 DEF ReportFailure, FailureOnItsWay
    <2>2. ~ FailureOnItsWay
      BY <1>7, NoSignal DEF ReportFailure, FailureOnItsWay, ManagerInv, LockInv
    <2>3. CASE exceptionptr.kind = "comm"
      <3>1. updatedPlatforms' = <<AvailablePlatforms(computationHosts')>>
        BY <1>7, <2>3 DEF ReportFailure
      <3>2. AvailablePlatforms(computationHosts)' = AvailablePlatforms(computationHosts')
        BY <2>1 DEF AvailablePlatforms, PlatformsOf
      <3>3. updatedPlatforms' # <<>>
        BY <3>1
      <3>4. QED
        BY <2>1, <3>1, <3>2, <3>3 DEF OfferInv
    <2>4. CASE exceptionptr.kind # "comm"
      BY <1>1, <1>7, <2>2, <2>4 DEF ReportFailure
    <2>5. QED
      BY <2>3, <2>4
  <1>8. CASE BeginUpdate \/ MatchHost \/ MatchFails \/ SelectHosts \/ PlacerThrows
             \/ StartThread \/ JoinThreads \/ PerformanceThrows
    BY <1>1, <1>8 DEF BeginUpdate, MatchHost, MatchFails, SelectHosts, PlacerThrows,
       StartThread, JoinThreads, PerformanceThrows, FailureOnItsWay
  <1>9. CASE \E d \in Assignments(DOMAIN availableHosts, request.images) : PlaceImages(d)
    BY <1>1, <1>9 DEF PlaceImages, FailureOnItsWay
  <1>10. CASE ReturnResult
    <2>1. ~ FailureOnItsWay
      BY <1>10, NoSignal DEF ReturnResult, FailureOnItsWay, ManagerInv, LockInv
    <2>2. QED
      BY <1>1, <1>10, <2>1 DEF ReturnResult
  <1>11. CASE EmitNull
    <2> DEFINE m == [ok |-> FALSE, images |-> <<>>]
    <2>1. inbox' = <<m>> /\ ToSet(inbox') = {m} /\ ~ m.ok
      BY <1>11, OneSignal, SendFirst DEF EmitNull, ManagerInv, LockInv
    <2>2. FailureOnItsWay'
      BY <2>1 DEF FailureOnItsWay
    <2>3. QED
      BY <1>1, <1>11, <2>2 DEF EmitNull
  <1>12. CASE \E h \in Host : HostThread(h)
    BY <1>1, <1>12 DEF HostThread, HostClassifies, HostThrows, FailureOnItsWay
  <1>13. CASE ServerChanges
    BY <1>13 DEF ServerChanges, OfferInv
  <1>14. QED
    BY <1>2, <1>3, <1>4, <1>5, <1>6, <1>7, <1>8, <1>9, <1>10, <1>11, <1>12, <1>13
       DEF Next, EventLoop, Worker, Exited

(* While the server keeps its platforms, the user is only offered          *)
(* platforms of hosts that are still there (Manager.cpp:293-304).          *)
THEOREM OfferIsUpToDate == Spec => []OfferedPlatformsExist
  <1>1. ManagerInv /\ OfferInv /\ [Next]_vars => OfferInv'
    BY OfferStep DEF OfferInv
  <1>2. ManagerInv /\ OfferInv => OfferedPlatformsExist
    BY NoSignal DEF ManagerInv, LockInv, Active, FailureOnItsWay, OfferInv,
       OfferedPlatformsExist
  <1>3. QED
    BY OfferInit, Invariance, <1>1, <1>2, PTL DEF Spec
-----------------------------------------------------------------------------
(* One and two hosts: the functions of the model, element by element.      *)

LEMMA OneElement ==
  ASSUME NEW S, NEW s \in Seq(S), Len(s) = 1
  PROVE  s = <<s[1]>> /\ s[1] \in S
  <1>1. s[1] \in S
    BY ElementOfSeq
  <1>2. <<s[1]>> \in Seq(S) /\ Len(<<s[1]>>) = 1 /\ <<s[1]>>[1] = s[1]
    BY <1>1
  <1>3. \A j \in 1..Len(s) : s[j] = <<s[1]>>[j]
    BY <1>2
  <1> QED BY <1>1, <1>2, <1>3, SeqEqual

LEMMA TwoElements ==
  ASSUME NEW S, NEW s \in Seq(S), Len(s) = 2
  PROVE  s = <<s[1], s[2]>> /\ s[1] \in S /\ s[2] \in S
  <1>1. s[1] \in S /\ s[2] \in S
    BY ElementOfSeq
  <1> DEFINE t == <<s[1], s[2]>>
  <1>2. t \in Seq(S) /\ Len(t) = 2 /\ t[1] = s[1] /\ t[2] = s[2]
    BY <1>1
  <1> HIDE DEF t
  <1>3. \A j \in 1..Len(s) : s[j] = t[j]
    BY <1>2
  <1>4. s = t
    BY <1>2, <1>3, SeqEqual
  <1> QED BY <1>1, <1>4 DEF t

(* Erasing from a vector of one or two elements. *)
LEMMA EraseOne ==
  ASSUME NEW S, NEW s \in Seq(S)
  PROVE  /\ Len(s) = 1 => RemoveAt(s, 1) = <<>>
         /\ Len(s) = 2 => RemoveAt(s, 1) = <<s[2]>> /\ RemoveAt(s, 2) = <<s[1]>>
  <1>1. SubSeq(s, 1, 0) = <<>> /\ SubSeq(s, 2, 1) = <<>> /\ SubSeq(s, 3, 2) = <<>>
    BY SubSeqEmpty
  <1>2. CASE Len(s) = 1
    <2>1. RemoveAt(s, 1) = <<>> \o <<>>
      BY <1>1, <1>2 DEF RemoveAt
    <2> QED BY <1>2, <2>1, EmptySeq, ConcatEmptySeq
  <1>3. CASE Len(s) = 2
    <2>1. s[1] \in S /\ s[2] \in S
      BY <1>3, TwoElements
    <2>2. ASSUME NEW k \in {1, 2}
          PROVE  SubSeq(s, k, k) = <<s[k]>>
      <3> DEFINE t == SubSeq(s, k, k)
      <3>1. k \in Int /\ \A j \in k..k : s[j] \in S
        BY <2>1
      <3>2. t \in Seq(S) /\ Len(t) = (IF k <= k THEN k - k + 1 ELSE 0)
            /\ \A j \in 1..(k - k + 1) : t[j] = s[k + j - 1]
        BY <3>1, SubSeqProperties
      <3> HIDE DEF t
      <3>3. Len(t) = 1 /\ t[1] = s[k]
        BY <3>2
      <3>4. t = <<s[k]>>
        BY <3>2, <3>3, OneElement
      <3> QED BY <3>4 DEF t
    <2>3. <<s[1]>> \in Seq(S) /\ <<s[2]>> \in Seq(S)
      BY <2>1
    <2>4. RemoveAt(s, 1) = <<>> \o <<s[2]>>
      <3>1. RemoveAt(s, 1) = SubSeq(s, 1, 0) \o SubSeq(s, 2, 2)
        BY <1>3 DEF RemoveAt
      <3> QED BY <3>1, <1>1, <2>2
    <2>5. RemoveAt(s, 2) = <<s[1]>> \o <<>>
      <3>1. RemoveAt(s, 2) = SubSeq(s, 1, 1) \o SubSeq(s, 3, 2)
        BY <1>3 DEF RemoveAt
      <3> QED BY <3>1, <1>1, <2>2
    <2> QED BY <1>3, <2>3, <2>4, <2>5, ConcatEmptySeq
  <1>4. CASE Len(s) \notin {1, 2}
    BY <1>4
  <1> QED BY <1>2, <1>3, <1>4

LEMMA FlattenOne ==
  ASSUME NEW s, Len(s) = 1
  PROVE  FlattenSeq(s) = s[1]
  <1> DEFINE step(g, k) == IF k = 1 THEN s[k] ELSE g[k - 1] \o s[k]
             flatten == CHOOSE g : g = [k \in 1..1 |-> step(g, k)]
             f == [k \in 1..1 |-> s[1]]
  <1>1. FlattenSeq(s) = flatten[1]
    BY DEF FlattenSeq
  <1>2. f = [k \in 1..1 |-> step(f, k)]
    OBVIOUS
  <1> HIDE DEF f
  <1>3. flatten = [k \in 1..1 |-> step(flatten, k)]
    BY <1>2
  <1> HIDE DEF flatten
  <1>4. flatten[1] = s[1]
    BY <1>3
  <1> QED BY <1>1, <1>4

LEMMA FlattenTwo ==
  ASSUME NEW s, Len(s) = 2
  PROVE  FlattenSeq(s) = s[1] \o s[2]
  <1> DEFINE step(g, k) == IF k = 1 THEN s[k] ELSE g[k - 1] \o s[k]
             flatten == CHOOSE g : g = [k \in 1..2 |-> step(g, k)]
             f == [k \in 1..2 |-> IF k = 1 THEN s[1] ELSE s[1] \o s[2]]
  <1>1. FlattenSeq(s) = flatten[2]
    BY DEF FlattenSeq
  <1>2. f = [k \in 1..2 |-> step(f, k)]
    <2>1. \A k \in 1..2 : f[k] = step(f, k)
      <3>1. \A k \in 1..2 : k = 1 \/ k = 2
        OBVIOUS
      <3>2. f[1] = s[1] /\ f[2] = s[1] \o s[2]
        OBVIOUS
      <3> HIDE DEF f
      <3>3. f[1] = step(f, 1) /\ f[2] = step(f, 2)
        BY <3>2
      <3> HIDE DEF step
      <3> QED BY <3>1, <3>3
    <2> QED BY <2>1
  <1> HIDE DEF f
  <1>3. flatten = [k \in 1..2 |-> step(flatten, k)]
    BY <1>2
  <1> HIDE DEF flatten
  <1>4. flatten[1] = s[1] /\ flatten[2] = flatten[1] \o s[2]
    BY <1>3
  <1> QED BY <1>1, <1>4

(* The sums of the ways to place images on one or two hosts. *)
LEMMA SumOfOne ==
  ASSUME NEW n \in Nat, NEW d \in [{1} -> 0..n]
  PROVE  SumFunction(d) = d[1]
  <1> DEFINE choose(s) == CHOOSE x \in s : TRUE
             step(g, s) == IF s = {} THEN 0 ELSE d[choose(s)] + g[s \ {choose(s)}]
             f == [s \in SUBSET {1} |-> IF s = {} THEN 0 ELSE d[1]]
             iter == CHOOSE g : g = [s \in SUBSET {1} |-> step(g, s)]
  <1>1. SumFunction(d) = iter[{1}]
    BY DEF SumFunction, SumFunctionOnSet, FoldFunctionOnSet, MapThenFoldSet
  <1>2. f = [s \in SUBSET {1} |-> step(f, s)]
    <2>1. ASSUME NEW s \in SUBSET {1}
          PROVE  f[s] = step(f, s)
      <3>1. CASE s = {}
        BY <3>1
      <3>2. CASE s = {1}
        <4>1. choose(s) = 1
          BY <3>2
        <4>2. s \ {1} = {}
          BY <3>2
        <4> QED BY <3>2, <4>1, <4>2
      <3> QED BY <3>1, <3>2
    <2> QED BY <2>1
  <1> HIDE DEF f
  <1>3. iter = [s \in SUBSET {1} |-> step(iter, s)]
    BY <1>2
  <1> HIDE DEF iter
  <1>4. choose({1}) = 1 /\ {1} \ {1} = {}
    OBVIOUS
  <1>5. iter[{}] = 0 /\ iter[{1}] = d[1] + iter[{}]
    BY <1>3, <1>4
  <1> QED BY <1>1, <1>5

LEMMA SumOfTwo ==
  ASSUME NEW n \in Nat, NEW d \in [{1, 2} -> 0..n]
  PROVE  SumFunction(d) = d[1] + d[2]
  <1> DEFINE H == {1, 2}
             choose(s) == CHOOSE x \in s : TRUE
             step(g, s) == IF s = {} THEN 0 ELSE d[choose(s)] + g[s \ {choose(s)}]
             f == [s \in SUBSET H |-> IF s = {} THEN 0 ELSE IF s = {1} THEN d[1]
                                      ELSE IF s = {2} THEN d[2] ELSE d[1] + d[2]]
             iter == CHOOSE g : g = [s \in SUBSET H |-> step(g, s)]
  <1>1. SumFunction(d) = iter[H]
    BY DEF SumFunction, SumFunctionOnSet, FoldFunctionOnSet, MapThenFoldSet
  <1>2. choose({1}) = 1 /\ choose({2}) = 2 /\ choose(H) \in {1, 2}
    OBVIOUS
  <1>3. /\ {1} \ {1} = {} /\ {2} \ {2} = {} /\ H \ {1} = {2} /\ H \ {2} = {1}
        /\ {1} # {} /\ {2} # {} /\ H # {}
    OBVIOUS
  <1>4. /\ f[{}] = 0 /\ f[{1}] = d[1] /\ f[{2}] = d[2] /\ f[H] = d[1] + d[2]
    OBVIOUS
  <1>5. d[1] \in Nat /\ d[2] \in Nat
    OBVIOUS
  <1>6. DOMAIN f = SUBSET H
    OBVIOUS
  <1>7. ASSUME NEW s \in SUBSET H
        PROVE  s \in {{}, {1}, {2}, H}
    OBVIOUS
  <1> HIDE DEF f, choose
  <1>8. ASSUME NEW s \in SUBSET H
        PROVE  f[s] = step(f, s)
    <2>1. CASE s = {}
      BY <2>1, <1>4
    <2>2. CASE s = {1}
      <3>1. step(f, {1}) = d[1] + f[{}]
        BY <1>2, <1>3
      <3> QED BY <2>2, <3>1, <1>4, <1>5
    <2>3. CASE s = {2}
      <3>1. step(f, {2}) = d[2] + f[{}]
        BY <1>2, <1>3
      <3> QED BY <2>3, <3>1, <1>4, <1>5
    <2>4. CASE s = H
      <3>1. step(f, H) = d[choose(H)] + f[H \ {choose(H)}]
        BY <1>3
      <3> HIDE DEF step
      <3> QED BY <2>4, <3>1, <1>2, <1>3, <1>4, <1>5
    <2> QED BY <1>7, <2>1, <2>2, <2>3, <2>4
  <1>9. f = [s \in SUBSET H |-> step(f, s)]
    <2>1. f = [s \in SUBSET H |-> f[s]]
      BY <1>6 DEF f
    <2> QED BY <2>1, <1>8
  <1>10. iter = [s \in SUBSET H |-> step(iter, s)]
    BY <1>9
  <1> HIDE DEF iter
  <1>11. \A s \in SUBSET H : iter[s] = step(iter, s)
    BY <1>10
  <1>12. iter[{}] = 0
    BY <1>11
  <1>13. iter[{1}] = d[1]
    <2>1. iter[{1}] = step(iter, {1})
      BY <1>11
    <2>2. iter[{1}] = d[1] + iter[{}]
      BY <2>1, <1>2, <1>3
    <2> QED BY <2>2, <1>5, <1>12
  <1>14. iter[{2}] = d[2]
    <2>1. iter[{2}] = step(iter, {2})
      BY <1>11
    <2>2. iter[{2}] = d[2] + iter[{}]
      BY <2>1, <1>2, <1>3
    <2> QED BY <2>2, <1>5, <1>12
  <1>15. iter[H] = d[choose(H)] + iter[H \ {choose(H)}]
    <2>1. iter[H] = step(iter, H)
      BY <1>11
    <2> QED BY <2>1, <1>3
  <1>16. CASE choose(H) = 1
    <2>1. iter[H] = d[1] + iter[{2}]
      BY <1>3, <1>15, <1>16
    <2> QED BY <2>1, <1>1, <1>14
  <1>17. CASE choose(H) = 2
    <2>1. iter[H] = d[2] + iter[{1}]
      BY <1>3, <1>15, <1>17
    <2> QED BY <2>1, <1>1, <1>5, <1>13
  <1> QED BY <1>2, <1>16, <1>17

(* A non-empty set of natural numbers has a least element. *)
LEMMA LeastElement ==
  ASSUME NEW S \in SUBSET Nat, S # {}
  PROVE  \E n \in S : \A m \in S : n <= m
  <1>1. PICK n \in S : \A m \in S : ~ (<<m, n>> \in OpToRel(<, Nat))
    BY WFMin, NatLessThanWellFounded
  <1>2. \A m \in S : ~ (m < n)
    BY <1>1 DEF OpToRel
  <1> QED BY <1>2

-----------------------------------------------------------------------------
(***************************************************************************)
(* The update itself: which hosts work, on which platforms, and what they  *)
(* return.  UpdateInv follows it from location to location.                *)
(***************************************************************************)
AvailableLists == {<<>>, <<"local">>, <<"fpga">>, <<"fpga", "local">>}

(* n images from the one after a on. *)
Numbers(a, n) == [x \in 1..n |-> a + x]

(* The ways to give n images, in their order, to one or to two hosts.      *)
Spread(n) == {<<Numbers(0, n)>>} \cup {<<Numbers(0, a), Numbers(a, n - a)>> : a \in 0..n}

(* While the hosts are asked there is a set of platforms for each of them. *)
MatchInv ==
  worker \in {"match", "select"} =>
    /\ Len(hostPlatforms) = Len(computationHosts)
    /\ index \in 1..(Len(computationHosts) + 1)
    /\ worker = "select" => exceptionptr # NoException

(* The remote host only works, and is only to blame, when it is there.     *)
AvailableInv ==
  worker \in {"place", "start", "report"} =>
    /\ availableHosts \in AvailableLists
    /\ "fpga" \in ToSet(availableHosts) => computationHosts = <<"fpga", "local">>

BlameInv ==
  exceptionptr # NoException =>
    \/ /\ exceptionptr = Exception("comm", "fpga")
       /\ "fpga" \in failed /\ computationHosts = <<"fpga", "local">>
    \/ exceptionptr.kind \in {"resource", "other"} /\ failed \cap {"local", "placer"} # {}

(* The threads: none but for the hosts of this update. *)
ThreadInv ==
  /\ worker \notin {"start", "report"} => thread = [h \in Host |-> "none"]
  /\ \A h \in Host : thread[h] # "none" => h \in ToSet(availableHosts)

(* What each host has returned while the threads run. *)
BatchInv ==
  worker = "start" =>
    /\ batches \in Spread(request.images) /\ Len(batches) = Len(availableHosts)
    /\ index \in 1..(Len(availableHosts) + 1)
    /\ DOMAIN allResults = DOMAIN batches
    /\ \A j \in DOMAIN batches :
         /\ j >= index => thread[availableHosts[j]] = "none"
         /\ thread[availableHosts[j]] = "none" => allResults[j] = <<>>
         /\ thread[availableHosts[j]] = "ended" =>
              allResults[j] = batches[j] \/ availableHosts[j] \in failed
         /\ j < index /\ batches[j] # <<>> => thread[availableHosts[j]] # "none"
         /\ allResults[j] \in {<<>>, batches[j]}

(* The results are the batches when no host has failed, and their signal   *)
(* and the page hold all images in their order.                            *)
CompleteInv ==
  /\ worker = "report" /\ exceptionptr = NoException => allResults \in Spread(request.images)
  /\ \A m \in ToSet(inbox) : m.ok => m.images = Numbers(0, request.images)
  /\ page = "result" => shown = Numbers(0, request.images)

(* As long as the server keeps its platforms, the platforms of each host   *)
(* are its own that were selected, and there is at least one.              *)
Fitting ==
  \A j \in DOMAIN availableHosts :
    /\ hostPlatforms[j] # {}
    /\ hostPlatforms[j] \subseteq request.platforms \cap PlatformsOf(availableHosts[j])

SelectionInv ==
  ~ serverChanged =>
    /\ worker \in {"update", "match"} =>
         /\ request.platforms # {}
         /\ request.platforms \subseteq AvailablePlatforms(computationHosts)
    /\ worker = "match" =>
         \A j \in 1..(index - 1) :
           hostPlatforms[j] = PlatformsOf(computationHosts[j]) \cap request.platforms
    /\ worker = "place" /\ exceptionptr = NoException => Fitting
    /\ worker = "start" => Fitting

RequestInv == worker # "idle" => request.images > 0

UpdateInv ==
  /\ TypeOK /\ RequestInv /\ MatchInv /\ AvailableInv /\ BlameInv /\ ThreadInv /\ BatchInv
  /\ CompleteInv /\ SelectionInv

LEMMA NumbersProperties ==
  ASSUME NEW a \in Nat, NEW n \in Nat
  PROVE  /\ Numbers(a, n) \in Seq(Nat) /\ Len(Numbers(a, n)) = n
         /\ \A x \in 1..n : Numbers(a, n)[x] = a + x
         /\ Numbers(a, 0) = <<>>
         /\ Append(Numbers(a, n), a + n + 1) = Numbers(a, n + 1)
  <1>1. ASSUME NEW k \in Nat
        PROVE  /\ Numbers(a, k) \in Seq(Nat) /\ Len(Numbers(a, k)) = k
               /\ \A x \in 1..k : Numbers(a, k)[x] = a + x
    <2> DEFINE e(x) == a + x
    <2>1. \A x \in 1..k : e(x) \in Nat
      OBVIOUS
    <2>2. [x \in 1..k |-> e(x)] \in Seq(Nat)
      BY <2>1, IsASeq
    <2>3. Numbers(a, k) \in Seq(Nat) /\ DOMAIN Numbers(a, k) = 1..k
      BY <2>2 DEF Numbers
    <2>4. Len(Numbers(a, k)) = k
      BY <2>3, LenProperties
    <2> QED BY <2>3, <2>4 DEF Numbers
  <1>2. Numbers(a, 0) = <<>>
    BY <1>1, EmptySeq
  <1>3. Append(Numbers(a, n), a + n + 1) = Numbers(a, n + 1)
    <2> DEFINE s == Append(Numbers(a, n), a + n + 1)
               t == Numbers(a, n + 1)
    <2>1. /\ s \in Seq(Nat) /\ Len(s) = n + 1
          /\ \A x \in 1..n : s[x] = Numbers(a, n)[x]
          /\ s[n + 1] = a + n + 1
      <3>1. a + n + 1 \in Nat
        OBVIOUS
      <3>2. Numbers(a, n) \in Seq(Nat) /\ Len(Numbers(a, n)) = n
        BY <1>1
      <3>3. /\ s \in Seq(Nat) /\ Len(s) = Len(Numbers(a, n)) + 1
            /\ \A x \in 1..Len(Numbers(a, n)) : s[x] = Numbers(a, n)[x]
            /\ s[Len(Numbers(a, n)) + 1] = a + n + 1
        BY <3>1, <3>2, AppendProperties
      <3> HIDE DEF s
      <3> QED BY <3>2, <3>3
    <2>2. t \in Seq(Nat) /\ Len(t) = n + 1 /\ \A x \in 1..(n + 1) : t[x] = a + x
      BY <1>1
    <2>3. \A x \in 1..n : s[x] = a + x
      BY <1>1, <2>1
    <2> HIDE DEF s, t
    <2>4. \A x \in 1..Len(s) : s[x] = t[x]
      <3> TAKE x \in 1..Len(s)
      <3>1. x \in 1..n \/ x = n + 1
        BY <2>1
      <3> QED BY <3>1, <2>1, <2>2, <2>3
    <2>5. s = t
      BY <2>1, <2>2, <2>4, SeqEqual
    <2> QED BY <2>5 DEF s, t
  <1> QED BY <1>1, <1>2, <1>3

LEMMA NumbersConcat ==
  ASSUME NEW a \in Nat, NEW b \in Nat
  PROVE  Numbers(0, a) \o Numbers(a, b) = Numbers(0, a + b)
  <1> DEFINE s == Numbers(0, a)
             t == Numbers(a, b)
             u == Numbers(0, a + b)
  <1>1. /\ s \in Seq(Nat) /\ Len(s) = a /\ \A x \in 1..a : s[x] = x
        /\ t \in Seq(Nat) /\ Len(t) = b /\ \A x \in 1..b : t[x] = a + x
        /\ u \in Seq(Nat) /\ Len(u) = a + b /\ \A x \in 1..(a + b) : u[x] = x
    <2>1. 0 \in Nat /\ a + b \in Nat
      OBVIOUS
    <2>2. s \in Seq(Nat) /\ Len(s) = a /\ \A x \in 1..a : s[x] = 0 + x
      BY <2>1, NumbersProperties
    <2>3. t \in Seq(Nat) /\ Len(t) = b /\ \A x \in 1..b : t[x] = a + x
      BY NumbersProperties
    <2>4. u \in Seq(Nat) /\ Len(u) = a + b /\ \A x \in 1..(a + b) : u[x] = 0 + x
      BY <2>1, NumbersProperties
    <2> HIDE DEF s, t, u
    <2> QED BY <2>2, <2>3, <2>4
  <1> HIDE DEF s, t, u
  <1>2. /\ s \o t \in Seq(Nat) /\ Len(s \o t) = a + b
        /\ \A x \in 1..(a + b) : (s \o t)[x] = IF x <= a THEN s[x] ELSE t[x - a]
    <2>1. s \in Seq(Nat) /\ t \in Seq(Nat) /\ Len(s) = a /\ Len(t) = b
      BY <1>1
    <2>2. /\ s \o t \in Seq(Nat) /\ Len(s \o t) = Len(s) + Len(t)
          /\ \A x \in 1..(Len(s) + Len(t)) :
               (s \o t)[x] = IF x <= Len(s) THEN s[x] ELSE t[x - Len(s)]
      BY <2>1, ConcatProperties
    <2> QED BY <2>1, <2>2
  <1>3. ASSUME NEW x \in 1..(a + b) PROVE (s \o t)[x] = u[x]
    <2>1. CASE x <= a
      BY <2>1, <1>1, <1>2
    <2>2. CASE ~ (x <= a)
      <3>1. x - a \in 1..b
        BY <2>2
      <3> QED BY <2>2, <3>1, <1>1, <1>2
    <2> QED BY <2>1, <2>2
  <1>4. s \o t = u
    BY <1>1, <1>2, <1>3, SeqEqual
  <1> QED BY <1>4 DEF s, t, u

(* Whatever the spread, putting the batches together gives all images. *)
LEMMA SpreadIsComplete ==
  ASSUME NEW n \in Nat, NEW b \in Spread(n)
  PROVE  FlattenSeq(b) = Numbers(0, n)
  <1>1. CASE b = <<Numbers(0, n)>>
    BY <1>1, FlattenOne
  <1>2. CASE \E a \in 0..n : b = <<Numbers(0, a), Numbers(a, n - a)>>
    <2>1. PICK a \in 0..n : b = <<Numbers(0, a), Numbers(a, n - a)>>
      BY <1>2
    <2>2. FlattenSeq(b) = Numbers(0, a) \o Numbers(a, n - a)
      <3>1. Len(b) = 2 /\ b[1] = Numbers(0, a) /\ b[2] = Numbers(a, n - a)
        BY <2>1
      <3>2. FlattenSeq(b) = b[1] \o b[2]
        BY <3>1, FlattenTwo
      <3> QED BY <3>1, <3>2
    <2>3. n - a \in Nat /\ a + (n - a) = n /\ a \in Nat
      OBVIOUS
    <2> QED BY <2>2, <2>3, NumbersConcat
  <1> QED BY <1>1, <1>2 DEF Spread

(* What the loop that fills the batches computes: the first host gets the  *)
(* first d[1] images, the second host the rest.                            *)
LEMMA BatchesFilled ==
  ASSUME NEW n \in Nat, NEW H, H \in {{1}, {1, 2}}, NEW d \in [H -> 0..n],
         H = {1} => d[1] = n, H = {1, 2} => d[1] + d[2] = n
  PROVE  Batches(d, n) =
           [j \in H |-> IF j = 1 THEN Numbers(0, d[1]) ELSE Numbers(d[1], n - d[1])]
  <1> DEFINE start == [host |-> 1, used |-> 0, of |-> [j \in DOMAIN d |-> <<>>]]
             give(s, k, h, used) == [host |-> h, used |-> used,
                                     of |-> [s.of EXCEPT ![h] = Append(@, k)]]
             turn(s, k) == IF s.used < d[s.host] THEN give(s, k, s.host, s.used + 1)
                                                 ELSE give(s, k, s.host + 1, 0)
             step(g, k) == IF k = 0 THEN start ELSE turn(g[k - 1], k)
             after == CHOOSE g : g = [k \in 0..n |-> step(g, k)]
             filled(k) == [j \in H |-> IF j = 1 THEN Numbers(0, k) ELSE <<>>]
             both(k) == [j \in H |-> IF j = 1 THEN Numbers(0, d[1]) ELSE Numbers(d[1], k - d[1])]
             first(k) == [host |-> 1, used |-> k, of |-> filled(k)]
             second(k) == [host |-> 2, used |-> k - d[1] - 1, of |-> both(k)]
             f == [k \in 0..n |-> IF k <= d[1] THEN first(k) ELSE second(k)]
  <1>1. Batches(d, n) = after[n].of
    BY DEF Batches
  <1>2. d[1] \in 0..n /\ DOMAIN d = H /\ 1 \in H
    OBVIOUS
  <1>3. ASSUME d[1] < n PROVE H = {1, 2} /\ 2 \in H /\ d[2] = n - d[1]
    BY <1>2, <1>3
  <1>4. f[0] = start
    <2>1. f[0] = first(0)
      BY <1>2
    <2>2. filled(0) = [j \in DOMAIN d |-> <<>>]
      BY <1>2, NumbersProperties
    <2> QED BY <2>1, <2>2
  <1>5. ASSUME NEW k \in 1..n
        PROVE  f[k] = turn(f[k - 1], k)
    <2>0. k - 1 \in 0..n /\ k \in 0..n /\ k - 1 \in Nat
      OBVIOUS
    <2>1. CASE k <= d[1]
      <3>1. f[k - 1] = first(k - 1) /\ f[k] = first(k)
        BY <1>2, <2>0, <2>1
      <3>2. Append(Numbers(0, k - 1), k) = Numbers(0, k)
        <4>1. 0 + (k - 1) + 1 = k /\ (k - 1) + 1 = k
          OBVIOUS
        <4>2. Append(Numbers(0, k - 1), 0 + (k - 1) + 1) = Numbers(0, (k - 1) + 1)
          BY <2>0, NumbersProperties
        <4> QED BY <4>1, <4>2
      <3>3. [filled(k - 1) EXCEPT ![1] = Append(@, k)] = filled(k)
        BY <1>2, <3>2
      <3>4. turn(first(k - 1), k) =
              [host |-> 1, used |-> k - 1 + 1, of |-> [filled(k - 1) EXCEPT ![1] = Append(@, k)]]
        <4>1. first(k - 1).used < d[first(k - 1).host]
          BY <1>2, <2>1
        <4> HIDE DEF filled
        <4> QED BY <4>1
      <3>5. first(k) = [host |-> 1, used |-> k - 1 + 1, of |-> filled(k)]
        OBVIOUS
      <3> HIDE DEF f, turn, first, filled
      <3> QED BY <3>1, <3>3, <3>4, <3>5
    <2>2. CASE k - 1 = d[1]
      <3>1. f[k - 1] = first(k - 1) /\ f[k] = second(k)
        BY <1>2, <2>0, <2>2
      <3>2. H = {1, 2}
        BY <1>2, <1>3, <2>2
      <3>3. Append(<<>>, k) = Numbers(d[1], k - d[1])
        <4>1. d[1] \in Nat /\ 0 \in Nat
          BY <1>2
        <4>2. Append(Numbers(d[1], 0), d[1] + 0 + 1) = Numbers(d[1], 0 + 1)
              /\ Numbers(d[1], 0) = <<>>
          BY <4>1, NumbersProperties
        <4>3. k - d[1] = 0 + 1 /\ d[1] + 0 + 1 = k
          BY <1>2, <2>2
        <4> QED BY <4>2, <4>3
      <3>4. [filled(k - 1) EXCEPT ![2] = Append(@, k)] = both(k)
        <4> DEFINE l == [filled(k - 1) EXCEPT ![2] = Append(@, k)]
        <4>1. l = [j \in H |-> IF j = 2 THEN Append(filled(k - 1)[2], k) ELSE filled(k - 1)[j]]
          OBVIOUS
        <4>2. filled(k - 1)[2] = <<>> /\ filled(k - 1)[1] = Numbers(0, d[1])
          BY <2>2, <3>2
        <4> HIDE DEF l, filled
        <4>3. l = [j \in H |-> IF j = 1 THEN Numbers(0, d[1]) ELSE Numbers(d[1], k - d[1])]
          BY <3>2, <3>3, <4>1, <4>2
        <4> QED BY <4>3 DEF l
      <3>5. turn(first(k - 1), k) =
              [host |-> 2, used |-> 0, of |-> [filled(k - 1) EXCEPT ![2] = Append(@, k)]]
        <4>1. ~ (first(k - 1).used < d[first(k - 1).host])
          BY <1>2, <2>2
        <4> HIDE DEF filled
        <4> QED BY <4>1
      <3>6. k - d[1] - 1 = 0
        BY <1>2, <2>2
      <3> QED BY <3>1, <3>4, <3>5, <3>6
    <2>3. CASE k - 1 > d[1]
      <3>1. f[k - 1] = second(k - 1) /\ f[k] = second(k)
        BY <1>2, <2>0, <2>3
      <3>2. H = {1, 2} /\ d[2] = n - d[1]
        BY <1>2, <1>3, <2>3
      <3>3. Append(Numbers(d[1], k - 1 - d[1]), k) = Numbers(d[1], k - d[1])
        <4>1. k - 1 - d[1] \in Nat /\ d[1] \in Nat /\ d[1] + (k - 1 - d[1]) + 1 = k
              /\ (k - 1 - d[1]) + 1 = k - d[1]
          BY <1>2, <2>3
        <4>2. Append(Numbers(d[1], k - 1 - d[1]), d[1] + (k - 1 - d[1]) + 1)
                = Numbers(d[1], (k - 1 - d[1]) + 1)
          BY <4>1, NumbersProperties
        <4> QED BY <4>1, <4>2
      <3>4. [both(k - 1) EXCEPT ![2] = Append(@, k)] = both(k)
        <4> DEFINE l == [both(k - 1) EXCEPT ![2] = Append(@, k)]
        <4>1. l = [j \in H |-> IF j = 2 THEN Append(both(k - 1)[2], k) ELSE both(k - 1)[j]]
          OBVIOUS
        <4>2. both(k - 1)[2] = Numbers(d[1], k - 1 - d[1]) /\ both(k - 1)[1] = Numbers(0, d[1])
          BY <3>2
        <4> HIDE DEF l, both
        <4>3. l = [j \in H |-> IF j = 1 THEN Numbers(0, d[1]) ELSE Numbers(d[1], k - d[1])]
          BY <3>2, <3>3, <4>1, <4>2
        <4> QED BY <4>3 DEF l, both
      <3>5. turn(second(k - 1), k) =
              [host |-> 2, used |-> k - 1 - d[1] - 1 + 1,
               of |-> [both(k - 1) EXCEPT ![2] = Append(@, k)]]
        <4>1. second(k - 1).used < d[second(k - 1).host]
          BY <1>2, <2>3, <3>2
        <4> HIDE DEF both
        <4> QED BY <4>1
      <3>6. k - 1 - d[1] - 1 + 1 = k - d[1] - 1
        BY <1>2
      <3> QED BY <3>1, <3>4, <3>5, <3>6
    <2>4. k <= d[1] \/ k - 1 = d[1] \/ k - 1 > d[1]
      <3>1. d[1] \in Int /\ k \in Int
        BY <1>2
      <3> QED BY <3>1
    <2> HIDE DEF f, turn
    <2> QED BY <2>1, <2>2, <2>3, <2>4
  <1>6. f = [k \in 0..n |-> step(f, k)]
    <2>1. f = [k \in 0..n |-> f[k]]
      OBVIOUS
    <2> HIDE DEF f, turn, start
    <2>2. ASSUME NEW k \in 0..n PROVE f[k] = step(f, k)
      <3>1. k = 0 \/ k \in 1..n
        OBVIOUS
      <3> QED BY <3>1, <1>4, <1>5
    <2> QED BY <2>1, <2>2
  <1>7. f[n].of = [j \in H |-> IF j = 1 THEN Numbers(0, d[1]) ELSE Numbers(d[1], n - d[1])]
    <2>1. CASE d[1] = n
      <3>1. f[n] = first(n)
        BY <1>2, <2>1
      <3>2. Numbers(d[1], n - d[1]) = <<>>
        BY <1>2, <2>1, NumbersProperties
      <3> QED BY <2>1, <3>1, <3>2
    <2>2. CASE d[1] < n
      BY <1>2, <2>2
    <2> QED BY <1>2, <2>1, <2>2
  <1> HIDE DEF f, turn, start
  <1>8. after = [k \in 0..n |-> step(after, k)]
    BY <1>6
  <1> HIDE DEF after
  <1>9. ASSUME NEW k \in 0..n, after[k] # f[k] PROVE FALSE
    <2> DEFINE S == {l \in 0..n : after[l] # f[l]}
    <2>1. PICK l \in S : \A m \in S : l <= m
      <3>1. S \in SUBSET Nat /\ S # {}
        BY <1>9
      <3> QED BY <3>1, LeastElement
    <2>2. l # 0
      BY <2>1, <1>4, <1>8
    <2>3. l - 1 \in 0..n /\ l \in 1..n
      BY <2>2
    <2>4. after[l - 1] = f[l - 1]
      BY <2>1, <2>3
    <2>5. after[l] = turn(after[l - 1], l)
      BY <1>8, <2>3
    <2> QED BY <2>1, <2>3, <2>4, <2>5, <1>5
  <1>10. after[n] = f[n]
    BY <1>9
  <1> QED BY <1>1, <1>7, <1>10

-----------------------------------------------------------------------------
(* The lists of hosts there are. *)
LEMMA ListFacts ==
  /\ <<"local">> \in Seq(Host) /\ Len(<<"local">>) = 1 /\ <<"local">>[1] = "local"
  /\ <<"fpga">> \in Seq(Host) /\ Len(<<"fpga">>) = 1 /\ <<"fpga">>[1] = "fpga"
  /\ <<"fpga", "local">> \in Seq(Host) /\ Len(<<"fpga", "local">>) = 2
  /\ <<"fpga", "local">>[1] = "fpga" /\ <<"fpga", "local">>[2] = "local"
  /\ <<>> \in Seq(Host) /\ Len(<<>>) = 0
  /\ ToSet(<<"local">>) = {"local"} /\ ToSet(<<"fpga">>) = {"fpga"} /\ ToSet(<<>>) = {}
  /\ ToSet(<<"fpga", "local">>) = {"fpga", "local"}
  <1>1. /\ <<"local">> \in Seq(Host) /\ Len(<<"local">>) = 1 /\ <<"local">>[1] = "local"
        /\ <<"fpga">> \in Seq(Host) /\ Len(<<"fpga">>) = 1 /\ <<"fpga">>[1] = "fpga"
    BY DEF Host
  <1>2. /\ <<"fpga", "local">> \in Seq(Host) /\ Len(<<"fpga", "local">>) = 2
        /\ <<"fpga", "local">>[1] = "fpga" /\ <<"fpga", "local">>[2] = "local"
    BY DEF Host
  <1>3. <<>> \in Seq(Host) /\ Len(<<>>) = 0
    BY EmptySeq
  <1>4. ToSet(<<"fpga", "local">>) = {"fpga", "local"}
    BY DEF ToSet
  <1> QED BY <1>1, <1>2, <1>3, <1>4, OneSignal, NoSignal

LEMMA ListProperties ==
  ASSUME NEW l \in AvailableLists
  PROVE  /\ l \in Seq(Host) /\ Len(l) \in {0, 1, 2} /\ DOMAIN l = 1..Len(l)
         /\ \A j, k \in DOMAIN l : l[j] = l[k] => j = k
         /\ \A j \in DOMAIN l : l[j] \in Host /\ l[j] \in ToSet(l)
  <1>1. l \in Seq(Host) /\ Len(l) \in {0, 1, 2}
    BY ListFacts DEF AvailableLists
  <1>2. DOMAIN l = 1..Len(l) /\ \A j \in 1..Len(l) : l[j] \in Host
    BY <1>1, LenProperties, ElementOfSeq
  <1>3. \A j, k \in DOMAIN l : l[j] = l[k] => j = k
    <2>1. CASE Len(l) = 0 \/ Len(l) = 1
      BY <1>2, <2>1
    <2>2. CASE Len(l) = 2
      <3>1. l = <<"fpga", "local">>
        BY <2>2, ListFacts DEF AvailableLists
      <3>2. l[1] = "fpga" /\ l[2] = "local" /\ \A j \in DOMAIN l : j \in {1, 2}
        BY <1>2, <2>2, <3>1, ListFacts
      <3> QED BY <3>2
    <2> QED BY <1>1, <2>1, <2>2
  <1>4. \A j \in DOMAIN l : l[j] \in ToSet(l)
    BY DEF ToSet
  <1> QED BY <1>1, <1>2, <1>3, <1>4

(* What the loop that erases the hosts without a selected platform leaves. *)
LEMMA SelectedOfOne ==
  ASSUME NEW S, computationHosts = <<"local">>, hostPlatforms \in Seq(S),
         Len(hostPlatforms) = 1
  PROVE  /\ hostPlatforms[1] = {} =>
              WithoutUnselected = [hosts |-> <<>>, platforms |-> <<>>]
         /\ hostPlatforms[1] # {} =>
              WithoutUnselected = [hosts |-> computationHosts, platforms |-> hostPlatforms]
  <1> DEFINE start == [hosts |-> computationHosts, platforms |-> hostPlatforms]
             turn(s, j) ==
               IF j <= Len(s.hosts) /\ s.platforms[j] = {}
                 THEN [hosts |-> RemoveAt(s.hosts, j), platforms |-> RemoveAt(s.platforms, j)]
                 ELSE s
             step(g, j) == IF j = 0 THEN start ELSE turn(g[j - 1], j)
             after == CHOOSE g : g = [j \in 0..1 |-> step(g, j)]
             f == [j \in 0..1 |-> IF j = 0 THEN start ELSE turn(start, 1)]
  <1>1. WithoutUnselected = after[1]
    BY ListFacts DEF WithoutUnselected
  <1>2. start.hosts = computationHosts /\ start.platforms = hostPlatforms
    OBVIOUS
  <1>3. RemoveAt(computationHosts, 1) = <<>> /\ RemoveAt(hostPlatforms, 1) = <<>>
        /\ Len(computationHosts) = 1
    BY ListFacts, EraseOne
  <1>4. turn(start, 1) = IF hostPlatforms[1] = {} THEN [hosts |-> <<>>, platforms |-> <<>>]
                                                  ELSE start
    BY <1>2, <1>3
  <1> HIDE DEF start, turn
  <1>5. f = [j \in 0..1 |-> step(f, j)]
    <2>1. f = [j \in 0..1 |-> f[j]] /\ f[0] = start /\ f[1] = turn(start, 1)
      OBVIOUS
    <2> HIDE DEF f
    <2>2. \A j \in 0..1 : j = 0 \/ j = 1
      OBVIOUS
    <2>3. \A j \in 0..1 : f[j] = step(f, j)
      BY <2>1, <2>2
    <2> QED BY <2>1, <2>3
  <1> HIDE DEF f
  <1>6. after = [j \in 0..1 |-> step(after, j)]
    BY <1>5
  <1> HIDE DEF after
  <1>7. after[0] = start /\ after[1] = turn(after[0], 1)
    BY <1>6
  <1> QED BY <1>1, <1>4, <1>7 DEF start

LEMMA SelectedOfTwo ==
  ASSUME NEW S, computationHosts = <<"fpga", "local">>, hostPlatforms \in Seq(S),
         Len(hostPlatforms) = 2
  PROVE  /\ hostPlatforms[1] = {} =>
              WithoutUnselected = [hosts |-> <<"local">>, platforms |-> <<hostPlatforms[2]>>]
         /\ hostPlatforms[1] # {} /\ hostPlatforms[2] = {} =>
              WithoutUnselected = [hosts |-> <<"fpga">>, platforms |-> <<hostPlatforms[1]>>]
         /\ hostPlatforms[1] # {} /\ hostPlatforms[2] # {} =>
              WithoutUnselected = [hosts |-> computationHosts, platforms |-> hostPlatforms]
  <1> DEFINE start == [hosts |-> computationHosts, platforms |-> hostPlatforms]
             turn(s, j) ==
               IF j <= Len(s.hosts) /\ s.platforms[j] = {}
                 THEN [hosts |-> RemoveAt(s.hosts, j), platforms |-> RemoveAt(s.platforms, j)]
                 ELSE s
             step(g, j) == IF j = 0 THEN start ELSE turn(g[j - 1], j)
             after == CHOOSE g : g = [j \in 0..2 |-> step(g, j)]
             f == [j \in 0..2 |-> IF j = 0 THEN start ELSE IF j = 1 THEN turn(start, 1)
                                  ELSE turn(turn(start, 1), 2)]
  <1>1. WithoutUnselected = after[2]
    BY ListFacts DEF WithoutUnselected
  <1>2. start.hosts = computationHosts /\ start.platforms = hostPlatforms
    OBVIOUS
  <1>3. /\ RemoveAt(computationHosts, 1) = <<"local">> /\ RemoveAt(computationHosts, 2) = <<"fpga">>
        /\ RemoveAt(hostPlatforms, 1) = <<hostPlatforms[2]>>
        /\ RemoveAt(hostPlatforms, 2) = <<hostPlatforms[1]>>
        /\ Len(computationHosts) = 2
    BY ListFacts, EraseOne
  <1> DEFINE localOnly == [hosts |-> <<"local">>, platforms |-> <<hostPlatforms[2]>>]
             fpgaOnly == [hosts |-> <<"fpga">>, platforms |-> <<hostPlatforms[1]>>]
  <1>4. turn(start, 1) = IF hostPlatforms[1] = {} THEN localOnly ELSE start
    BY <1>2, <1>3
  <1>5. turn(start, 2) = IF hostPlatforms[2] = {} THEN fpgaOnly ELSE start
    BY <1>2, <1>3
  <1>6. turn(localOnly, 2) = localOnly
    <2>1. ~ (2 <= Len(localOnly.hosts))
      BY ListFacts
    <2> HIDE DEF localOnly
    <2> QED BY <2>1
  <1> HIDE DEF start, turn, localOnly, fpgaOnly
  <1>7. f = [j \in 0..2 |-> step(f, j)]
    <2>1. /\ f = [j \in 0..2 |-> f[j]] /\ f[0] = start /\ f[1] = turn(start, 1)
          /\ f[2] = turn(turn(start, 1), 2)
      OBVIOUS
    <2> HIDE DEF f
    <2>2. \A j \in 0..2 : j = 0 \/ j = 1 \/ j = 2
      OBVIOUS
    <2>3. \A j \in 0..2 : f[j] = step(f, j)
      BY <2>1, <2>2
    <2> QED BY <2>1, <2>3
  <1> HIDE DEF f
  <1>8. after = [j \in 0..2 |-> step(after, j)]
    BY <1>7
  <1> HIDE DEF after
  <1>9. after[0] = start /\ after[1] = turn(after[0], 1) /\ after[2] = turn(after[1], 2)
    BY <1>8
  <1>10. after[2] = IF hostPlatforms[1] = {} THEN localOnly
                    ELSE IF hostPlatforms[2] = {} THEN fpgaOnly ELSE start
    BY <1>4, <1>5, <1>6, <1>9
  <1> QED BY <1>1, <1>10 DEF start, localOnly, fpgaOnly

LEMMA SumOfNone ==
  ASSUME NEW n \in Nat, NEW d \in [{} -> 0..n]
  PROVE  SumFunction(d) = 0
  <1> DEFINE choose(s) == CHOOSE x \in s : TRUE
             step(g, s) == IF s = {} THEN 0 ELSE d[choose(s)] + g[s \ {choose(s)}]
             f == [s \in SUBSET {} |-> 0]
             iter == CHOOSE g : g = [s \in SUBSET {} |-> step(g, s)]
  <1>1. SumFunction(d) = iter[{}]
    BY DEF SumFunction, SumFunctionOnSet, FoldFunctionOnSet, MapThenFoldSet
  <1>2. f = [s \in SUBSET {} |-> step(f, s)]
    OBVIOUS
  <1> HIDE DEF f
  <1>3. iter = [s \in SUBSET {} |-> step(iter, s)]
    BY <1>2
  <1> HIDE DEF iter
  <1> QED BY <1>1, <1>3

(* What the placer's result means for the list of hosts at hand. *)
LEMMA PlacementFills ==
  ASSUME NEW l \in AvailableLists, NEW n \in Nat \ {0}, NEW d \in Assignments(DOMAIN l, n)
  PROVE  /\ Batches(d, n) \in Spread(n) /\ Len(Batches(d, n)) = Len(l)
         /\ Len(l) \in {1, 2} /\ DOMAIN d = 1..Len(l) /\ d \in Seq(0..n) /\ Len(d) = Len(l)
  <1>1. d \in [DOMAIN l -> 0..n] /\ SumFunction(d) = n
    BY DEF Assignments
  <1>2. DOMAIN l = 1..Len(l) /\ Len(l) \in {0, 1, 2}
    BY ListProperties
  <1>3. Len(l) # 0
    <2> SUFFICES ASSUME Len(l) = 0 PROVE FALSE
      OBVIOUS
    <2>1. DOMAIN l = {}
      BY <1>2
    <2> QED BY <1>1, <2>1, SumOfNone
  <1>4. ASSUME Len(l) = 1
        PROVE  Batches(d, n) \in Spread(n) /\ Len(Batches(d, n)) = Len(l)
    <2>1. DOMAIN l = {1}
      BY <1>2, <1>4
    <2>2. d \in [{1} -> 0..n]
      BY <1>1, <2>1
    <2>3. d[1] = n
      BY <1>1, <2>2, SumOfOne
    <2>4. Batches(d, n) =
            [j \in {1} |-> IF j = 1 THEN Numbers(0, d[1]) ELSE Numbers(d[1], n - d[1])]
      <3>1. {1} # {1, 2}
        OBVIOUS
      <3> QED BY <2>2, <2>3, <3>1, BatchesFilled
    <2>5. Batches(d, n) = <<Numbers(0, n)>>
      BY <2>3, <2>4
    <2>6. \A x : Len(<<x>>) = 1
      OBVIOUS
    <2> QED BY <1>4, <2>5, <2>6 DEF Spread
  <1>5. ASSUME Len(l) = 2
        PROVE  Batches(d, n) \in Spread(n) /\ Len(Batches(d, n)) = Len(l)
    <2>1. DOMAIN l = {1, 2}
      BY <1>2, <1>5
    <2>2. d \in [{1, 2} -> 0..n]
      BY <1>1, <2>1
    <2>3. d[1] + d[2] = n /\ d[1] \in 0..n
      BY <1>1, <2>2, SumOfTwo
    <2>4. Batches(d, n) =
            [j \in {1, 2} |-> IF j = 1 THEN Numbers(0, d[1]) ELSE Numbers(d[1], n - d[1])]
      <3>1. {1, 2} # {1}
        OBVIOUS
      <3> QED BY <2>2, <2>3, <3>1, BatchesFilled
    <2>5. Batches(d, n) = <<Numbers(0, d[1]), Numbers(d[1], n - d[1])>>
      BY <2>4
    <2>6. \A x, y : Len(<<x, y>>) = 2
      OBVIOUS
    <2> QED BY <1>5, <2>3, <2>5, <2>6 DEF Spread
  <1>6. DOMAIN d = 1..Len(l) /\ d \in [1..Len(l) -> 0..n] /\ Len(l) \in Nat
    BY <1>1, <1>2
  <1>7. d \in Seq(0..n)
    BY <1>6, SeqDef
  <1>8. Len(d) = Len(l)
    BY <1>6, <1>7, LenProperties
  <1> QED BY <1>2, <1>3, <1>4, <1>5, <1>6, <1>7, <1>8

-----------------------------------------------------------------------------
(* The types, in three parts. *)
GuiTypes ==
  /\ gui \in {"loop", "starting"}
  /\ page \in {"start", "result"}
  /\ busy \in BOOLEAN
  /\ offered \in SUBSET (LocalPlatforms \cup FpgaPlatforms)
  /\ dialog \in {"none", "error", "fatal"}
  /\ open \in BOOLEAN
  /\ request \in Request
  /\ handlerException \in Exceptions
  /\ updatedPlatforms \in Seq(SUBSET (LocalPlatforms \cup FpgaPlatforms))
  /\ shown \in Seq(1..MaxImages)
  /\ inbox \in Seq([ok : BOOLEAN, images : Seq(1..MaxImages)])

WorkTypes ==
  /\ worker \in {"idle", "update", "match", "select", "place", "start", "report", "emit"}
  /\ index \in 1..3
  /\ hostPlatforms \in Seq(SUBSET (LocalPlatforms \cup FpgaPlatforms))
  /\ availableHosts \in Seq(Host)
  /\ hostDistribution \in Seq(0..MaxImages)
  /\ batches \in Seq(Seq(1..MaxImages))
  /\ allResults \in Seq(Seq(1..MaxImages))
  /\ thread \in [Host -> {"none", "running", "ended"}]

SharedTypes ==
  /\ serverPlatforms \in SUBSET FpgaPlatforms
  /\ serverChanged \in BOOLEAN
  /\ computationHosts \in {<<"local">>, <<"fpga", "local">>}
  /\ exceptionptr \in Exceptions
  /\ failed \in SUBSET (Host \cup {"placer"})

LEMMA TypeParts == TypeOK <=> GuiTypes /\ WorkTypes /\ SharedTypes
  BY DEF TypeOK, GuiTypes, WorkTypes, SharedTypes

LEMMA TypePartsNext == TypeOK' <=> GuiTypes' /\ WorkTypes' /\ SharedTypes'
  BY DEF TypeOK, GuiTypes, WorkTypes, SharedTypes

(* What the invariant says of the worker and the hosts alone. *)
WorkInv ==
  /\ WorkTypes /\ SharedTypes
  /\ RequestInv /\ MatchInv /\ AvailableInv /\ BlameInv /\ ThreadInv /\ BatchInv
  /\ SelectionInv

LEMMA UpdateParts == UpdateInv <=> GuiTypes /\ WorkInv /\ CompleteInv
  BY TypeParts DEF UpdateInv, WorkInv

LEMMA UpdatePartsNext == UpdateInv' <=> GuiTypes' /\ WorkInv' /\ CompleteInv'
  BY TypePartsNext DEF UpdateInv, WorkInv

(* The GUI thread does not touch what the worker and the hosts work on.    *)
LEMMA WorkUntouched ==
  ASSUME WorkInv, UNCHANGED <<worker, updateVars, resultVars, serverVars, sharedVars>>,
         request' = request \/ worker = "idle"
  PROVE  WorkInv'
  <1> USE DEF updateVars, resultVars, serverVars, sharedVars
  <1>1. WorkTypes' /\ SharedTypes'
    BY DEF WorkInv, WorkTypes, SharedTypes
  <1>2. RequestInv' /\ MatchInv' /\ AvailableInv'
    BY DEF WorkInv, RequestInv, MatchInv, AvailableInv
  <1>3. BlameInv' /\ ThreadInv'
    BY DEF WorkInv, BlameInv, ThreadInv
  <1>4. BatchInv'
    <2>1. CASE worker = "idle"
      BY <2>1 DEF BatchInv
    <2>2. CASE request' = request
      BY <2>2 DEF WorkInv, BatchInv
    <2> QED BY <2>1, <2>2
  <1>5. SelectionInv'
    <2>1. CASE worker = "idle"
      BY <2>1 DEF SelectionInv
    <2>2. CASE request' = request
      BY <2>2 DEF WorkInv, SelectionInv, Fitting, AvailablePlatforms, PlatformsOf
    <2> QED BY <2>1, <2>2
  <1> QED BY <1>1, <1>2, <1>3, <1>4, <1>5 DEF WorkInv

(* The hosts are the local one, or both. *)
LEMMA HostLists ==
  ASSUME SharedTypes
  PROVE  /\ computationHosts \in AvailableLists /\ computationHosts # <<>>
         /\ Len(computationHosts) \in {1, 2} /\ DOMAIN computationHosts = 1..Len(computationHosts)
         /\ \A j \in DOMAIN computationHosts : computationHosts[j] \in Host
  <1>1. computationHosts \in AvailableLists
    BY DEF SharedTypes, AvailableLists
  <1>2. Len(computationHosts) \in {1, 2}
    BY ListFacts DEF SharedTypes
  <1> QED BY <1>1, <1>2, ListProperties, ListFacts

LEMMA UpdateInitially == Init => UpdateInv
  <1> SUFFICES ASSUME Init PROVE UpdateInv
    OBVIOUS
  <1>1. GuiTypes
    <2>1. NoRequest \in Request
      BY ManagerAssumption DEF NoRequest, Request
    <2>2. NoException \in Exceptions
      BY DEF NoException, Exception, Exceptions
    <2>3. \A S : <<>> \in Seq(S)
      BY EmptySeq
    <2>4. offered \in SUBSET (LocalPlatforms \cup FpgaPlatforms)
      BY DEF Init
    <2> QED BY <2>1, <2>2, <2>3, <2>4 DEF Init, GuiTypes
  <1>2. WorkTypes /\ SharedTypes
    <2>1. NoException \in Exceptions
      BY DEF NoException, Exception, Exceptions
    <2>2. \A S : <<>> \in Seq(S)
      BY EmptySeq
    <2>3. WorkTypes
      BY <2>2 DEF Init, WorkTypes
    <2>4. SharedTypes
      BY <2>1 DEF Init, SharedTypes
    <2> QED BY <2>3, <2>4
  <1>3. RequestInv /\ MatchInv /\ AvailableInv /\ BlameInv /\ BatchInv /\ SelectionInv
    BY DEF Init, RequestInv, MatchInv, AvailableInv, BlameInv, BatchInv, SelectionInv
  <1>4. ThreadInv /\ CompleteInv
    BY NoSignal DEF Init, ThreadInv, CompleteInv
  <1> QED BY <1>1, <1>2, <1>3, <1>4, UpdateParts DEF WorkInv

(* The steps of the user. *)
LEMMA UserUpdate ==
  ASSUME ManagerInv, OfferInv, UpdateInv, User
  PROVE  UpdateInv'
  <1> USE DEF guiVars, handlerVars
  <1>1. GuiTypes /\ WorkInv /\ CompleteInv
    BY UpdateParts
  <1>2. CASE \E selected \in SUBSET offered, n \in 1..MaxImages :
               StartClassification(selected, n)
    <2>1. PICK selected \in SUBSET offered, n \in 1..MaxImages :
                 StartClassification(selected, n)
      BY <1>2
    <2>2. worker = "idle" /\ inbox = <<>> /\ page = "start" /\ worker' = "update"
          /\ UNCHANGED <<page, offered, shown, handlerVars, inbox, updateVars, resultVars,
                         serverVars, sharedVars>>
          /\ request' = [platforms |-> selected, images |-> n]
      BY <2>1 DEF ManagerInv, LockInv, Active, StartClassification
    <2>3. GuiTypes'
      <3>1. request' \in Request
        BY <1>1, <2>2, ManagerAssumption DEF GuiTypes, Request
      <3> QED BY <1>1, <2>1, <3>1 DEF StartClassification, GuiTypes
    <2>4. CompleteInv'
      BY <2>2, NoSignal DEF CompleteInv
    <2>5. WorkTypes' /\ SharedTypes'
      BY <1>1, <2>2 DEF WorkInv, WorkTypes, SharedTypes, updateVars, resultVars, serverVars,
         sharedVars
    <2>6. RequestInv' /\ MatchInv' /\ AvailableInv' /\ BlameInv' /\ ThreadInv' /\ BatchInv'
      BY <1>1, <2>2 DEF WorkInv, RequestInv, MatchInv, AvailableInv, BlameInv, ThreadInv,
         BatchInv, updateVars, resultVars, serverVars, sharedVars
    <2>7. SelectionInv'
      <3>1. ~ FailureOnItsWay
        BY <2>2, NoSignal DEF FailureOnItsWay
      <3>2. ~ serverChanged => selected \subseteq AvailablePlatforms(computationHosts)
        BY <3>1 DEF OfferInv
      <3>3. selected # {}
        BY <2>1 DEF StartClassification
      <3> QED BY <2>2, <3>2, <3>3, SameOffer
              DEF SelectionInv, serverVars, sharedVars
    <2> QED BY <2>3, <2>4, <2>5, <2>6, <2>7, UpdatePartsNext DEF WorkInv
  <1>3. CASE RefuseSelection
    <2>1. worker = "idle" /\ inbox = <<>> /\ page = "start"
      BY <1>3 DEF ManagerInv, LockInv, Active, RefuseSelection
    <2>2. GuiTypes'
      <3>1. NoRequest \in Request
        BY ManagerAssumption DEF NoRequest, Request
      <3> QED BY <1>1, <1>3, <3>1 DEF RefuseSelection, GuiTypes
    <2>3. WorkInv'
      BY <1>1, <1>3, <2>1, WorkUntouched DEF RefuseSelection
    <2>4. CompleteInv'
      BY <1>3, <2>1, NoSignal DEF RefuseSelection, CompleteInv
    <2> QED BY <2>2, <2>3, <2>4, UpdatePartsNext
  <1>4. CASE ReturnToStart \/ CloseDialog \/ CloseWindow
    <2>1. GuiTypes'
      <3>1. CASE ReturnToStart
        BY <1>1, <3>1, EmptySeq DEF ReturnToStart, GuiTypes
      <3>2. CASE CloseDialog
        <4>1. open' \in BOOLEAN
          BY <3>2, Zenon DEF CloseDialog
        <4>2. dialog' = "none"
              /\ UNCHANGED <<gui, page, busy, offered, request, shown, handlerVars, inbox>>
          BY <3>2 DEF CloseDialog
        <4> QED BY <1>1, <4>1, <4>2 DEF GuiTypes
      <3>3. CASE CloseWindow
        BY <1>1, <3>3 DEF CloseWindow, GuiTypes
      <3> QED BY <1>4, <3>1, <3>2, <3>3
    <2>2. WorkInv'
      BY <1>1, <1>4, WorkUntouched DEF ReturnToStart, CloseDialog, CloseWindow
    <2>3. CompleteInv'
      BY <1>1, <1>4 DEF ReturnToStart, CloseDialog, CloseWindow, CompleteInv, resultVars,
         sharedVars
    <2> QED BY <2>1, <2>2, <2>3, UpdatePartsNext
  <1> QED BY <1>2, <1>3, <1>4 DEF User

(* The steps of the event loop. *)
LEMMA EventLoopUpdate ==
  ASSUME ManagerInv, UpdateInv, EventLoop
  PROVE  UpdateInv'
  <1> USE DEF guiVars, handlerVars
  <1>1. GuiTypes /\ WorkInv /\ CompleteInv
    BY UpdateParts
  <1>2. CASE DisplayProgress \/ UpdatePlatformsCrashes
    <2>1. GuiTypes'
      BY <1>1, <1>2 DEF DisplayProgress, UpdatePlatformsCrashes, GuiTypes
    <2>2. WorkInv'
      BY <1>1, <1>2, WorkUntouched DEF DisplayProgress, UpdatePlatformsCrashes
    <2>3. CompleteInv'
      BY <1>1, <1>2 DEF DisplayProgress, UpdatePlatformsCrashes, CompleteInv, resultVars,
         sharedVars
    <2> QED BY <2>1, <2>2, <2>3, UpdatePartsNext
  <1>3. CASE DisplayResult \/ DisplayFailure
    <2> DEFINE m == inbox[1]
    <2>1. /\ inbox = <<m>> /\ worker = "idle" /\ Head(inbox) = m /\ Tail(inbox) = <<>>
          /\ ToSet(inbox) = {m} /\ page = "start"
      BY <1>3, OneSignal, TakeOnly
         DEF DisplayResult, DisplayFailure, ManagerInv, LockInv, Active
    <2>2. m \in [ok : BOOLEAN, images : Seq(1..MaxImages)]
      <3>1. Len(inbox) = 1
        BY <2>1
      <3> QED BY <1>1, <3>1, OneElement DEF GuiTypes
    <2>3. WorkInv'
      BY <1>1, <1>3, WorkUntouched DEF DisplayResult, DisplayFailure
    <2>4. inbox' = <<>> /\ ToSet(inbox') = {} /\ request' = request /\ worker' = "idle"
      BY <1>3, <2>1, NoSignal DEF DisplayResult, DisplayFailure
    <2>5. CASE DisplayResult
      <3>1. shown' = m.images /\ m.ok
        BY <2>1, <2>5 DEF DisplayResult
      <3>2. shown' = Numbers(0, request.images)
        BY <1>1, <2>1, <3>1 DEF CompleteInv
      <3>3. CompleteInv'
        BY <2>4, <3>2 DEF CompleteInv
      <3>4. GuiTypes'
        <4>1. shown' \in Seq(1..MaxImages)
          BY <2>2, <3>1
        <4>2. inbox' \in Seq([ok : BOOLEAN, images : Seq(1..MaxImages)])
          BY <2>4
        <4> HIDE DEF m
        <4> QED BY <1>1, <2>5, <4>1, <4>2 DEF DisplayResult, GuiTypes
      <3> QED BY <2>3, <3>3, <3>4, UpdatePartsNext
    <2>6. CASE DisplayFailure
      <3>1. CompleteInv'
        BY <2>1, <2>4, <2>6 DEF CompleteInv, DisplayFailure
      <3>2. offered' \in SUBSET (LocalPlatforms \cup FpgaPlatforms)
        <4>1. updatedPlatforms # <<>> =>
                Head(updatedPlatforms) \in SUBSET (LocalPlatforms \cup FpgaPlatforms)
          BY <1>1 DEF GuiTypes
        <4> QED BY <1>1, <2>6, <4>1 DEF DisplayFailure, GuiTypes
      <3>3. inbox' \in Seq([ok : BOOLEAN, images : Seq(1..MaxImages)])
            /\ updatedPlatforms' \in Seq(SUBSET (LocalPlatforms \cup FpgaPlatforms))
        BY <2>4, <2>6 DEF DisplayFailure
      <3>4. handlerException' \in Exceptions
        BY <1>1, <2>6 DEF DisplayFailure, GuiTypes, NoException, Exception, Exceptions
      <3>5. busy' \in BOOLEAN /\ dialog' \in {"none", "error", "fatal"}
        BY <1>1, <2>6 DEF DisplayFailure, GuiTypes, LockedByError
      <3>6. GuiTypes'
        BY <1>1, <2>6, <3>2, <3>3, <3>4, <3>5 DEF DisplayFailure, GuiTypes
      <3> QED BY <2>3, <3>1, <3>6, UpdatePartsNext
    <2> QED BY <1>3, <2>5, <2>6
  <1> QED BY <1>2, <1>3 DEF EventLoop

-----------------------------------------------------------------------------
(* The steps of the worker, from location to location. *)

(* The worker leaves the GUI thread's variables alone until it reports.    *)
LEMMA GuiUntouched ==
  ASSUME GuiTypes, CompleteInv, UNCHANGED <<guiVars, handlerVars, inbox>>, worker' # "report"
  PROVE  GuiTypes' /\ CompleteInv'
  BY DEF GuiTypes, CompleteInv, guiVars, handlerVars

LEMMA ServerUpdate ==
  ASSUME UpdateInv, ServerChanges
  PROVE  UpdateInv'
  <1> USE DEF updateVars, resultVars, sharedVars, guiVars, handlerVars
  <1>1. GuiTypes /\ WorkInv /\ CompleteInv
    BY UpdateParts
  <1>2. GuiTypes' /\ CompleteInv'
    BY <1>1 DEF ServerChanges, GuiTypes, CompleteInv
  <1>3. WorkTypes' /\ SharedTypes'
    BY <1>1 DEF ServerChanges, WorkInv, WorkTypes, SharedTypes
  <1>4. RequestInv' /\ MatchInv' /\ AvailableInv' /\ BlameInv' /\ ThreadInv' /\ BatchInv'
    BY <1>1 DEF ServerChanges, WorkInv, RequestInv, MatchInv, AvailableInv, BlameInv, ThreadInv,
       BatchInv
  <1>5. SelectionInv'
    BY DEF ServerChanges, SelectionInv
  <1> QED BY <1>2, <1>3, <1>4, <1>5, UpdatePartsNext DEF WorkInv

LEMMA BeginUpdateUpdate ==
  ASSUME ManagerInv, UpdateInv, BeginUpdate
  PROVE  UpdateInv'
  <1> USE DEF resultVars, serverVars
  <1>1. GuiTypes /\ WorkInv /\ CompleteInv
    BY UpdateParts
  <1>2. GuiTypes' /\ CompleteInv'
    BY <1>1, GuiUntouched DEF BeginUpdate
  <1> DEFINE n == Len(computationHosts)
  <1>3. n \in {1, 2} /\ DOMAIN computationHosts = 1..n
    BY <1>1, HostLists DEF WorkInv
  <1>4. hostPlatforms' \in Seq(SUBSET (LocalPlatforms \cup FpgaPlatforms))
        /\ Len(hostPlatforms') = n
    <2>1. hostPlatforms' = [j \in 1..n |-> {}] /\ n \in Nat
      BY <1>3 DEF BeginUpdate
    <2> HIDE DEF n
    <2>2. hostPlatforms' \in [1..n -> SUBSET (LocalPlatforms \cup FpgaPlatforms)]
      BY <2>1
    <2>3. hostPlatforms' \in Seq(SUBSET (LocalPlatforms \cup FpgaPlatforms))
      BY <2>1, <2>2, SeqDef
    <2> QED BY <2>1, <2>3, LenProperties
  <1>5. WorkTypes' /\ SharedTypes'
    BY <1>1, <1>4 DEF BeginUpdate, WorkInv, WorkTypes, SharedTypes
  <1>6. MatchInv'
    BY <1>3, <1>4 DEF BeginUpdate, MatchInv
  <1>7. RequestInv' /\ AvailableInv' /\ ThreadInv' /\ BatchInv'
    BY <1>1 DEF BeginUpdate, WorkInv, RequestInv, AvailableInv, ThreadInv, BatchInv, guiVars
  <1>8. BlameInv'
    BY DEF BeginUpdate, BlameInv, ManagerInv, ExceptionInv
  <1>9. SelectionInv'
    <2>1. worker' = "match" /\ index' = 1 /\ request' = request /\ worker = "update"
          /\ UNCHANGED <<computationHosts, serverPlatforms, serverChanged>>
      BY DEF BeginUpdate, guiVars
    <2>2. \A j \in 1..(1 - 1) : FALSE
      OBVIOUS
    <2> QED BY <1>1, <2>1, <2>2, SameOffer DEF WorkInv, SelectionInv
  <1> QED BY <1>2, <1>5, <1>6, <1>7, <1>8, <1>9, UpdatePartsNext DEF WorkInv

LEMMA MatchHostUpdate ==
  ASSUME UpdateInv, MatchHost
  PROVE  UpdateInv'
  <1> USE DEF resultVars, serverVars, sharedVars
  <1>1. GuiTypes /\ WorkInv /\ CompleteInv
    BY UpdateParts
  <1>2. GuiTypes' /\ CompleteInv'
    BY <1>1, GuiUntouched DEF MatchHost
  <1> DEFINE n == Len(computationHosts)
             all == LocalPlatforms \cup FpgaPlatforms
  <1>3. n \in {1, 2} /\ index \in 1..n /\ Len(hostPlatforms) = n /\ hostPlatforms \in Seq(SUBSET all)
    BY <1>1, HostLists DEF WorkInv, MatchHost, MatchInv, WorkTypes
  <1>4. PlatformsOf(computationHosts[index]) \cap request.platforms \in SUBSET all
    BY <1>1 DEF WorkInv, SharedTypes, PlatformsOf
  <1>5. /\ hostPlatforms' \in Seq(SUBSET all) /\ Len(hostPlatforms') = n
        /\ hostPlatforms'[index] = PlatformsOf(computationHosts[index]) \cap request.platforms
        /\ \A j \in 1..n : j # index => hostPlatforms'[j] = hostPlatforms[j]
    BY <1>3, <1>4, ExceptSeq DEF MatchHost
  <1>6. WorkTypes' /\ SharedTypes'
    <2>1. index + 1 \in 1..3
      BY <1>3
    <2>2. hostPlatforms' \in Seq(SUBSET all)
      BY <1>5
    <2> HIDE DEF n, all
    <2> QED BY <1>1, <2>1, <2>2 DEF MatchHost, WorkInv, WorkTypes, SharedTypes, all
  <1>7. MatchInv'
    BY <1>3, <1>5 DEF MatchHost, MatchInv
  <1>8. RequestInv' /\ AvailableInv' /\ ThreadInv' /\ BatchInv' /\ BlameInv'
    BY <1>1 DEF MatchHost, WorkInv, RequestInv, AvailableInv, ThreadInv, BatchInv, guiVars, BlameInv
  <1>9. SelectionInv'
    <2> SUFFICES ASSUME ~ serverChanged
                 PROVE  /\ request.platforms # {}
                        /\ request.platforms \subseteq AvailablePlatforms(computationHosts)
                        /\ \A j \in 1..index : hostPlatforms'[j] =
                             PlatformsOf(computationHosts[j]) \cap request.platforms
      <3>1. worker' = "match" /\ index' = index + 1 /\ request' = request
            /\ UNCHANGED <<computationHosts, serverPlatforms, serverChanged>>
        BY DEF MatchHost, guiVars
      <3>2. (index + 1) - 1 = index
        BY <1>3
      <3> QED BY <3>1, <3>2, SameOffer DEF SelectionInv, PlatformsOf
    <2>1. /\ request.platforms # {}
          /\ request.platforms \subseteq AvailablePlatforms(computationHosts)
          /\ \A j \in 1..(index - 1) : hostPlatforms[j] =
               PlatformsOf(computationHosts[j]) \cap request.platforms
      BY <1>1 DEF WorkInv, SelectionInv, MatchHost
    <2>2. \A j \in 1..index : j = index \/ (j \in 1..(index - 1) /\ j \in 1..n /\ j # index)
      BY <1>3
    <2> QED BY <1>5, <2>1, <2>2
  <1> QED BY <1>2, <1>6, <1>7, <1>8, <1>9, UpdatePartsNext DEF WorkInv

(* The remote host is only asked when it is there. *)
LEMMA FpgaAsked ==
  ASSUME SharedTypes, NEW j \in DOMAIN computationHosts, computationHosts[j] = "fpga"
  PROVE  computationHosts = <<"fpga", "local">> /\ j = 1
  <1>1. CASE computationHosts = <<"local">>
    BY <1>1
  <1>2. CASE computationHosts = <<"fpga", "local">>
    BY <1>2
  <1> QED BY <1>1, <1>2 DEF SharedTypes

LEMMA MatchFailsUpdate ==
  ASSUME UpdateInv, MatchFails
  PROVE  UpdateInv'
  <1> USE DEF resultVars, serverVars, updateVars
  <1>1. GuiTypes /\ WorkInv /\ CompleteInv
    BY UpdateParts
  <1>2. GuiTypes' /\ CompleteInv'
    BY <1>1, GuiUntouched DEF MatchFails
  <1>3. index \in DOMAIN computationHosts
    BY <1>1, HostLists DEF WorkInv, MatchFails, MatchInv
  <1>4. computationHosts = <<"fpga", "local">>
    BY <1>1, <1>3, FpgaAsked DEF WorkInv, MatchFails
  <1>5. WorkTypes'
    BY <1>1 DEF MatchFails, WorkInv, WorkTypes
  <1>6. SharedTypes'
    BY <1>1 DEF MatchFails, WorkInv, SharedTypes, Exception, Exceptions, Host
  <1>7. MatchInv'
    BY <1>1, Thrown DEF MatchFails, WorkInv, MatchInv
  <1>8. RequestInv' /\ AvailableInv' /\ ThreadInv' /\ BatchInv' /\ SelectionInv'
    BY <1>1 DEF MatchFails, WorkInv, RequestInv, AvailableInv, ThreadInv, BatchInv, guiVars, SelectionInv
  <1>9. BlameInv'
    BY <1>4 DEF MatchFails, BlameInv
  <1> QED BY <1>2, <1>5, <1>6, <1>7, <1>8, <1>9, UpdatePartsNext DEF WorkInv


(* The available hosts: with their platforms, and with platforms only.     *)
LEMMA SelectHostsUpdate ==
  ASSUME ManagerInv, UpdateInv, SelectHosts
  PROVE  UpdateInv'
  <1> USE DEF resultVars, serverVars, sharedVars
  <1> DEFINE all == LocalPlatforms \cup FpgaPlatforms
             n == Len(computationHosts)
  <1>1. GuiTypes /\ WorkInv /\ CompleteInv
    BY UpdateParts
  <1>2. worker \in {"match", "select"} /\ worker' = "place"
        /\ UNCHANGED <<guiVars, handlerVars, inbox, index, hostDistribution, batches,
                       allResults, thread, serverVars, sharedVars>>
        /\ availableHosts' = WithoutUnselected.hosts
        /\ hostPlatforms' = WithoutUnselected.platforms
    BY DEF SelectHosts
  <1>3. GuiTypes' /\ CompleteInv'
    BY <1>1, <1>2, GuiUntouched
  <1>4. hostPlatforms \in Seq(SUBSET all) /\ Len(hostPlatforms) = n
    BY <1>1, <1>2 DEF WorkInv, WorkTypes, MatchInv
  <1>5. ASSUME exceptionptr = NoException, ~ serverChanged
        PROVE  /\ request.platforms # {}
               /\ request.platforms \subseteq AvailablePlatforms(computationHosts)
               /\ \A j \in 1..n : hostPlatforms[j] =
                    PlatformsOf(computationHosts[j]) \cap request.platforms
    <2>1. worker = "match" /\ index > n
      BY <1>1, <1>5 DEF SelectHosts, WorkInv, MatchInv
    <2>2. \A j \in 1..n : j \in 1..(index - 1)
      BY <1>1, <2>1, HostLists DEF WorkInv, WorkTypes
    <2> QED BY <1>1, <1>5, <2>1, <2>2 DEF WorkInv, SelectionInv
  <1> DEFINE fitting == \A j \in DOMAIN WithoutUnselected.hosts :
               /\ WithoutUnselected.platforms[j] # {}
               /\ WithoutUnselected.platforms[j] \subseteq
                    request.platforms \cap PlatformsOf(WithoutUnselected.hosts[j])
  <1>6. /\ WithoutUnselected.hosts \in AvailableLists
        /\ "fpga" \in ToSet(WithoutUnselected.hosts) => computationHosts = <<"fpga", "local">>
        /\ WithoutUnselected.platforms \in Seq(SUBSET all)
        /\ exceptionptr = NoException /\ ~ serverChanged => fitting
    <2>1. CASE computationHosts = <<"local">>
      <3>1. n = 1 /\ computationHosts[1] = "local" /\ DOMAIN computationHosts = {1}
        BY <2>1, ListFacts
      <3>2. CASE hostPlatforms[1] = {}
        <4>1. WithoutUnselected = [hosts |-> <<>>, platforms |-> <<>>]
          BY <1>4, <2>1, <3>1, <3>2, SelectedOfOne
        <4> QED BY <4>1, ListFacts, EmptySeq DEF AvailableLists
      <3>3. CASE hostPlatforms[1] # {}
        <4>1. WithoutUnselected = [hosts |-> computationHosts, platforms |-> hostPlatforms]
          BY <1>4, <2>1, <3>1, <3>3, SelectedOfOne
        <4>2. WithoutUnselected.hosts = computationHosts
              /\ WithoutUnselected.platforms = hostPlatforms
          BY <4>1
        <4>3. exceptionptr = NoException /\ ~ serverChanged => fitting
          BY <1>5, <3>1, <3>3, <4>2
        <4> QED BY <1>4, <2>1, <4>2, <4>3, ListFacts DEF AvailableLists
      <3> QED BY <3>2, <3>3
    <2>2. CASE computationHosts = <<"fpga", "local">>
      <3>1. n = 2 /\ computationHosts[1] = "fpga" /\ computationHosts[2] = "local"
            /\ DOMAIN computationHosts = {1, 2}
        BY <2>2, ListFacts
      <3>2. hostPlatforms[1] \in SUBSET all /\ hostPlatforms[2] \in SUBSET all
        BY <1>4, <3>1, TwoElements
      <3>3. CASE hostPlatforms[1] = {}
        <4>1. WithoutUnselected = [hosts |-> <<"local">>, platforms |-> <<hostPlatforms[2]>>]
          BY <1>4, <2>2, <3>1, <3>3, SelectedOfTwo
        <4>2. WithoutUnselected.hosts = <<"local">>
              /\ WithoutUnselected.platforms = <<hostPlatforms[2]>>
          BY <4>1
        <4>3. <<hostPlatforms[2]>> \in Seq(SUBSET all)
          BY <3>2
        <4>4. ASSUME exceptionptr = NoException, ~ serverChanged
              PROVE  fitting
          <5>1. hostPlatforms[1] = PlatformsOf("fpga") \cap request.platforms
                /\ hostPlatforms[2] = PlatformsOf("local") \cap request.platforms
            BY <1>5, <3>1, <4>4
          <5>2. AvailablePlatforms(computationHosts) = PlatformsOf("fpga") \cup PlatformsOf("local")
            BY <2>2, ListFacts DEF AvailablePlatforms
          <5>3. hostPlatforms[2] # {}
            BY <1>5, <3>3, <4>4, <5>1, <5>2
          <5>4. DOMAIN <<"local">> = {1} /\ <<"local">>[1] = "local"
                /\ <<hostPlatforms[2]>>[1] = hostPlatforms[2]
            OBVIOUS
          <5> QED BY <4>2, <5>1, <5>3, <5>4
        <4> QED BY <2>2, <4>2, <4>3, <4>4 DEF AvailableLists
      <3>4. CASE hostPlatforms[1] # {} /\ hostPlatforms[2] = {}
        <4>1. WithoutUnselected = [hosts |-> <<"fpga">>, platforms |-> <<hostPlatforms[1]>>]
          BY <1>4, <2>2, <3>1, <3>4, SelectedOfTwo
        <4>2. WithoutUnselected.hosts = <<"fpga">>
              /\ WithoutUnselected.platforms = <<hostPlatforms[1]>>
          BY <4>1
        <4>3. <<hostPlatforms[1]>> \in Seq(SUBSET all)
          BY <3>2
        <4>4. DOMAIN <<"fpga">> = {1} /\ <<"fpga">>[1] = "fpga"
              /\ <<hostPlatforms[1]>>[1] = hostPlatforms[1]
          OBVIOUS
        <4>5. exceptionptr = NoException /\ ~ serverChanged => fitting
          BY <1>5, <3>1, <3>4, <4>2, <4>4
        <4> QED BY <2>2, <4>2, <4>3, <4>5 DEF AvailableLists
      <3>5. CASE hostPlatforms[1] # {} /\ hostPlatforms[2] # {}
        <4>1. WithoutUnselected = [hosts |-> computationHosts, platforms |-> hostPlatforms]
          BY <1>4, <2>2, <3>1, <3>5, SelectedOfTwo
        <4>2. WithoutUnselected.hosts = computationHosts
              /\ WithoutUnselected.platforms = hostPlatforms
          BY <4>1
        <4>3. exceptionptr = NoException /\ ~ serverChanged => fitting
          BY <1>5, <3>1, <3>5, <4>2
        <4> QED BY <1>4, <2>2, <4>2, <4>3 DEF AvailableLists
      <3> QED BY <3>3, <3>4, <3>5
    <2> QED BY <1>1, <2>1, <2>2 DEF WorkInv, SharedTypes
  <1>7. WorkTypes'
    <2>1. WithoutUnselected.hosts \in Seq(Host)
      BY <1>6, ListProperties
    <2> HIDE DEF all
    <2> QED BY <1>1, <1>2, <1>6, <2>1 DEF WorkInv, WorkTypes, all
  <1>8. SharedTypes' /\ RequestInv' /\ MatchInv' /\ BlameInv' /\ BatchInv'
    BY <1>1, <1>2 DEF WorkInv, SharedTypes, RequestInv, MatchInv, BlameInv, BatchInv, guiVars
  <1>9. AvailableInv'
    BY <1>2, <1>6 DEF AvailableInv
  <1>10. ThreadInv'
    BY <1>1, <1>2 DEF WorkInv, ThreadInv
  <1>11. SelectionInv'
    BY <1>2, <1>6 DEF SelectionInv, Fitting, PlatformsOf, guiVars
  <1> QED BY <1>3, <1>7, <1>8, <1>9, <1>10, <1>11, UpdatePartsNext DEF WorkInv

(* The batches are lists of images. *)
LEMMA SpreadTypes ==
  ASSUME NEW n \in 1..MaxImages, NEW b \in Spread(n)
  PROVE  b \in Seq(Seq(1..MaxImages))
  <1>1. ASSUME NEW a \in Nat, NEW k \in Nat, a + k <= n
        PROVE  Numbers(a, k) \in Seq(1..MaxImages)
    <2>1. \A x \in 1..k : a + x \in 1..MaxImages
      BY <1>1, ManagerAssumption
    <2> DEFINE e(x) == a + x
    <2>2. \A x \in 1..k : e(x) \in 1..MaxImages
      BY <2>1
    <2>3. [x \in 1..k |-> e(x)] \in Seq(1..MaxImages)
      BY <2>2, IsASeq
    <2> QED BY <2>3 DEF Numbers
  <1>2. Numbers(0, n) \in Seq(1..MaxImages)
    BY <1>1, ManagerAssumption
  <1>3. ASSUME NEW a \in 0..n
        PROVE  Numbers(0, a) \in Seq(1..MaxImages) /\ Numbers(a, n - a) \in Seq(1..MaxImages)
    <2>1. a \in Nat /\ n - a \in Nat /\ 0 + a <= n /\ a + (n - a) <= n /\ 0 \in Nat
      OBVIOUS
    <2> QED BY <1>1, <2>1
  <1>4. CASE b = <<Numbers(0, n)>>
    BY <1>2, <1>4
  <1>5. CASE \E a \in 0..n : b = <<Numbers(0, a), Numbers(a, n - a)>>
    BY <1>3, <1>5
  <1> QED BY <1>4, <1>5 DEF Spread

LEMMA PlaceImagesUpdate ==
  ASSUME ManagerInv, UpdateInv, NEW d \in Assignments(DOMAIN availableHosts, request.images),
         PlaceImages(d)
  PROVE  UpdateInv'
  <1> USE DEF serverVars, sharedVars
  <1> DEFINE n == request.images
  <1>1. GuiTypes /\ WorkInv /\ CompleteInv
    BY UpdateParts
  <1>2. worker = "place" /\ worker' \in {"start", "report"} /\ hostDistribution' = d
        /\ UNCHANGED <<guiVars, handlerVars, inbox, hostPlatforms, availableHosts, thread,
                       serverVars, sharedVars>>
    BY DEF PlaceImages
  <1>3. n \in 1..MaxImages /\ n \in Nat \ {0}
    BY <1>1, <1>2, ManagerAssumption DEF GuiTypes, Request, WorkInv, RequestInv
  <1>4. availableHosts \in AvailableLists
    BY <1>1, <1>2 DEF WorkInv, AvailableInv
  <1>5. /\ Batches(d, n) \in Spread(n) /\ Len(Batches(d, n)) = Len(availableHosts)
        /\ Len(availableHosts) \in {1, 2} /\ DOMAIN d = 1..Len(availableHosts)
        /\ d \in Seq(0..n)
    BY <1>3, <1>4, PlacementFills
  <1>6. d \in Seq(0..MaxImages)
    <2>1. DOMAIN d = 1..Len(d) /\ \A j \in 1..Len(d) : d[j] \in 0..MaxImages
      BY <1>3, <1>5, ManagerAssumption
    <2>2. d \in [1..Len(d) -> 0..n] /\ Len(d) \in Nat
      BY <1>5, LenProperties
    <2>3. d \in [1..Len(d) -> 0..MaxImages]
      BY <2>1, <2>2
    <2> QED BY <2>2, <2>3, SeqDef
  <1>7. GuiTypes'
    BY <1>1, <1>2 DEF GuiTypes, guiVars, handlerVars
  <1>8. SharedTypes' /\ RequestInv' /\ MatchInv' /\ AvailableInv' /\ BlameInv'
    BY <1>1, <1>2 DEF WorkInv, SharedTypes, RequestInv, MatchInv, AvailableInv, BlameInv, guiVars
  <1>9. thread = [h \in Host |-> "none"]
    BY <1>1, <1>2 DEF WorkInv, ThreadInv
  <1>10. ThreadInv'
    BY <1>2, <1>9 DEF ThreadInv
  <1>11. CASE exceptionptr = NoException
    <2>1. batches' = Batches(d, n) /\ allResults' = [j \in DOMAIN d |-> <<>>] /\ index' = 1
          /\ worker' = "start"
      BY <1>11 DEF PlaceImages
    <2>2. batches' \in Seq(Seq(1..MaxImages))
      BY <1>3, <1>5, <2>1, SpreadTypes
    <2>3. allResults' \in Seq(Seq(1..MaxImages))
      <3> DEFINE k == Len(availableHosts)
      <3>1. allResults' = [j \in 1..k |-> <<>>] /\ k \in Nat
        BY <1>5, <2>1
      <3> HIDE DEF k
      <3>2. <<>> \in Seq(1..MaxImages)
        BY EmptySeq
      <3>3. allResults' \in [1..k -> Seq(1..MaxImages)]
        BY <3>1, <3>2
      <3> QED BY <3>1, <3>3, SeqDef
    <2>4. WorkTypes'
      BY <1>1, <1>2, <1>6, <2>1, <2>2, <2>3 DEF WorkInv, WorkTypes
    <2>5. BatchInv'
      <3>1. DOMAIN batches' = 1..Len(availableHosts)
        BY <1>5, <2>1, <2>2, LenProperties
      <3>2. \A j \in DOMAIN batches' : availableHosts[j] \in Host
        BY <1>4, <3>1, ListProperties
      <3>3. /\ batches' \in Spread(n) /\ Len(batches') = Len(availableHosts)
            /\ 1 \in 1..(Len(availableHosts) + 1)
            /\ DOMAIN allResults' = DOMAIN batches'
        BY <1>5, <2>1, <3>1
      <3>4. \A j \in DOMAIN batches' : /\ thread[availableHosts[j]] = "none"
                                       /\ allResults'[j] = <<>> /\ j >= 1
        BY <1>5, <1>9, <2>1, <3>1, <3>2
      <3> QED BY <1>2, <2>1, <3>3, <3>4 DEF BatchInv, guiVars
    <2>6. SelectionInv'
      BY <1>1, <1>2, <1>11, <2>1 DEF WorkInv, SelectionInv, Fitting, PlatformsOf, guiVars
    <2>7. CompleteInv'
      BY <1>1, <1>2, <2>1 DEF CompleteInv, guiVars
    <2> QED BY <1>7, <1>8, <1>10, <2>4, <2>5, <2>6, <2>7, UpdatePartsNext DEF WorkInv
  <1>12. CASE exceptionptr # NoException
    <2>1. worker' = "report" /\ UNCHANGED <<batches, allResults, index>>
      BY <1>12 DEF PlaceImages
    <2>2. WorkTypes'
      BY <1>1, <1>2, <1>6, <2>1 DEF WorkInv, WorkTypes
    <2>3. BatchInv' /\ SelectionInv'
      BY <2>1 DEF BatchInv, SelectionInv
    <2>4. CompleteInv'
      BY <1>1, <1>2, <1>12 DEF CompleteInv, guiVars
    <2> QED BY <1>7, <1>8, <1>10, <2>2, <2>3, <2>4, UpdatePartsNext DEF WorkInv
  <1> QED BY <1>11, <1>12

LEMMA PlacerThrowsUpdate ==
  ASSUME UpdateInv, PlacerThrows
  PROVE  UpdateInv'
  <1> USE DEF updateVars, resultVars, serverVars
  <1>1. GuiTypes /\ WorkInv /\ CompleteInv
    BY UpdateParts
  <1>2. exceptionptr' # NoException /\ exceptionptr'.kind = "resource"
    BY Thrown DEF PlacerThrows, Exception
  <1>3. GuiTypes' /\ CompleteInv'
    BY <1>1, <1>2 DEF PlacerThrows, GuiTypes, CompleteInv, guiVars, handlerVars
  <1>4. WorkTypes'
    BY <1>1 DEF PlacerThrows, WorkInv, WorkTypes
  <1>5. SharedTypes'
    BY <1>1 DEF PlacerThrows, WorkInv, SharedTypes, Exception, Exceptions
  <1>6. RequestInv' /\ MatchInv' /\ AvailableInv' /\ ThreadInv' /\ BatchInv' /\ SelectionInv'
    BY <1>1 DEF PlacerThrows, WorkInv, RequestInv, MatchInv, AvailableInv, ThreadInv, BatchInv,
       SelectionInv, guiVars
  <1>7. BlameInv'
    BY <1>2 DEF PlacerThrows, BlameInv
  <1> QED BY <1>3, <1>4, <1>5, <1>6, <1>7, UpdatePartsNext DEF WorkInv


(* What the batches and the available hosts are while threads run.         *)
LEMMA StartFacts ==
  ASSUME WorkInv, worker = "start"
  PROVE  /\ availableHosts \in AvailableLists /\ Len(availableHosts) \in {0, 1, 2}
         /\ DOMAIN batches = 1..Len(availableHosts) /\ DOMAIN availableHosts = 1..Len(availableHosts)
         /\ DOMAIN allResults = 1..Len(availableHosts)
         /\ index \in 1..(Len(availableHosts) + 1)
         /\ \A j, k \in 1..Len(availableHosts) : availableHosts[j] = availableHosts[k] => j = k
         /\ \A j \in 1..Len(availableHosts) : availableHosts[j] \in Host
  <1>1. availableHosts \in AvailableLists
    BY DEF WorkInv, AvailableInv
  <1>2. DOMAIN batches = 1..Len(availableHosts) /\ index \in 1..(Len(availableHosts) + 1)
    BY LenProperties DEF WorkInv, BatchInv, WorkTypes
  <1>3. DOMAIN allResults = DOMAIN batches
    BY DEF WorkInv, BatchInv
  <1> QED BY <1>1, <1>2, <1>3, ListProperties

LEMMA StartThreadUpdate ==
  ASSUME UpdateInv, StartThread
  PROVE  UpdateInv'
  <1> USE DEF serverVars, sharedVars
  <1> DEFINE n == Len(availableHosts)
             host == availableHosts[index]
  <1>1. GuiTypes /\ WorkInv /\ CompleteInv
    BY UpdateParts
  <1>2. /\ worker = "start" /\ worker' = "start" /\ index \in 1..n /\ index' = index + 1
        /\ thread' = IF batches[index] # <<>> THEN [thread EXCEPT ![host] = "running"] ELSE thread
        /\ UNCHANGED <<guiVars, handlerVars, inbox, hostPlatforms, availableHosts,
                       hostDistribution, batches, allResults, serverVars, sharedVars>>
    BY <1>1, StartFacts DEF StartThread
  <1>3. GuiTypes' /\ CompleteInv'
    BY <1>1, <1>2, GuiUntouched
  <1>4. n \in {1, 2} /\ host \in Host /\ thread \in [Host -> {"none", "running", "ended"}]
        /\ host \in ToSet(availableHosts)
    BY <1>1, <1>2, StartFacts DEF WorkInv, WorkTypes, ToSet
  <1>5. /\ thread' \in [Host -> {"none", "running", "ended"}]
        /\ \A h \in Host : h # host => thread'[h] = thread[h]
        /\ batches[index] # <<>> => thread'[host] = "running"
        /\ batches[index] = <<>> => thread'[host] = thread[host]
    BY <1>2, <1>4
  <1>6. WorkTypes'
    <2>1. index + 1 \in 1..3
      BY <1>2, <1>4
    <2> HIDE DEF host
    <2> QED BY <1>1, <1>2, <1>5, <2>1 DEF WorkInv, WorkTypes
  <1>7. SharedTypes' /\ RequestInv' /\ MatchInv' /\ AvailableInv' /\ BlameInv'
    BY <1>1, <1>2 DEF WorkInv, SharedTypes, RequestInv, MatchInv, AvailableInv, BlameInv, guiVars
  <1>8. ThreadInv'
    BY <1>1, <1>2, <1>4, <1>5 DEF WorkInv, ThreadInv
  <1>9. SelectionInv'
    BY <1>1, <1>2 DEF WorkInv, SelectionInv, Fitting, PlatformsOf, guiVars
  <1>10. BatchInv'
    <2>1. /\ batches \in Spread(request.images) /\ Len(batches) = n
          /\ DOMAIN allResults = DOMAIN batches
          /\ \A j \in DOMAIN batches :
               /\ j >= index => thread[availableHosts[j]] = "none"
               /\ thread[availableHosts[j]] = "none" => allResults[j] = <<>>
               /\ thread[availableHosts[j]] = "ended" =>
                    allResults[j] = batches[j] \/ availableHosts[j] \in failed
               /\ j < index /\ batches[j] # <<>> => thread[availableHosts[j]] # "none"
               /\ allResults[j] \in {<<>>, batches[j]}
      BY <1>1, <1>2 DEF WorkInv, BatchInv
    <2>2. ASSUME NEW j \in DOMAIN batches
          PROVE  /\ j >= index + 1 => thread'[availableHosts[j]] = "none"
                 /\ thread'[availableHosts[j]] = "none" => allResults[j] = <<>>
                 /\ thread'[availableHosts[j]] = "ended" =>
                      allResults[j] = batches[j] \/ availableHosts[j] \in failed
                 /\ j < index + 1 /\ batches[j] # <<>> => thread'[availableHosts[j]] # "none"
                 /\ allResults[j] \in {<<>>, batches[j]}
      <3>1. j \in 1..n /\ j \in Int /\ index \in Int /\ availableHosts[j] \in Host
        BY <1>1, <1>2, StartFacts
      <3>2. CASE j = index
        BY <1>2, <1>5, <2>1, <3>1, <3>2
      <3>3. CASE j # index
        <4>1. availableHosts[j] # host
          BY <1>1, <1>2, <3>1, <3>3, StartFacts
        <4>2. thread'[availableHosts[j]] = thread[availableHosts[j]]
          BY <1>5, <3>1, <4>1
        <4>3. (j >= index + 1 => j >= index) /\ (j < index + 1 => j < index)
          BY <3>1, <3>3
        <4> QED BY <2>1, <4>2, <4>3
      <3> QED BY <3>2, <3>3
    <2>3. index + 1 \in 1..(n + 1)
      BY <1>2, <1>4
    <2> QED BY <1>2, <2>1, <2>2, <2>3 DEF BatchInv, guiVars
  <1> QED BY <1>3, <1>6, <1>7, <1>8, <1>9, <1>10, UpdatePartsNext DEF WorkInv

(* A host returns its whole batch, and its own thread ends. *)
LEMMA HostClassifiesUpdate ==
  ASSUME ManagerInv, UpdateInv, NEW h \in Host, HostClassifies(h)
  PROVE  UpdateInv'
  <1> USE DEF updateVars, serverVars, sharedVars
  <1> DEFINE n == Len(availableHosts)
  <1>1. GuiTypes /\ WorkInv /\ CompleteInv
    BY UpdateParts
  <1>2. PICK k \in DOMAIN availableHosts :
          availableHosts[k] = h /\ allResults' = [allResults EXCEPT ![k] = batches[k]]
    BY DEF HostClassifies
  <1>3. /\ worker = "start" /\ thread[h] = "running" /\ thread' = [thread EXCEPT ![h] = "ended"]
        /\ UNCHANGED <<guiVars, handlerVars, inbox, worker, updateVars, serverVars, sharedVars>>
    BY DEF HostClassifies, ManagerInv, LockInv
  <1>4. GuiTypes' /\ CompleteInv'
    BY <1>1, <1>3, GuiUntouched
  <1>5. /\ thread' \in [Host -> {"none", "running", "ended"}]
        /\ thread'[h] = "ended"
        /\ \A g \in Host : g # h => thread'[g] = thread[g]
    BY <1>1, <1>3 DEF WorkInv, WorkTypes
  <1>6. k \in 1..n /\ DOMAIN batches = 1..n /\ DOMAIN allResults = 1..n
    BY <1>1, <1>3, StartFacts
  <1>7. /\ allResults' \in Seq(Seq(1..MaxImages)) /\ DOMAIN allResults' = 1..n
        /\ allResults'[k] = batches[k]
        /\ \A j \in 1..n : j # k => allResults'[j] = allResults[j]
    <2>1. batches[k] \in Seq(1..MaxImages) /\ k \in 1..Len(allResults)
          /\ allResults \in Seq(Seq(1..MaxImages))
      BY <1>1, <1>6, ElementOfSeq, LenProperties DEF WorkInv, WorkTypes
    <2>2. allResults' \in Seq(Seq(1..MaxImages))
      BY <1>2, <2>1, ExceptSeq
    <2>3. DOMAIN allResults' = DOMAIN allResults
      BY <1>2
    <2> QED BY <1>2, <1>6, <2>2, <2>3
  <1>8. WorkTypes'
    BY <1>1, <1>3, <1>5, <1>7 DEF WorkInv, WorkTypes
  <1>9. SharedTypes' /\ RequestInv' /\ MatchInv' /\ AvailableInv' /\ BlameInv'
    BY <1>1, <1>3 DEF WorkInv, SharedTypes, RequestInv, MatchInv, AvailableInv, BlameInv, guiVars
  <1>10. ThreadInv'
    BY <1>1, <1>3, <1>5 DEF WorkInv, ThreadInv
  <1>11. SelectionInv'
    BY <1>1, <1>3 DEF WorkInv, SelectionInv, Fitting, PlatformsOf, guiVars
  <1>12. BatchInv'
    <2>1. /\ batches \in Spread(request.images) /\ Len(batches) = n
          /\ index \in 1..(n + 1)
          /\ \A j \in DOMAIN batches :
               /\ j >= index => thread[availableHosts[j]] = "none"
               /\ thread[availableHosts[j]] = "none" => allResults[j] = <<>>
               /\ thread[availableHosts[j]] = "ended" =>
                    allResults[j] = batches[j] \/ availableHosts[j] \in failed
               /\ j < index /\ batches[j] # <<>> => thread[availableHosts[j]] # "none"
               /\ allResults[j] \in {<<>>, batches[j]}
      BY <1>1, <1>3 DEF WorkInv, BatchInv
    <2>2. ASSUME NEW j \in DOMAIN batches
          PROVE  /\ j >= index => thread'[availableHosts[j]] = "none"
                 /\ thread'[availableHosts[j]] = "none" => allResults'[j] = <<>>
                 /\ thread'[availableHosts[j]] = "ended" =>
                      allResults'[j] = batches[j] \/ availableHosts[j] \in failed
                 /\ j < index /\ batches[j] # <<>> => thread'[availableHosts[j]] # "none"
                 /\ allResults'[j] \in {<<>>, batches[j]}
      <3>1. j \in 1..n /\ availableHosts[j] \in Host
        BY <1>1, <1>3, StartFacts
      <3>2. CASE j = k
        BY <1>2, <1>3, <1>5, <1>7, <2>1, <3>2
      <3>3. CASE j # k
        <4>1. availableHosts[j] # h
          BY <1>1, <1>2, <1>3, <1>6, <3>1, <3>3, StartFacts
        <4>2. thread'[availableHosts[j]] = thread[availableHosts[j]]
              /\ allResults'[j] = allResults[j]
          BY <1>5, <1>7, <3>1, <3>3, <4>1
        <4> QED BY <2>1, <4>2
      <3> QED BY <3>2, <3>3
    <2>3. DOMAIN allResults' = DOMAIN batches
      BY <1>6, <1>7
    <2> QED BY <1>3, <2>1, <2>2, <2>3 DEF BatchInv, guiVars
  <1> QED BY <1>4, <1>8, <1>9, <1>10, <1>11, <1>12, UpdatePartsNext DEF WorkInv

(* A host fails: it is there, and it is the one that is blamed. *)
LEMMA HostThrowsUpdate ==
  ASSUME ManagerInv, UpdateInv, NEW h \in Host, NEW kind \in {"comm", "resource", "other"},
         HostThrows(h, kind)
  PROVE  UpdateInv'
  <1> USE DEF updateVars, serverVars
  <1> DEFINE n == Len(availableHosts)
  <1>1. GuiTypes /\ WorkInv /\ CompleteInv
    BY UpdateParts
  <1>2. /\ worker = "start" /\ thread[h] = "running" /\ thread' = [thread EXCEPT ![h] = "ended"]
        /\ exceptionptr' = Exception(kind, h) /\ failed' = failed \cup {h}
        /\ (kind = "comm" <=> h = "fpga")
        /\ UNCHANGED <<guiVars, handlerVars, inbox, worker, updateVars, allResults, serverVars,
                       computationHosts>>
    BY DEF HostThrows, ManagerInv, LockInv
  <1>3. GuiTypes' /\ CompleteInv'
    BY <1>1, <1>2, GuiUntouched
  <1>4. /\ thread' \in [Host -> {"none", "running", "ended"}]
        /\ thread'[h] = "ended"
        /\ \A g \in Host : g # h => thread'[g] = thread[g]
    BY <1>1, <1>2 DEF WorkInv, WorkTypes
  <1>5. WorkTypes'
    BY <1>1, <1>2, <1>4 DEF WorkInv, WorkTypes
  <1>6. SharedTypes'
    BY <1>1, <1>2 DEF WorkInv, SharedTypes, Exception, Exceptions
  <1>7. RequestInv' /\ MatchInv' /\ AvailableInv'
    BY <1>1, <1>2 DEF WorkInv, RequestInv, MatchInv, AvailableInv, guiVars
  <1>8. BlameInv'
    <2>1. CASE h = "fpga"
      <3>1. "fpga" \in ToSet(availableHosts)
        BY <1>1, <1>2, <2>1 DEF WorkInv, ThreadInv
      <3>2. computationHosts = <<"fpga", "local">>
        BY <1>1, <1>2, <3>1 DEF WorkInv, AvailableInv
      <3> QED BY <1>2, <2>1, <3>2 DEF BlameInv
    <2>2. CASE h = "local"
      <3>1. kind \in {"resource", "other"} /\ exceptionptr'.kind = kind
        BY <1>2, <2>2 DEF Exception
      <3> QED BY <1>2, <2>2, <3>1 DEF BlameInv
    <2> QED BY <2>1, <2>2 DEF Host
  <1>9. ThreadInv'
    BY <1>1, <1>2, <1>4 DEF WorkInv, ThreadInv
  <1>10. SelectionInv'
    BY <1>1, <1>2 DEF WorkInv, SelectionInv, Fitting, PlatformsOf, guiVars
  <1>11. BatchInv'
    <2>1. /\ batches \in Spread(request.images) /\ Len(batches) = n
          /\ index \in 1..(n + 1) /\ DOMAIN allResults = DOMAIN batches
          /\ \A j \in DOMAIN batches :
               /\ j >= index => thread[availableHosts[j]] = "none"
               /\ thread[availableHosts[j]] = "none" => allResults[j] = <<>>
               /\ thread[availableHosts[j]] = "ended" =>
                    allResults[j] = batches[j] \/ availableHosts[j] \in failed
               /\ j < index /\ batches[j] # <<>> => thread[availableHosts[j]] # "none"
               /\ allResults[j] \in {<<>>, batches[j]}
      BY <1>1, <1>2 DEF WorkInv, BatchInv
    <2>2. ASSUME NEW j \in DOMAIN batches
          PROVE  /\ j >= index => thread'[availableHosts[j]] = "none"
                 /\ thread'[availableHosts[j]] = "none" => allResults[j] = <<>>
                 /\ thread'[availableHosts[j]] = "ended" =>
                      allResults[j] = batches[j] \/ availableHosts[j] \in failed'
                 /\ j < index /\ batches[j] # <<>> => thread'[availableHosts[j]] # "none"
                 /\ allResults[j] \in {<<>>, batches[j]}
      <3>1. availableHosts[j] \in Host
        BY <1>1, <1>2, StartFacts
      <3>2. CASE availableHosts[j] = h
        BY <1>2, <1>4, <2>1, <3>2
      <3>3. CASE availableHosts[j] # h
        BY <1>2, <1>4, <2>1, <3>1, <3>3
      <3> QED BY <3>2, <3>3
    <2> QED BY <1>2, <2>1, <2>2 DEF BatchInv, guiVars
  <1> QED BY <1>3, <1>5, <1>6, <1>7, <1>8, <1>9, <1>10, <1>11, UpdatePartsNext DEF WorkInv


(* All threads have ended, none has failed: the results are the batches.   *)
LEMMA JoinThreadsUpdate ==
  ASSUME ManagerInv, UpdateInv, JoinThreads
  PROVE  UpdateInv'
  <1> USE DEF updateVars, resultVars, serverVars, sharedVars
  <1>1. GuiTypes /\ WorkInv /\ CompleteInv
    BY UpdateParts
  <1>2. /\ worker = "start" /\ index > Len(availableHosts) /\ worker' = "report"
        /\ \A h \in Host : thread[h] # "running"
        /\ UNCHANGED <<guiVars, handlerVars, inbox, updateVars, resultVars, serverVars, sharedVars>>
    BY DEF JoinThreads
  <1>3. GuiTypes'
    BY <1>1, <1>2 DEF GuiTypes, guiVars, handlerVars
  <1>4. exceptionptr = NoException => allResults \in Spread(request.images)
    <2> SUFFICES ASSUME exceptionptr = NoException PROVE allResults = batches
      BY <1>1, <1>2 DEF WorkInv, BatchInv
    <2>1. failed = {}
      BY <1>2 DEF ManagerInv, ExceptionInv
    <2>2. ASSUME NEW j \in 1..Len(availableHosts) PROVE allResults[j] = batches[j]
      <3>1. /\ thread[availableHosts[j]] = "ended" =>
                 allResults[j] = batches[j] \/ availableHosts[j] \in failed
            /\ j < index /\ batches[j] # <<>> => thread[availableHosts[j]] # "none"
            /\ allResults[j] \in {<<>>, batches[j]}
        BY <1>1, <1>2, StartFacts DEF WorkInv, BatchInv
      <3>2. j < index
        BY <1>1, <1>2, StartFacts DEF WorkInv, WorkTypes
      <3>3. thread[availableHosts[j]] \in {"none", "ended"}
        BY <1>1, <1>2, StartFacts DEF WorkInv, WorkTypes
      <3> QED BY <2>1, <3>1, <3>2, <3>3
    <2>3. /\ allResults \in Seq(Seq(1..MaxImages)) /\ batches \in Seq(Seq(1..MaxImages))
          /\ Len(allResults) = Len(availableHosts) /\ Len(batches) = Len(availableHosts)
      <3>1. Len(availableHosts) \in Nat
        BY <1>1, <1>2, StartFacts
      <3> QED BY <1>1, <1>2, <3>1, StartFacts, LenProperties DEF WorkInv, WorkTypes
    <2> QED BY <2>2, <2>3, SeqEqual
  <1>5. CompleteInv'
    BY <1>1, <1>2, <1>4 DEF CompleteInv, guiVars
  <1>6. WorkTypes' /\ SharedTypes'
    BY <1>1, <1>2 DEF WorkInv, WorkTypes, SharedTypes
  <1>7. RequestInv' /\ MatchInv' /\ AvailableInv' /\ BlameInv' /\ ThreadInv' /\ BatchInv'
        /\ SelectionInv'
    BY <1>1, <1>2 DEF WorkInv, RequestInv, MatchInv, AvailableInv, BlameInv, ThreadInv, BatchInv,
       SelectionInv, guiVars
  <1> QED BY <1>3, <1>5, <1>6, <1>7, UpdatePartsNext DEF WorkInv

(* What returning from update leaves of the invariant to prove. *)
LEMMA Returned ==
  ASSUME WorkInv, ReturnFromUpdate, worker' \in {"idle", "emit"}, SharedTypes',
         exceptionptr' = NoException, RequestInv'
  PROVE  WorkInv'
  <1>1. WorkTypes'
    <2>1. \A S : <<>> \in Seq(S)
      BY EmptySeq
    <2> QED BY <2>1 DEF ReturnFromUpdate, WorkTypes
  <1>2. MatchInv' /\ AvailableInv' /\ BlameInv' /\ BatchInv' /\ SelectionInv'
    BY DEF MatchInv, AvailableInv, BlameInv, BatchInv, SelectionInv
  <1>3. ThreadInv'
    BY DEF ReturnFromUpdate, ThreadInv
  <1> QED BY <1>1, <1>2, <1>3 DEF WorkInv

LEMMA ReturnResultUpdate ==
  ASSUME ManagerInv, UpdateInv, ReturnResult
  PROVE  UpdateInv'
  <1> USE DEF serverVars, sharedVars
  <1> DEFINE m == [ok |-> TRUE, images |-> FlattenSeq(allResults)]
             n == request.images
  <1>1. GuiTypes /\ WorkInv /\ CompleteInv
    BY UpdateParts
  <1>2. /\ worker = "report" /\ exceptionptr = NoException /\ worker' = "idle"
        /\ inbox' = Append(inbox, m) /\ ReturnFromUpdate
        /\ UNCHANGED <<guiVars, handlerVars, serverVars, sharedVars>>
    BY DEF ReturnResult
  <1>3. inbox = <<>> /\ page = "start"
    BY <1>2 DEF ManagerInv, LockInv, Active
  <1>4. n \in 1..MaxImages
    BY <1>1, <1>2, ManagerAssumption DEF GuiTypes, Request, WorkInv, RequestInv
  <1>5. m.ok = TRUE /\ m.images = Numbers(0, n)
    <2>1. allResults \in Spread(n) /\ n \in Nat
      BY <1>1, <1>2, <1>4, ManagerAssumption DEF CompleteInv
    <2> QED BY <2>1, SpreadIsComplete
  <1>6. m \in [ok : BOOLEAN, images : Seq(1..MaxImages)]
    <2>1. <<Numbers(0, n)>> \in Spread(n)
      BY DEF Spread
    <2>2. <<Numbers(0, n)>> \in Seq(Seq(1..MaxImages))
      BY <1>4, <2>1, SpreadTypes
    <2>3. Numbers(0, n) \in Seq(1..MaxImages)
      BY <2>2
    <2>4. FlattenSeq(allResults) \in Seq(1..MaxImages)
      BY <1>5, <2>3
    <2> QED BY <2>4
  <1> HIDE DEF m
  <1>7. inbox' = <<m>> /\ ToSet(inbox') = {m}
    BY <1>2, <1>3, OneSignal, SendFirst
  <1>8. GuiTypes'
    <2>1. inbox' \in Seq([ok : BOOLEAN, images : Seq(1..MaxImages)])
      BY <1>6, <1>7
    <2> QED BY <1>1, <1>2, <2>1 DEF GuiTypes, guiVars, handlerVars
  <1>9. CompleteInv'
    BY <1>2, <1>3, <1>5, <1>7 DEF CompleteInv, guiVars
  <1>10. WorkInv'
    <2>1. SharedTypes' /\ exceptionptr' = NoException
      BY <1>1, <1>2 DEF WorkInv, SharedTypes
    <2>2. RequestInv'
      BY <1>2 DEF RequestInv
    <2> QED BY <1>1, <1>2, <2>1, <2>2, Returned
  <1> QED BY <1>8, <1>9, <1>10, UpdatePartsNext

LEMMA PerformanceThrowsUpdate ==
  ASSUME UpdateInv, PerformanceThrows
  PROVE  UpdateInv'
  <1>1. GuiTypes /\ WorkInv /\ CompleteInv
    BY UpdateParts
  <1>2. GuiTypes'
    BY <1>1 DEF PerformanceThrows, GuiTypes, handlerVars
  <1>3. CompleteInv'
    BY <1>1 DEF PerformanceThrows, CompleteInv, resultVars, sharedVars
  <1>4. WorkInv'
    BY <1>1, WorkUntouched DEF PerformanceThrows
  <1> QED BY <1>2, <1>3, <1>4, UpdatePartsNext

(* After a CommunicationException both hosts are there and the remote one  *)
(* is taken out.                                                           *)
LEMMA FpgaErased ==
  ASSUME BlameInv, exceptionptr # NoException, exceptionptr.kind = "comm"
  PROVE  /\ computationHosts = <<"fpga", "local">> /\ "fpga" \in failed
         /\ WithoutFailedHost = <<"local">>
  <1>1. /\ exceptionptr = Exception("comm", "fpga") /\ "fpga" \in failed
        /\ computationHosts = <<"fpga", "local">>
    BY DEF BlameInv
  <1>2. exceptionptr.host = "fpga"
    BY <1>1 DEF Exception
  <1>3. DOMAIN computationHosts = {1, 2} /\ computationHosts[1] = "fpga"
        /\ computationHosts[2] = "local"
    BY <1>1
  <1>4. (CHOOSE j \in DOMAIN computationHosts : computationHosts[j] = "fpga") = 1
    BY <1>3
  <1>5. computationHosts \in Seq(Host) /\ Len(computationHosts) = 2
    BY <1>1, ListFacts
  <1>6. RemoveAt(computationHosts, 1) = <<"local">>
    BY <1>3, <1>5, EraseOne
  <1> QED BY <1>1, <1>2, <1>4, <1>6 DEF WithoutFailedHost

LEMMA ReportFailureUpdate ==
  ASSUME UpdateInv, ReportFailure
  PROVE  UpdateInv'
  <1> USE DEF serverVars
  <1>1. GuiTypes /\ WorkInv /\ CompleteInv
    BY UpdateParts
  <1>2. /\ worker = "report" /\ worker' = "emit" /\ exceptionptr # NoException
        /\ handlerException' = exceptionptr /\ exceptionptr' = NoException
        /\ ReturnFromUpdate /\ UNCHANGED <<guiVars, inbox, serverVars, failed>>
    BY DEF ReportFailure, HandlerTakesException, NullException
  <1>3. /\ computationHosts' \in {<<"local">>, <<"fpga", "local">>}
        /\ updatedPlatforms' \in Seq(SUBSET (LocalPlatforms \cup FpgaPlatforms))
    <2>1. CASE exceptionptr.kind = "comm"
      <3>1. computationHosts' = <<"local">>
        BY <1>1, <1>2, <2>1, FpgaErased DEF ReportFailure, WorkInv
      <3>2. AvailablePlatforms(computationHosts') \in SUBSET (LocalPlatforms \cup FpgaPlatforms)
        BY <1>1 DEF AvailablePlatforms, PlatformsOf, WorkInv, SharedTypes
      <3>3. updatedPlatforms' = <<AvailablePlatforms(computationHosts')>>
        BY <2>1 DEF ReportFailure
      <3> QED BY <3>1, <3>2, <3>3
    <2>2. CASE exceptionptr.kind # "comm"
      BY <1>1, <2>2 DEF ReportFailure, WorkInv, SharedTypes, GuiTypes
    <2> QED BY <2>1, <2>2
  <1>4. GuiTypes'
    BY <1>1, <1>2, <1>3 DEF GuiTypes, WorkInv, SharedTypes, guiVars
  <1>5. CompleteInv'
    BY <1>1, <1>2 DEF CompleteInv, guiVars
  <1>6. WorkInv'
    <2>1. SharedTypes'
      BY <1>1, <1>2, <1>3 DEF WorkInv, SharedTypes, NoException, Exception, Exceptions
    <2>2. RequestInv'
      BY <1>1, <1>2 DEF WorkInv, RequestInv, guiVars
    <2> QED BY <1>1, <1>2, <2>1, <2>2, Returned
  <1> QED BY <1>4, <1>5, <1>6, UpdatePartsNext

LEMMA EmitNullUpdate ==
  ASSUME ManagerInv, UpdateInv, EmitNull
  PROVE  UpdateInv'
  <1> USE DEF updateVars, resultVars, serverVars, sharedVars
  <1> DEFINE m == [ok |-> FALSE, images |-> <<>>]
  <1>1. GuiTypes /\ WorkInv /\ CompleteInv
    BY UpdateParts
  <1>2. /\ worker = "emit" /\ worker' = "idle" /\ inbox' = <<m>> /\ ToSet(inbox') = {m}
        /\ UNCHANGED <<guiVars, handlerVars, updateVars, resultVars, serverVars, sharedVars>>
    BY OneSignal, SendFirst DEF EmitNull, ManagerInv, LockInv
  <1>3. m \in [ok : BOOLEAN, images : Seq(1..MaxImages)] /\ ~ m.ok
    BY EmptySeq
  <1> HIDE DEF m
  <1>4. GuiTypes'
    <2>1. inbox' \in Seq([ok : BOOLEAN, images : Seq(1..MaxImages)])
      BY <1>2, <1>3
    <2> QED BY <1>1, <1>2, <2>1 DEF GuiTypes, guiVars, handlerVars
  <1>5. CompleteInv'
    BY <1>1, <1>2, <1>3 DEF CompleteInv, guiVars
  <1>6. WorkTypes' /\ SharedTypes'
    BY <1>1, <1>2 DEF WorkInv, WorkTypes, SharedTypes
  <1>7. RequestInv' /\ MatchInv' /\ AvailableInv' /\ BlameInv' /\ ThreadInv' /\ BatchInv'
        /\ SelectionInv'
    BY <1>1, <1>2 DEF WorkInv, RequestInv, MatchInv, AvailableInv, BlameInv, ThreadInv, BatchInv,
       SelectionInv
  <1> QED BY <1>4, <1>5, <1>6, <1>7, UpdatePartsNext DEF WorkInv

-----------------------------------------------------------------------------
(* Every step keeps the invariant. *)
LEMMA UpdateStep ==
  ASSUME ManagerInv, OfferInv, UpdateInv, [Next]_vars
  PROVE  UpdateInv'
  <1>1. CASE UNCHANGED vars
    <2>1. GuiTypes /\ WorkInv /\ CompleteInv
      BY UpdateParts
    <2>2. GuiTypes' /\ CompleteInv'
      BY <1>1, <2>1 DEF vars, guiVars, handlerVars, resultVars, sharedVars, GuiTypes, CompleteInv
    <2>3. WorkInv'
      BY <1>1, <2>1, WorkUntouched DEF vars, guiVars
    <2> QED BY <2>2, <2>3, UpdatePartsNext
  <1>2. CASE User \/ EventLoop \/ ServerChanges
    BY <1>2, UserUpdate, EventLoopUpdate, ServerUpdate
  <1>3. CASE Worker
    BY <1>3, BeginUpdateUpdate, MatchHostUpdate, MatchFailsUpdate, SelectHostsUpdate,
       PlaceImagesUpdate, PlacerThrowsUpdate, StartThreadUpdate, JoinThreadsUpdate,
       ReturnResultUpdate, PerformanceThrowsUpdate, ReportFailureUpdate, EmitNullUpdate
       DEF Worker
  <1>4. CASE \E h \in Host : HostThread(h)
    BY <1>4, HostClassifiesUpdate, HostThrowsUpdate DEF HostThread
  <1> QED BY <1>1, <1>2, <1>3, <1>4 DEF Next, Exited

LEMMA UpdateInvariance == Spec => [](ManagerInv /\ OfferInv /\ UpdateInv)
  <1>1. Init => ManagerInv /\ OfferInv /\ UpdateInv
    BY InitInv, OfferInit, UpdateInitially
  <1>2. ManagerInv /\ OfferInv /\ UpdateInv /\ [Next]_vars
          => (ManagerInv /\ OfferInv /\ UpdateInv)'
    BY NextInv, OfferStep, UpdateStep
  <1> QED BY <1>1, <1>2, PTL DEF Spec

(* The variables of the GUI thread, the worker and the hosts keep their    *)
(* types: no index, list or result leaves its range.                       *)
THEOREM TypeCorrect == Spec => []TypeOK
  <1>1. UpdateInv => TypeOK
    BY DEF UpdateInv
  <1> QED BY <1>1, UpdateInvariance, PTL

(* Manager.cpp:223-236, 345-351: whatever the distribution over the hosts  *)
(* and the order in which they finish, the page shows every image once and *)
(* in the order of the request.                                            *)
THEOREM AllImagesAreShown == Spec => []ResultIsComplete
  <1>1. UpdateInv => ResultIsComplete
    <2>1. Numbers(0, request.images) = [k \in 1..request.images |-> 0 + k]
      BY DEF Numbers
    <2>2. \A k \in 1..request.images : 0 + k = k
      OBVIOUS
    <2>3. Numbers(0, request.images) = [k \in 1..request.images |-> k]
      BY <2>1, <2>2
    <2> QED BY <2>3 DEF UpdateInv, CompleteInv, ResultIsComplete
  <1> QED BY <1>1, UpdateInvariance, PTL

(* Whatever the server does, what is kept for a host is selected and its   *)
(* own, and only the local host alone may be left without a platform.      *)
OwnInv ==
  /\ worker \in {"match", "select"} =>
       \A j \in DOMAIN hostPlatforms :
         hostPlatforms[j] \subseteq request.platforms \cap OwnPlatforms(computationHosts[j])
  /\ worker \in {"place", "start"} =>
       \A j \in DOMAIN availableHosts :
         /\ hostPlatforms[j] \subseteq request.platforms \cap OwnPlatforms(availableHosts[j])
         /\ hostPlatforms[j] = {} => availableHosts = <<"local">>

LEMMA OwnSelected ==
  ASSUME UpdateInv, OwnInv, SelectHosts
  PROVE  OwnInv'
  <1>1. SharedTypes /\ WorkTypes /\ MatchInv
    BY UpdateParts DEF WorkInv
  <1>2. worker \in {"match", "select"} /\ worker' = "place" /\ request' = request
        /\ availableHosts' = WithoutUnselected.hosts
        /\ hostPlatforms' = WithoutUnselected.platforms
    BY DEF SelectHosts, guiVars
  <1>3. hostPlatforms \in Seq(SUBSET (LocalPlatforms \cup FpgaPlatforms))
        /\ Len(hostPlatforms) = Len(computationHosts)
    BY <1>1, <1>2 DEF WorkTypes, MatchInv
  <1>4. \A j \in 1..Len(computationHosts) :
          hostPlatforms[j] \subseteq request.platforms \cap OwnPlatforms(computationHosts[j])
    BY <1>2, <1>3 DEF OwnInv
  <1> DEFINE own(hosts, platforms) == \A j \in DOMAIN hosts :
               /\ platforms[j] \subseteq request.platforms \cap OwnPlatforms(hosts[j])
               /\ platforms[j] = {} => hosts = <<"local">>
  <1>5. own(WithoutUnselected.hosts, WithoutUnselected.platforms)
    <2>1. CASE computationHosts = <<"local">>
      <3>1. Len(computationHosts) = 1 /\ computationHosts[1] = "local" /\ DOMAIN computationHosts = {1}
        BY <2>1, ListFacts
      <3>2. CASE hostPlatforms[1] = {}
        <4>1. WithoutUnselected = [hosts |-> <<>>, platforms |-> <<>>]
          BY <1>3, <2>1, <3>1, <3>2, SelectedOfOne
        <4> QED BY <4>1
      <3>3. CASE hostPlatforms[1] # {}
        <4>1. WithoutUnselected = [hosts |-> computationHosts, platforms |-> hostPlatforms]
          BY <1>3, <2>1, <3>1, <3>3, SelectedOfOne
        <4> QED BY <1>4, <3>1, <3>3, <4>1
      <3> QED BY <3>2, <3>3
    <2>2. CASE computationHosts = <<"fpga", "local">>
      <3>1. /\ Len(computationHosts) = 2 /\ DOMAIN computationHosts = {1, 2}
            /\ computationHosts[1] = "fpga" /\ computationHosts[2] = "local"
        BY <2>2, ListFacts
      <3>2. /\ hostPlatforms[1] \subseteq request.platforms \cap OwnPlatforms("fpga")
            /\ hostPlatforms[2] \subseteq request.platforms \cap OwnPlatforms("local")
        BY <1>4, <3>1
      <3>3. CASE hostPlatforms[1] = {}
        <4>1. WithoutUnselected = [hosts |-> <<"local">>, platforms |-> <<hostPlatforms[2]>>]
          BY <1>3, <2>2, <3>1, <3>3, SelectedOfTwo
        <4>2. DOMAIN <<"local">> = {1} /\ <<"local">>[1] = "local"
              /\ <<hostPlatforms[2]>>[1] = hostPlatforms[2]
          OBVIOUS
        <4> QED BY <3>2, <4>1, <4>2
      <3>4. CASE hostPlatforms[1] # {} /\ hostPlatforms[2] = {}
        <4>1. WithoutUnselected = [hosts |-> <<"fpga">>, platforms |-> <<hostPlatforms[1]>>]
          BY <1>3, <2>2, <3>1, <3>4, SelectedOfTwo
        <4>2. DOMAIN <<"fpga">> = {1} /\ <<"fpga">>[1] = "fpga"
              /\ <<hostPlatforms[1]>>[1] = hostPlatforms[1]
          OBVIOUS
        <4> QED BY <3>2, <3>4, <4>1, <4>2
      <3>5. CASE hostPlatforms[1] # {} /\ hostPlatforms[2] # {}
        <4>1. WithoutUnselected = [hosts |-> computationHosts, platforms |-> hostPlatforms]
          BY <1>3, <2>2, <3>1, <3>5, SelectedOfTwo
        <4> QED BY <1>4, <3>1, <3>5, <4>1
      <3> QED BY <3>3, <3>4, <3>5
    <2> QED BY <1>1, <2>1, <2>2 DEF SharedTypes
  <1> QED BY <1>2, <1>5 DEF OwnInv

LEMMA OwnStep == ManagerInv /\ UpdateInv /\ OwnInv /\ [Next]_vars => OwnInv'
  <1> SUFFICES ASSUME ManagerInv, UpdateInv, OwnInv, [Next]_vars PROVE OwnInv'
    OBVIOUS
  <1> USE DEF updateVars, resultVars, serverVars, sharedVars
  <1>1. SharedTypes /\ WorkTypes /\ MatchInv
    BY UpdateParts DEF WorkInv
  <1>2. ASSUME UNCHANGED <<worker, hostPlatforms, availableHosts, computationHosts>>,
               request' = request \/ worker = "idle"
        PROVE  OwnInv'
    BY <1>2 DEF OwnInv
  <1>3. ASSUME worker' \in {"idle", "update", "report", "emit"} PROVE OwnInv'
    BY <1>3 DEF OwnInv
  <1>4. CASE User
    <2>1. ASSUME NEW selected, NEW n, StartClassification(selected, n) PROVE OwnInv'
      BY <1>3, <2>1 DEF StartClassification
    <2>2. CASE RefuseSelection
      <3>1. worker = "idle"
        BY <2>2 DEF RefuseSelection, ManagerInv, LockInv, Active
      <3> QED BY <1>2, <2>2, <3>1 DEF RefuseSelection
    <2>3. CASE ReturnToStart
      BY <1>2, <2>3 DEF ReturnToStart
    <2>4. CASE CloseDialog
      BY <1>2, <2>4 DEF CloseDialog
    <2>5. CASE CloseWindow
      BY <1>2, <2>5 DEF CloseWindow
    <2> QED BY <1>4, <2>1, <2>2, <2>3, <2>4, <2>5 DEF User
  <1>5. CASE EventLoop
    <2>1. DisplayProgress => request' = request
      BY DEF DisplayProgress
    <2>2. CASE DisplayProgress
      BY <1>2, <2>1, <2>2 DEF DisplayProgress
    <2>3. CASE DisplayResult \/ DisplayFailure \/ UpdatePlatformsCrashes
      BY <1>2, <2>3 DEF DisplayResult, DisplayFailure, UpdatePlatformsCrashes
    <2> QED BY <1>5, <2>2, <2>3 DEF EventLoop
  <1>6. CASE BeginUpdate
    BY <1>6 DEF BeginUpdate, OwnInv
  <1>7. CASE MatchHost
    <2>1. PlatformsOf(computationHosts[index]) \subseteq OwnPlatforms(computationHosts[index])
      BY <1>1 DEF SharedTypes, PlatformsOf, OwnPlatforms
    <2>2. /\ worker = "match" /\ worker' = "match" /\ request' = request
          /\ UNCHANGED computationHosts
          /\ hostPlatforms' = [hostPlatforms EXCEPT ![index] =
                                 PlatformsOf(computationHosts[index]) \cap request.platforms]
      BY <1>7 DEF MatchHost, guiVars
    <2> QED BY <2>1, <2>2 DEF OwnInv
  <1>8. CASE MatchFails
    BY <1>8 DEF MatchFails, OwnInv, guiVars
  <1>9. CASE SelectHosts
    BY <1>9, OwnSelected
  <1>10. ASSUME NEW d \in Assignments(DOMAIN availableHosts, request.images), PlaceImages(d)
         PROVE  OwnInv'
    BY <1>10 DEF PlaceImages, OwnInv, guiVars
  <1>11. CASE PlacerThrows \/ JoinThreads \/ ReturnResult \/ ReportFailure \/ EmitNull
    BY <1>3, <1>11 DEF PlacerThrows, JoinThreads, ReturnResult, ReportFailure, EmitNull
  <1>12. CASE StartThread \/ PerformanceThrows
    BY <1>2, <1>12 DEF StartThread, PerformanceThrows, guiVars
  <1>13. CASE \E h \in Host : HostThread(h)
    BY <1>2, <1>13 DEF HostThread, HostClassifies, HostThrows, guiVars
  <1>14. CASE ServerChanges \/ Exited \/ UNCHANGED vars
    BY <1>2, <1>14 DEF ServerChanges, Exited, vars, guiVars
  <1> QED BY <1>4, <1>5, <1>6, <1>7, <1>8, <1>9, <1>10, <1>11, <1>12, <1>13, <1>14
          DEF Next, Worker

(* Manager.cpp:185-210: although the loop that erases hosts skips one, no  *)
(* host works on a platform that was not selected or is not its own,       *)
(* whatever the server does; a host without a platform is the local one,   *)
(* left alone after the server has changed.                                *)
THEOREM SelectionIsObeyed == Spec => []HostsUseSelectedPlatforms
  <1>1. Init => OwnInv
    BY DEF Init, OwnInv
  <1>2. UpdateInv /\ OwnInv => HostsUseSelectedPlatforms
    BY DEF UpdateInv, SelectionInv, Fitting, OwnInv, HostsUseSelectedPlatforms
  <1> QED BY <1>1, <1>2, OwnStep, UpdateInvariance, PTL DEF Spec

(* Manager.cpp:279-286: no host is erased for the failure of another one.  *)
THEOREM OnlyFailuresErase == Spec => OnlyFailedHostsErased
  <1> DEFINE erased == /\ \A h \in ToSet(computationHosts) \ ToSet(computationHosts') : h \in failed
                       /\ (worker = "report" /\ worker' = "emit" /\ failed = {"fpga"})
                            => "fpga" \notin ToSet(computationHosts')
  <1>1. UpdateInv /\ [Next]_vars => [erased]_vars
    <2> SUFFICES ASSUME UpdateInv, Next PROVE erased
      BY DEF vars
    <2> USE DEF sharedVars
    <2>1. CASE ReportFailure
      <3>1. BlameInv /\ exceptionptr # NoException
        BY <2>1 DEF UpdateInv, ReportFailure
      <3>2. CASE exceptionptr.kind = "comm"
        <4>1. ToSet(computationHosts) = {"fpga", "local"} /\ "fpga" \in failed
              /\ ToSet(computationHosts') = {"local"}
          BY <2>1, <3>1, <3>2, FpgaErased, ListFacts DEF ReportFailure
        <4> QED BY <4>1
      <3>3. CASE exceptionptr.kind # "comm"
        <4>1. computationHosts' = computationHosts
          BY <2>1, <3>3 DEF ReportFailure
        <4>2. failed \cap {"local", "placer"} # {}
          BY <3>1, <3>3 DEF BlameInv, Exception
        <4> QED BY <4>1, <4>2
      <3> QED BY <3>2, <3>3
    <2>2. ASSUME computationHosts' = computationHosts, ~ (worker = "report" /\ worker' = "emit")
          PROVE  erased
      BY <2>2
    <2>3. CASE User \/ EventLoop \/ ServerChanges \/ (\E h \in Host : HostThread(h)) \/ Exited
      BY <2>2, <2>3 DEF User, EventLoop, HostThread, StartClassification, RefuseSelection,
         ReturnToStart, CloseDialog, CloseWindow, DisplayProgress, DisplayResult, DisplayFailure,
         UpdatePlatformsCrashes, ServerChanges, HostClassifies, HostThrows, Exited, vars
    <2>4. CASE BeginUpdate \/ MatchHost \/ MatchFails \/ SelectHosts \/ PlacerThrows
               \/ StartThread \/ JoinThreads \/ ReturnResult \/ PerformanceThrows \/ EmitNull
               \/ \E d \in Assignments(DOMAIN availableHosts, request.images) : PlaceImages(d)
      BY <2>2, <2>4 DEF BeginUpdate, MatchHost, MatchFails, SelectHosts, PlacerThrows,
         StartThread, JoinThreads, ReturnResult, PerformanceThrows, EmitNull, PlaceImages
    <2> QED BY <2>1, <2>3, <2>4 DEF Next, Worker
  <1> QED BY <1>1, UpdateInvariance, PTL DEF Spec, OnlyFailedHostsErased

-----------------------------------------------------------------------------
(* The refinement of Classification.  What an observer of the service sees *)
(* of the worker thread w, the queue box and the handler's exception he.   *)
OnItsWay(w, box) == w = "emit" \/ \E m \in ToSet(box) : ~ m.ok
AnswerOf(w, box, he) ==
  IF OnItsWay(w, box) THEN he.kind
  ELSE IF w # "idle" THEN "pending" ELSE IF box # <<>> THEN "ok" ELSE "none"
FinalOf(w, box, he) == he.kind = "resource" /\ ~ OnItsWay(w, box)

Answer == AnswerOf(worker, inbox, handlerException)
Final == FinalOf(worker, inbox, handlerException)
Asked == [n \in 1..request.images |-> n]
Observed == <<page, Asked, Answer, computationHosts, shown, Final>>

LEMMA AnswerValues ==
  ASSUME NEW w, NEW he
  PROVE  /\ ~ OnItsWay("idle", <<>>) /\ AnswerOf("idle", <<>>, he) = "none"
         /\ w \notin {"idle", "emit"} => ~ OnItsWay(w, <<>>) /\ AnswerOf(w, <<>>, he) = "pending"
         /\ \A box : OnItsWay("emit", box) /\ AnswerOf("emit", box, he) = he.kind
         /\ \A m : m.ok => ~ OnItsWay("idle", <<m>>) /\ AnswerOf("idle", <<m>>, he) = "ok"
         /\ \A m : ~ m.ok => OnItsWay("idle", <<m>>) /\ AnswerOf("idle", <<m>>, he) = he.kind
  <1>1. \A m : ToSet(<<m>>) = {m} /\ <<m>> # <<>>
    BY OneSignal, TakeOnly
  <1> QED BY <1>1, NoSignal DEF OnItsWay, AnswerOf

LEMMA NothingAsked ==
  ASSUME NEW n, n = 0 PROVE [k \in 1..n |-> k] = <<>>
  <1>1. 1..n = {}
    OBVIOUS
  <1> QED BY <1>1

(* The handler keeps an exception, or the one that stands for none.        *)
KindInv == handlerException = NoException \/ handlerException.kind \in {"comm", "resource", "other"}

LEMMA KindStep == UpdateInv /\ KindInv /\ [Next]_vars => KindInv'
  <1> SUFFICES ASSUME UpdateInv, KindInv, [Next]_vars PROVE KindInv'
    OBVIOUS
  <1> USE DEF handlerVars
  <1>1. ASSUME handlerException' = handlerException PROVE KindInv'
    BY <1>1 DEF KindInv
  <1>2. CASE DisplayFailure
    BY <1>2 DEF DisplayFailure, KindInv
  <1>3. CASE ReportFailure
    <2>1. handlerException' = exceptionptr /\ exceptionptr # NoException /\ BlameInv
      BY <1>3 DEF ReportFailure, HandlerTakesException, UpdateInv
    <2>2. exceptionptr.kind \in {"comm", "resource", "other"}
      BY <2>1 DEF BlameInv, Exception
    <2> QED BY <2>1, <2>2 DEF KindInv
  <1>4. CASE User \/ ServerChanges \/ Exited \/ UNCHANGED vars
    BY <1>1, <1>4 DEF User, StartClassification, RefuseSelection, ReturnToStart, CloseDialog,
       CloseWindow, ServerChanges, Exited, vars
  <1>5. CASE DisplayProgress \/ DisplayResult \/ UpdatePlatformsCrashes
             \/ \E h \in Host : HostThread(h)
    BY <1>1, <1>5 DEF DisplayProgress, DisplayResult, UpdatePlatformsCrashes, HostThread,
       HostClassifies, HostThrows
  <1>6. CASE BeginUpdate \/ MatchHost \/ MatchFails \/ SelectHosts \/ PlacerThrows
             \/ StartThread \/ JoinThreads \/ ReturnResult \/ PerformanceThrows \/ EmitNull
             \/ \E d \in Assignments(DOMAIN availableHosts, request.images) : PlaceImages(d)
    BY <1>1, <1>6 DEF BeginUpdate, MatchHost, MatchFails, SelectHosts, PlacerThrows, StartThread,
       JoinThreads, ReturnResult, PerformanceThrows, EmitNull, PlaceImages
  <1> QED BY <1>2, <1>3, <1>4, <1>5, <1>6 DEF Next, EventLoop, Worker

LEMMA KindInvariance == Spec => [](ManagerInv /\ UpdateInv /\ KindInv)
  <1>1. Init => KindInv
    BY DEF Init, KindInv
  <1> QED BY <1>1, KindStep, UpdateInvariance, PTL DEF Spec

(* When the user has a choice on the start page nothing is under way and   *)
(* HICS need not be closed.                                                *)
LEMMA Choosing ==
  ASSUME ManagerInv, gui = "loop", page = "start", ~ busy
  PROVE  worker = "idle" /\ inbox = <<>> /\ Answer = "none" /\ ~ Final
  <1>1. worker = "idle" /\ inbox = <<>>
    BY DEF ManagerInv, LockInv, Active
  <1>2. handlerException.kind # "resource"
    BY <1>1, NoSignal DEF ManagerInv, FinalInv, FailureOnItsWay
  <1> QED BY <1>1, <1>2, AnswerValues DEF Answer, Final, FinalOf

LEMMA UserServes ==
  ASSUME ManagerInv, UpdateInv, User
  PROVE  Service!Next \/ UNCHANGED Observed
  <1> USE DEF guiVars, handlerVars, sharedVars
  <1>1. ASSUME NEW selected \in SUBSET offered, NEW n \in 1..MaxImages,
               StartClassification(selected, n)
        PROVE  Service!Ask
    <2>1. /\ page = "start" /\ worker = "idle" /\ inbox = <<>> /\ Answer = "none" /\ ~ Final
      BY <1>1, Choosing DEF StartClassification
    <2>2. /\ request'.images = n /\ worker' = "update" /\ inbox' = <<>>
          /\ UNCHANGED <<page, computationHosts, shown, handlerException>>
      BY <1>1, <2>1 DEF StartClassification
    <2>3. Answer' = "pending" /\ ~ Final'
      <3>1. handlerException.kind # "resource"
        BY <2>1, AnswerValues DEF Final, FinalOf
      <3> QED BY <2>2, <3>1, AnswerValues DEF Answer, Final, FinalOf
    <2>4. Asked' = [k \in 1..n |-> k]
      BY <2>2 DEF Asked
    <2> DEFINE s == [k \in 1..n |-> k]
    <2>5. n \in Nat /\ n > 0 /\ 1..n \subseteq 1..MaxImages
      BY ManagerAssumption
    <2>6. s \in Seq(1..MaxImages) /\ s # <<>>
      <3>1. s \in [1..n -> 1..MaxImages] /\ 1 \in DOMAIN s
        BY <2>5
      <3> QED BY <2>5, <3>1
    <2>7. \A a, b \in DOMAIN s : s[a] = s[b] => a = b
      OBVIOUS
    <2> HIDE DEF s
    <2>8. Asked' = s
      BY <2>4 DEF s
    <2> QED BY <2>1, <2>2, <2>3, <2>6, <2>7, <2>8
        DEF Service!Ask, Service!MayAsk, Service!IsInjective, Asked, Answer, Final, AnswerOf,
            FinalOf, OnItsWay, FailureOnItsWay
  <1>2. CASE RefuseSelection
    <2>1. /\ page = "start" /\ Answer = "none" /\ ~ Final
      BY <1>2, Choosing DEF RefuseSelection
    <2>2. /\ request'.images = 0
          /\ UNCHANGED <<page, computationHosts, shown, handlerException, worker, inbox>>
      BY <1>2 DEF RefuseSelection, NoRequest
    <2>3. Answer' = Answer /\ Final' = Final
      BY <2>2 DEF Answer, Final
    <2>4. Asked' = <<>>
      BY <2>2, NothingAsked DEF Asked
    <2>5. Service!Refuse
      BY <2>1, <2>2, <2>3, <2>4
         DEF Service!Refuse, Service!MayAsk, Asked, Answer, Final, AnswerOf, FinalOf, OnItsWay,
             FailureOnItsWay
    <2> QED BY <2>5 DEF Service!Next
  <1>3. CASE ReturnToStart
    <2>1. /\ page = "result" /\ page' = "start" /\ shown' = <<>>
          /\ UNCHANGED <<request, computationHosts, handlerException, worker, inbox>>
      BY <1>3 DEF ReturnToStart
    <2>2. Answer' = Answer /\ Final' = Final /\ Asked' = Asked
      BY <2>1 DEF Answer, Final, Asked
    <2>3. Service!Return
      BY <2>1, <2>2 DEF Service!Return, Asked, Answer, Final, AnswerOf, FinalOf, OnItsWay,
                        FailureOnItsWay
    <2> QED BY <2>3 DEF Service!Next
  <1>4. CASE CloseDialog \/ CloseWindow
    BY <1>4 DEF CloseDialog, CloseWindow, Observed, Answer, Final, Asked
  <1> QED BY <1>1, <1>2, <1>3, <1>4 DEF User, Service!Next

LEMMA EventLoopServes ==
  ASSUME ManagerInv, UpdateInv, KindInv, EventLoop
  PROVE  Service!Next \/ UNCHANGED Observed
  <1> USE DEF guiVars, handlerVars, sharedVars
  <1>1. CASE DisplayProgress \/ UpdatePlatformsCrashes
    BY <1>1 DEF DisplayProgress, UpdatePlatformsCrashes, Observed, Answer, Final, Asked
  <1>2. ASSUME inbox # <<>>
        PROVE  worker = "idle" /\ inbox = <<inbox[1]>> /\ Head(inbox) = inbox[1]
               /\ Tail(inbox) = <<>> /\ inbox[1] \in ToSet(inbox)
    <2>1. worker = "idle" /\ inbox = <<inbox[1]>>
      BY <1>2 DEF ManagerInv, LockInv
    <2> QED BY <2>1, OneSignal, TakeOnly
  <1>3. CASE DisplayResult
    <2> DEFINE m == inbox[1]
    <2>1. /\ inbox = <<m>> /\ m \in ToSet(inbox) /\ m.ok /\ worker = "idle"
          /\ page' = "result" /\ shown' = m.images /\ inbox' = <<>>
          /\ UNCHANGED <<request, handlerException, worker, computationHosts>>
      BY <1>2, <1>3 DEF DisplayResult
    <2> HIDE DEF m
    <2>2. Answer = "ok" /\ Final = (handlerException.kind = "resource")
          /\ Answer' = "none" /\ Final' = (handlerException.kind = "resource") /\ Asked' = Asked
      BY <2>1, AnswerValues DEF Answer, Final, FinalOf, Asked
    <2>3. m.images = Asked
      <3>1. m.images = Numbers(0, request.images)
        BY <2>1 DEF UpdateInv, CompleteInv
      <3>2. \A k \in 1..request.images : 0 + k = k
        OBVIOUS
      <3> QED BY <3>1, <3>2 DEF Numbers, Asked
    <2>4. Service!Show
      BY <2>1, <2>2, <2>3 DEF Service!Show, Asked, Answer, Final, AnswerOf, FinalOf, OnItsWay,
                              FailureOnItsWay
    <2> QED BY <2>4 DEF Service!Next
  <1>4. CASE DisplayFailure
    <2> DEFINE m == inbox[1]
    <2>1. /\ inbox = <<m>> /\ m \in ToSet(inbox) /\ ~ m.ok /\ worker = "idle" /\ inbox' = <<>>
          /\ handlerException' = IF handlerException.kind = "resource"
                                   THEN handlerException ELSE NoException
          /\ UNCHANGED <<page, shown, request, worker, computationHosts>>
      BY <1>2, <1>4 DEF DisplayFailure
    <2> HIDE DEF m
    <2>2. Answer = handlerException.kind /\ Final = FALSE /\ Answer' = "none"
          /\ Final' = (handlerException'.kind = "resource") /\ Asked' = Asked
      BY <2>1, AnswerValues DEF Answer, Final, FinalOf, Asked
    <2>3. handlerException.kind \in {"comm", "resource", "other"}
      BY <2>1 DEF KindInv, ManagerInv, ExceptionInv, FailureOnItsWay
    <2>4. (handlerException'.kind = "resource") = (handlerException.kind = "resource")
      BY <2>1, Thrown
    <2>5. Service!Report
      BY <2>1, <2>2, <2>3, <2>4 DEF Service!Report, Asked, Answer, Final, AnswerOf, FinalOf,
                                    OnItsWay, FailureOnItsWay
    <2> QED BY <2>5 DEF Service!Next
  <1> QED BY <1>1, <1>3, <1>4 DEF EventLoop

(* Between its first step and its last the worker shows nothing.           *)
LEMMA WorkerHides ==
  ASSUME ManagerInv, worker \notin {"idle", "emit"}, worker' \notin {"idle", "emit"},
         UNCHANGED <<page, request, handlerException, computationHosts, shown, inbox>>
  PROVE  UNCHANGED Observed
  <1>1. inbox = <<>> /\ inbox' = <<>>
    BY DEF ManagerInv, LockInv
  <1>2. Answer' = Answer /\ Final' = Final
    BY <1>1, AnswerValues DEF Answer, Final, FinalOf
  <1> QED BY <1>2 DEF Observed, Asked

LEMMA WorkerServes ==
  ASSUME ManagerInv, UpdateInv, KindInv, Worker
  PROVE  Service!Next \/ UNCHANGED Observed
  <1> USE DEF guiVars, handlerVars, sharedVars
  <1>1. CASE BeginUpdate \/ MatchHost \/ MatchFails \/ SelectHosts \/ PlacerThrows
             \/ StartThread \/ JoinThreads
             \/ \E d \in Assignments(DOMAIN availableHosts, request.images) : PlaceImages(d)
    <2>1. /\ worker \notin {"idle", "emit"} /\ worker' \notin {"idle", "emit"}
          /\ UNCHANGED <<page, request, handlerException, computationHosts, shown, inbox>>
      BY <1>1 DEF BeginUpdate, MatchHost, MatchFails, SelectHosts, PlacerThrows, StartThread,
                  JoinThreads, PlaceImages
    <2> QED BY <2>1, WorkerHides
  <1>2. CASE PerformanceThrows
    BY <1>2 DEF PerformanceThrows, Observed, Answer, Final, Asked
  <1>3. CASE ReturnResult
    <2> DEFINE m == [ok |-> TRUE, images |-> FlattenSeq(allResults)]
    <2>1. /\ worker = "report" /\ worker' = "idle" /\ inbox = <<>> /\ inbox' = <<m>> /\ m.ok
          /\ UNCHANGED <<page, request, handlerException, computationHosts, shown>>
      BY <1>3, SendFirst DEF ReturnResult, ManagerInv, LockInv
    <2> HIDE DEF m
    <2>2. Answer = "pending" /\ Answer' = "ok" /\ Final' = Final /\ Asked' = Asked
      BY <2>1, AnswerValues DEF Answer, Final, FinalOf, Asked
    <2>3. Service!Succeed
      BY <2>1, <2>2 DEF Service!Succeed, Asked, Answer, Final, AnswerOf, FinalOf, OnItsWay,
                        FailureOnItsWay
    <2> QED BY <2>3 DEF Service!Next
  <1>4. CASE ReportFailure
    <2>1. /\ worker = "report" /\ worker' = "emit" /\ inbox = <<>> /\ inbox' = <<>>
          /\ handlerException' = exceptionptr /\ exceptionptr # NoException
          /\ computationHosts' = IF exceptionptr.kind = "comm" THEN WithoutFailedHost
                                                               ELSE computationHosts
          /\ UNCHANGED <<page, request, shown>>
      BY <1>4 DEF ReportFailure, HandlerTakesException, ManagerInv, LockInv
    <2> DEFINE failure == exceptionptr.kind
    <2>2. failure \in {"comm", "resource", "other"}
      BY <2>1 DEF UpdateInv, BlameInv, Exception
    <2>3. failure = "comm" => computationHosts = <<"fpga", "local">> /\ WithoutFailedHost = <<"local">>
      BY <2>1, FpgaErased DEF UpdateInv
    <2>4. Answer = "pending" /\ Answer' = failure /\ Asked' = Asked
      BY <2>1, AnswerValues DEF Answer, Asked
    <2>5. ~ Final /\ ~ Final'
      <3>1. handlerException.kind # "resource"
        BY <2>1, NoSignal DEF ManagerInv, FinalInv, FailureOnItsWay, Active
      <3>2. Final' = (handlerException'.kind = "resource" /\ ~ OnItsWay(worker', inbox'))
        BY DEF Final, FinalOf
      <3> QED BY <2>1, <3>1, <3>2, AnswerValues DEF Final, FinalOf
    <2> HIDE DEF failure
    <2>6. Service!Fail(failure)
      <3>1. computationHosts' = IF failure = "comm" THEN <<"local">> ELSE computationHosts
        BY <2>1, <2>3 DEF failure
      <3> QED BY <2>1, <2>3, <2>4, <2>5, <3>1
          DEF Service!Fail, Asked, Answer, Final, AnswerOf, FinalOf, OnItsWay, FailureOnItsWay
    <2> QED BY <2>2, <2>6 DEF Service!Next
  <1>5. CASE EmitNull
    <2> DEFINE m == [ok |-> FALSE, images |-> <<>>]
    <2>1. /\ worker = "emit" /\ worker' = "idle" /\ inbox = <<>> /\ inbox' = <<m>> /\ ~ m.ok
          /\ UNCHANGED <<page, request, handlerException, computationHosts, shown>>
      BY <1>5, SendFirst DEF EmitNull, ManagerInv, LockInv
    <2> HIDE DEF m
    <2>2. Answer' = Answer /\ Final' = Final /\ Asked' = Asked
      BY <2>1, AnswerValues DEF Answer, Final, FinalOf, Asked
    <2> QED BY <2>1, <2>2 DEF Observed
  <1> QED BY <1>1, <1>2, <1>3, <1>4, <1>5 DEF Worker

LEMMA OthersServe ==
  ASSUME ManagerInv, ServerChanges \/ Exited \/ UNCHANGED vars \/ \E h \in Host : HostThread(h)
  PROVE  UNCHANGED Observed
  <1> USE DEF guiVars, handlerVars, sharedVars
  <1>1. CASE \E h \in Host : HostThread(h)
    <2>1. /\ worker' = worker
          /\ UNCHANGED <<page, request, handlerException, computationHosts, shown, inbox>>
      BY <1>1 DEF HostThread, HostClassifies, HostThrows
    <2> QED BY <2>1 DEF Observed, Answer, Final, Asked
  <1>2. CASE ServerChanges \/ Exited \/ UNCHANGED vars
    BY <1>2 DEF ServerChanges, Exited, vars, Observed, Answer, Final, Asked
  <1> QED BY <1>1, <1>2

(* Manager, MainWindowHandler and their threads are one service that takes *)
(* one request at a time and gives it one answer.                          *)
THEOREM ServesOneRequestAtATime == Spec => ImplementsClassification
  <1>1. Init => Service!Init
    <2> SUFFICES ASSUME Init PROVE Service!Init
      OBVIOUS
    <2>1. Answer = "none" /\ ~ Final
      BY AnswerValues, Thrown DEF Init, Answer, Final, FinalOf
    <2>2. Asked = <<>>
      BY NothingAsked DEF Init, NoRequest, Asked
    <2> QED BY <2>1, <2>2 DEF Service!Init, Init, Asked, Answer, Final, AnswerOf, FinalOf, OnItsWay,
                              FailureOnItsWay
  <1>2. ManagerInv /\ UpdateInv /\ KindInv /\ [Next]_vars => [Service!Next]_(Service!serviceVars)
    <2> SUFFICES ASSUME ManagerInv, UpdateInv, KindInv, [Next]_vars
                 PROVE  Service!Next \/ UNCHANGED Service!serviceVars
      OBVIOUS
    <2>1. Service!Next \/ UNCHANGED Observed
      BY UserServes, EventLoopServes, WorkerServes, OthersServe DEF Next
    <2>2. UNCHANGED Observed => UNCHANGED Service!serviceVars
      BY DEF Service!serviceVars, Observed, Asked, Answer, Final, AnswerOf, FinalOf, OnItsWay,
             FailureOnItsWay
    <2> QED BY <2>1, <2>2
  <1> QED BY <1>1, <1>2, KindInvariance, PTL DEF Spec, ImplementsClassification, Service!Spec
=============================================================================
