------------------------------- MODULE Startup -------------------------------
(***************************************************************************)
(* How the manager comes up (Manager::Manager and Manager::initGUI,        *)
(* src/src/manager/Manager.cpp): it connects to the computation server,    *)
(* creates the local executor, asks every host for its nets and platforms, *)
(* and opens the window with the nets that all hosts have.                 *)
(*                                                                         *)
(* The server can disappear between any two calls.  Two loops erase from   *)
(* the vector they run over.  Each keeps the end it had at the start, so   *)
(* after an erasure it skips one element and reads, at the end, a slot     *)
(* behind the vector, which still holds the last element.  Erasing the     *)
(* end itself has no result: the location "undefined".                     *)
(***************************************************************************)
EXTENDS Naturals, Sequences, SequencesExt

CONSTANTS
  NetLists,         (* the lists of nets that a models directory can hold    *)
  ServerHasAddress, (* does computationHosts.json name the server?           *)
  ServerMayVanish   (* can the server go down while the manager starts?      *)

ASSUME StartupAssumption ==
  /\ \A list \in NetLists : list \in Seq(ToSet(list)) /\ IsInjective(list)
  /\ ServerHasAddress \in BOOLEAN
  /\ ServerMayVanish \in BOOLEAN

VARIABLES
  pc,               (* where the main thread is                              *)
  serverUp,         (* does the server answer?                               *)
  netsOf,           (* the nets in the models directory of each host         *)
  hosts,            (* computationHosts                                      *)
  exceptionptr,     (* is there an exception to show in the window?          *)
  slots, i,         (* the loop at hand: the vector's memory and its index   *)
  allNets,          (* the answers to queryNets                              *)
  other,            (* netIntersection: the list nets is compared with       *)
  nets,             (* the nets to offer                                     *)
  platformsOf       (* the hosts whose platforms are offered                 *)

vars == <<pc, serverUp, netsOf, hosts, exceptionptr, slots, i, allNets, other,
          nets, platformsOf>>

Init ==
  /\ pc = "connect"
  /\ serverUp \in BOOLEAN
  /\ netsOf \in [{"fpga", "local"} -> NetLists]
  /\ hosts = <<>> /\ exceptionptr = FALSE
  /\ slots = <<>> /\ i = 1
  /\ allNets = <<>> /\ other = 2 /\ nets = <<>> /\ platformsOf = <<>>

Up(host) == host = "local" \/ serverUp

(* The server process ends. *)
ServerVanishes ==
  /\ ServerMayVanish /\ serverUp
  /\ serverUp' = FALSE
  /\ UNCHANGED <<pc, netsOf, hosts, exceptionptr, slots, i, allNets, other, nets, platformsOf>>

-----------------------------------------------------------------------------
(* The constructor. *)
Connect ==
  /\ pc = "connect"
  /\ hosts' = IF ServerHasAddress /\ serverUp THEN <<"fpga">> ELSE <<>>
  /\ pc' = "executor"
  /\ UNCHANGED <<serverUp, netsOf, exceptionptr, slots, i, allNets, other, nets, platformsOf>>

(* platforms.json can be read, or the local executor cannot be created. *)
CreateExecutor ==
  /\ pc = "executor"
  /\ \/ hosts' = Append(hosts, "local") /\ UNCHANGED exceptionptr
     \/ exceptionptr' = TRUE /\ UNCHANGED hosts
  /\ slots' = hosts' /\ i' = 1
  /\ pc' = "queryNets"
  /\ UNCHANGED <<serverUp, netsOf, allNets, other, nets, platformsOf>>

-----------------------------------------------------------------------------
(* fault: the loop takes the new end into account. *)
Shrunk(memory, length, index) == RemoveAt(memory, index)

(* The memory of a vector after an erasure: the elements behind it move up *)
(* and the last one stays in its place.                                    *)
Erased(memory, length, index) ==
  [j \in DOMAIN memory |-> IF j \in index..(length - 1) THEN memory[j + 1] ELSE memory[j]]

(* initGUI: the nets of the hosts, one turn of the loop each. *)
AskNets ==
  /\ pc = "queryNets" /\ i <= Len(slots) /\ Up(slots[i])
  /\ allNets' = Append(allNets, netsOf[slots[i]])
  /\ i' = i + 1
  /\ UNCHANGED <<pc, serverUp, netsOf, hosts, exceptionptr, slots, other, nets, platformsOf>>

(* CommunicationException: the host is erased. *)
AskNetsFails ==
  /\ pc = "queryNets" /\ i <= Len(slots) /\ ~ Up(slots[i])
  /\ slots' = Erased(slots, Len(hosts), i)
  /\ hosts' = RemoveAt(hosts, i)
  /\ i' = i + 1
  /\ UNCHANGED <<pc, serverUp, netsOf, exceptionptr, allNets, other, nets, platformsOf>>

(* ResourceException: the local models directory cannot be read. *)
ReadNetsFails ==
  /\ pc = "queryNets" /\ i <= Len(slots) /\ slots[i] = "local"
  /\ exceptionptr' = TRUE
  /\ i' = i + 1
  /\ UNCHANGED <<pc, serverUp, netsOf, hosts, slots, allNets, other, nets, platformsOf>>

(* type_error, which nothing catches: a field of computationHosts.json, of *)
(* platforms.json or of the description of a local net has another type.   *)
TypeError ==
  /\ \/ pc \in {"connect", "executor"}
     \/ pc = "queryNets" /\ i <= Len(slots) /\ slots[i] = "local"
  /\ pc' = "terminated"
  /\ UNCHANGED <<serverUp, netsOf, hosts, exceptionptr, slots, i, allNets, other, nets, platformsOf>>

Intersects == ~ exceptionptr

(* All hosts have been asked. *)
NetsAsked ==
  /\ pc = "queryNets" /\ i > Len(slots)
  /\ \/ ~ Intersects /\ pc' = "queryPlatforms" /\ slots' = hosts /\ UNCHANGED nets
     \/ Intersects /\ allNets # <<>> /\ pc' = "intersect"
        /\ nets' = allNets[1] /\ slots' = allNets[1]
     \/ Intersects /\ allNets = <<>> /\ pc' = "undefined" /\ UNCHANGED <<nets, slots>>
  /\ i' = 1
  /\ UNCHANGED <<serverUp, netsOf, hosts, exceptionptr, allNets, other, platformsOf>>

-----------------------------------------------------------------------------
(* netIntersection: one turn of the inner loop. *)
Comparing == pc = "intersect" /\ other <= Len(allNets) /\ i <= Len(slots)

(* fault: the nets are looked up in their own list. *)
FirstListHasIt(n) == n \in ToSet(allNets[1])

(* fault: the search begins at the second net. *)
TailHasIt(n) == n \in ToSet(Tail(allNets[other]))

OtherListHasIt(n) == n \in ToSet(allNets[other])

KeepCommonNet ==
  /\ Comparing
  /\ OtherListHasIt(slots[i])
  /\ i' = i + 1
  /\ UNCHANGED <<pc, serverUp, netsOf, hosts, exceptionptr, slots, allNets, other, nets, platformsOf>>

EraseNet ==
  /\ Comparing
  /\ ~ OtherListHasIt(slots[i])
  /\ \E j \in DOMAIN nets :
       /\ nets[j] = slots[i]
       /\ slots' = Erased(slots, Len(nets), j)
       /\ nets' = RemoveAt(nets, j)
  /\ i' = i + 1
  /\ UNCHANGED <<pc, serverUp, netsOf, hosts, exceptionptr, allNets, other, platformsOf>>

(* The net in the slot behind the vector is gone already. *)
EraseEnd ==
  /\ Comparing
  /\ ~ OtherListHasIt(slots[i]) /\ slots[i] \notin ToSet(nets)
  /\ pc' = "undefined"
  /\ UNCHANGED <<serverUp, netsOf, hosts, exceptionptr, slots, i, allNets, other, nets, platformsOf>>

NextList ==
  /\ pc = "intersect" /\ other <= Len(allNets) /\ i > Len(slots)
  /\ other' = other + 1 /\ slots' = nets /\ i' = 1
  /\ UNCHANGED <<pc, serverUp, netsOf, hosts, exceptionptr, allNets, nets, platformsOf>>

IntersectionDone ==
  /\ pc = "intersect" /\ other > Len(allNets)
  /\ pc' = "queryPlatforms" /\ slots' = hosts /\ i' = 1
  /\ UNCHANGED <<serverUp, netsOf, hosts, exceptionptr, allNets, other, nets, platformsOf>>

-----------------------------------------------------------------------------
(* The platforms of the hosts: nothing catches a CommunicationException.   *)
AskPlatforms ==
  /\ pc = "queryPlatforms" /\ i <= Len(slots) /\ Up(slots[i])
  /\ platformsOf' = Append(platformsOf, slots[i])
  /\ i' = i + 1
  /\ UNCHANGED <<pc, serverUp, netsOf, hosts, exceptionptr, slots, allNets, other, nets>>

AskPlatformsFails ==
  /\ pc = "queryPlatforms" /\ i <= Len(slots) /\ ~ Up(slots[i])
  /\ pc' = "terminated"
  /\ UNCHANGED <<serverUp, netsOf, hosts, exceptionptr, slots, i, allNets, other, nets, platformsOf>>

(* fault: the exception is not handed to the window. *)
ExceptionForgotten == TRUE

WindowIsUsable == ~ exceptionptr

(* The window opens: with an error message that closes it, or usable. *)
OpenWindow ==
  /\ pc = "queryPlatforms" /\ i > Len(slots)
  /\ pc' = IF WindowIsUsable THEN "window" ELSE "error"
  /\ exceptionptr' = FALSE
  /\ UNCHANGED <<serverUp, netsOf, hosts, slots, i, allNets, other, nets, platformsOf>>

Next ==
  \/ ServerVanishes \/ Connect \/ CreateExecutor \/ TypeError
  \/ AskNets \/ AskNetsFails \/ ReadNetsFails \/ NetsAsked
  \/ KeepCommonNet \/ EraseNet \/ EraseEnd \/ NextList \/ IntersectionDone
  \/ AskPlatforms \/ AskPlatformsFails \/ OpenWindow

Spec == Init /\ [][Next]_vars

-----------------------------------------------------------------------------
Hosts == {"fpga", "local"}
Nets == UNION {ToSet(list) : list \in NetLists}

TypeOK ==
  /\ pc \in {"connect", "executor", "queryNets", "intersect", "queryPlatforms",
             "window", "error", "undefined", "terminated"}
  /\ serverUp \in BOOLEAN /\ exceptionptr \in BOOLEAN
  /\ netsOf \in [Hosts -> NetLists]
  /\ hosts \in Seq(Hosts) /\ platformsOf \in Seq(Hosts)
  /\ allNets \in Seq(NetLists)
  /\ nets \in Seq(Nets)
  /\ i \in 1..(Len(slots) + 1)
  /\ other \in 2..3

(* Whichever calls failed, netIntersection works on one list for each of   *)
(* the hosts that are left, and on at least one: it reads allNets[0]       *)
(* (Manager.cpp:367), although hosts were erased in the loop that fills    *)
(* allNets (Manager.cpp:119-131).                                          *)
OneListPerHost ==
  (pc = "intersect" \/ (pc = "undefined" /\ allNets = <<>>)) =>
    /\ hosts # <<>>
    /\ allNets = [j \in DOMAIN hosts |-> netsOf[hosts[j]]]

(* Manager.h:76 has netIntersection "only hand neural nets available on    *)
(* every host to the Gui".  It does not: of two nets in a row that a host  *)
(* lacks, the loop skips the second.  But every net that all hosts have is *)
(* offered, once, whatever it skips or sees twice (Manager.cpp:366-384).   *)
NoCommonNetLost ==
  pc = "window" =>
    /\ IsInjective(nets)
    /\ \A n \in ToSet(allNets[1]) :
         (\A j \in DOMAIN hosts : n \in ToSet(netsOf[hosts[j]])) => n \in ToSet(nets)

(* If the other host lacks at most one net of the first, the nets offered *)
(* are those of the first host in their order, without that one: what the  *)
(* loop of Manager.cpp:366-384 skips, and the slot it reads behind the     *)
(* vector, then make no difference.                                        *)
OnlyTheMissingNetIsGone ==
  \/ ToSet(allNets[1]) \subseteq ToSet(allNets[2]) /\ nets = allNets[1]
  \/ \E p \in DOMAIN allNets[1] :
       allNets[1][p] \notin ToSet(allNets[2]) /\ nets = RemoveAt(allNets[1], p)

ExactForOneMissingNet ==
  pc = "window" /\ Len(allNets) = 2
    /\ (\A a, b \in ToSet(allNets[1]) \ ToSet(allNets[2]) : a = b)
  => OnlyTheMissingNetIsGone

(* The window is usable only when the local host is there, the last of the *)
(* hosts, and the platforms offered are those of the hosts in their order: *)
(* the state in which the module Manager begins.                           *)
WindowFitsHosts ==
  pc = "window" =>
    /\ hosts \in {<<"local">>, <<"fpga", "local">>}
    /\ platformsOf = hosts
    /\ ToSet(nets) \subseteq ToSet(netsOf[hosts[1]])
=============================================================================
