---------------------------- MODULE Communicator ----------------------------
(***************************************************************************)
(* The remote host: Client::classify in the manager's process              *)
(* (src/src/communicator/Client.cpp), which calls the server once for      *)
(* every image and waits without a deadline, and ComputationServer         *)
(* (ComputationServer.cpp), which runs every request in a thread of its    *)
(* own on the one Executor it has, here the module Executor with the       *)
(* server's threads.                                                       *)
(*                                                                         *)
(* A client is one run of the manager's process.  It ends when its window  *)
(* is closed.  After an error the manager drops the host, or calls it      *)
(* again later when the exception of another host has hidden the error.    *)
(* Neither stops a request that runs on the server.  gRPC answers a        *)
(* request whose handler throws with an error status.                      *)
(***************************************************************************)
EXTENDS Executor

CONSTANTS
  Clients,          (* runs of the manager's process                         *)
  ClientMaxImages,  (* bound: the largest number of images of one call       *)
  MaxKept           (* bound: how many times a host is kept after an error   *)

ASSUME CommunicatorAssumption ==
  /\ Clients # {} /\ IsFiniteSet(Clients) /\ "nobody" \notin Clients
  /\ ClientMaxImages \in Nat /\ MaxKept \in Nat /\ MaxImages > 0
  /\ "LowPower" \in Modes
  /\ {} \notin Selections
  /\ OutlivesResourceException

VARIABLES
  at,               (* where each client is in classify                      *)
  arguments,        (* what it has been called with                          *)
  replies,          (* the results it has received                           *)
  waiting,          (* the client that waits for the server thread's answer  *)
  (* history *)
  kept,             (* the causes of the errors after which a host was kept  *)
  unlabelled        (* the nets whose labels the server once could not read  *)

clientVars == <<at, arguments, replies, waiting, kept>>
executorVars == <<vars, unlabelled>>
allVars == <<clientVars, executorVars>>

ClientCall == [net : Nets, mode : Modes, platforms : Selections,
               images : BoundedSeq(Images, ClientMaxImages)]

CommunicatorInit ==
  /\ Init
  /\ at = [c \in Clients |-> "ready"]
  /\ arguments = [c \in Clients |-> NoCall]
  /\ replies = [c \in Clients |-> <<>>]
  /\ waiting = [t \in Threads |-> "nobody"]
  /\ kept = <<>> /\ unlabelled = {}

-----------------------------------------------------------------------------
(* The client. *)
ClientClassify(c, a) ==
  /\ at[c] = "ready"
  /\ at' = [at EXCEPT ![c] = "sending"]
  /\ arguments' = [arguments EXCEPT ![c] = a]
  /\ UNCHANGED <<replies, waiting, kept, executorVars>>

(* Every case of the switch falls through to the last one. *)
SentMode(mode) == "LowPower"

(* fault: the client repeats the first image. *)
FirstImage(c) == arguments[c].images[1]

ImageToSend(c) == arguments[c].images[Len(replies[c]) + 1]

(* The next image becomes a request of its own; a free thread takes it.    *)
SendImage(c, t) ==
  /\ at[c] = "sending" /\ Len(replies[c]) < Len(arguments[c].images)
  /\ waiting[t] = "nobody"
  /\ Classify(t, [net |-> arguments[c].net, mode |-> SentMode(arguments[c].mode),
                  platforms |-> arguments[c].platforms, images |-> <<ImageToSend(c)>>])
  /\ at' = [at EXCEPT ![c] = "waiting"]
  /\ waiting' = [waiting EXCEPT ![t] = c]
  /\ UNCHANGED <<arguments, replies, kept, unlabelled>>

ReceiveReply(c, t) ==
  /\ at[c] = "waiting" /\ waiting[t] = c
  /\ replies' = [replies EXCEPT ![c] = @ \o results[t]]
  /\ TakeResults(t)
  /\ at' = [at EXCEPT ![c] = "sending"]
  /\ waiting' = [waiting EXCEPT ![t] = "nobody"]
  /\ UNCHANGED <<arguments, kept, unlabelled>>

(* The call is over, and nobody waits for a thread on its behalf.          *)
EndCall(c, location) ==
  /\ at' = [at EXCEPT ![c] = location]
  /\ arguments' = [arguments EXCEPT ![c] = NoCall]
  /\ replies' = [replies EXCEPT ![c] = <<>>]
  /\ waiting' = [t \in Threads |-> IF waiting[t] = c THEN "nobody" ELSE waiting[t]]

(* fault: a handler that throws does not answer. *)
NeverAnswers(t) == FALSE

AnswersWithError(t) == pc[t] = "idle"

(* CommunicationException: the results so far are lost.  The manager drops *)
(* the host, unless another host's exception is the one it finds in        *)
(* exceptionptr; then the host stays and can be called again.              *)
Fail(c, cause) ==
  \/ EndCall(c, "dropped") /\ UNCHANGED kept
  \/ Len(kept) < MaxKept /\ EndCall(c, "ready") /\ kept' = Append(kept, cause)

ReceiveError(c, t) ==
  /\ at[c] = "waiting" /\ waiting[t] = c
  /\ AnswersWithError(t)
  /\ Fail(c, "error")
  /\ UNCHANGED executorVars

ConnectionLost(c) ==
  /\ at[c] = "waiting"
  /\ Fail(c, "connection")
  /\ UNCHANGED executorVars

(* The user closes the window of this client's process. *)
CloseClient(c) ==
  /\ at[c] # "closed"
  /\ EndCall(c, "closed")
  /\ UNCHANGED <<kept, executorVars>>

(* fault: a platform seen for the first time is not inserted. *)
NothingAggregated(rs) == {}

(* aggregateReplyDistribution: the platforms of any result. *)
AggregateDistribution(rs) == UNION {rs[i].platforms : i \in DOMAIN rs}

ClientReturn(c) ==
  /\ at[c] = "sending" /\ Len(replies[c]) = Len(arguments[c].images)
  /\ at' = [at EXCEPT ![c] = "returned"]
  /\ replies' = [replies EXCEPT ![c] =
       [i \in DOMAIN @ |-> [@[i] EXCEPT !.platforms = AggregateDistribution(replies[c])]]]
  /\ UNCHANGED <<arguments, waiting, kept, executorVars>>

TakeReplies(c) ==
  /\ at[c] = "returned"
  /\ EndCall(c, "ready")
  /\ UNCHANGED <<kept, executorVars>>

-----------------------------------------------------------------------------
(* The server: a handler goes on, whoever waits for it. *)
Serve(t) ==
  /\ Step(t) /\ pc[t] # "returned"
  /\ unlabelled' = IF LabelsFail(t) THEN unlabelled \cup {call[t].net} ELSE unlabelled
  /\ UNCHANGED clientVars

(* The connection of the client is gone. *)
DiscardReply(t) ==
  waiting[t] = "nobody" /\ TakeResults(t) /\ UNCHANGED <<clientVars, unlabelled>>

CommunicatorStep ==
  \/ \E c \in Clients, t \in Threads : SendImage(c, t) \/ ReceiveReply(c, t) \/ ReceiveError(c, t)
  \/ \E c \in Clients : ClientReturn(c) \/ TakeReplies(c)
  \/ \E t \in Threads : Serve(t) \/ DiscardReply(t)

CommunicatorNext ==
  \/ CommunicatorStep
  \/ \E c \in Clients : ConnectionLost(c) \/ CloseClient(c)
  \/ \E c \in Clients, a \in ClientCall : ClientClassify(c, a)

CommunicatorSpec == CommunicatorInit /\ [][CommunicatorNext]_allVars

(* Threads within a handler and clients within classify run on; nobody has *)
(* to call classify, and connections need not break.                       *)
FairCommunicatorSpec == CommunicatorSpec /\ WF_allVars(CommunicatorStep)

-----------------------------------------------------------------------------
CommunicatorTypeOK ==
  /\ TypeOK
  /\ at \in [Clients -> {"ready", "sending", "waiting", "returned", "dropped", "closed"}]
  /\ arguments \in [Clients -> ClientCall \cup {NoCall}]
  /\ waiting \in [Threads -> Clients \cup {"nobody"}]
  /\ \A c \in Clients : Len(replies[c]) <= Len(arguments[c].images)
  /\ \A c \in Clients : at[c] = "waiting" => \E t \in Threads : waiting[t] = c
  /\ kept \in Seq({"error", "connection"}) /\ unlabelled \subseteq Nets

(* While one process uses the server and drops it with its first error     *)
(* (Manager.cpp:280-288), the server never meets an undefined step,        *)
(* although a call that throws leaves its executor in a bad state and a    *)
(* request whose client is gone runs on.                                   *)
OneClientIsSafe == Cardinality(Clients) = 1 /\ kept = <<>> => NeverUndefined

(* The host was kept although its connection broke. *)
KeptAfterLoss == \E i \in DOMAIN kept : kept[i] = "connection"

(* The i-th result a client has received is that of the i-th image, made   *)
(* by the requested net: "classfied images with their respective labels"   *)
(* (ComputationHost.h:51).  It stays so when the host is called again      *)
(* after its handlers have thrown, but not after its connection broke: the *)
(* request then meets the handler still running.  A net whose labels could *)
(* not be read is kept with those of another (Executor.cpp:84-86).         *)
RepliesBelongToImages ==
  ~ KeptAfterLoss =>
    \A c \in Clients : \A i \in DOMAIN replies[c] :
      /\ replies[c][i].image = arguments[c].images[i]
      /\ arguments[c].net \notin unlabelled => replies[c][i].labels = arguments[c].net

(* The client keeps the promise of the interface ComputationHost while it  *)
(* is the only one, whenever handlers throw and connections break, also    *)
(* when it is called again after errors.  What it returns after a broken   *)
(* connection, or by an unlabelled net, does not count: for the interface, *)
(* such a call returns nothing.                                            *)
TheClient == CHOOSE c \in Clients : TRUE

Reliable(c) == ~ KeptAfterLoss /\ arguments[c].net \notin unlabelled

RemoteHost == INSTANCE ComputationHost WITH
  Call <- ClientCall,
  busy <- at[TheClient] \in {"sending", "waiting", "returned"},
  call <- arguments[TheClient],
  reply <- IF at[TheClient] = "returned" /\ Reliable(TheClient)
             THEN replies[TheClient] ELSE <<>>

ClientImplementsComputationHost == RemoteHost!Spec

(* Client::classify returns or throws: whichever way a handler of the      *)
(* server ends, it is answered (ComputationServer.cpp:35-72), also when    *)
(* hosts are called again after errors.  A step of the server without a    *)
(* defined result ends the promise.                                        *)
ClientCallEnds ==
  \A c \in Clients : at[c] = "waiting" ~> at[c] # "waiting" \/ ~ NeverUndefined
=============================================================================
