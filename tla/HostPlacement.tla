--------------------------- MODULE HostPlacement ---------------------------
(***************************************************************************)
(* What Manager::update relies on when it calls HostPlacer::place: the     *)
(* images of one request are handed out to computation hosts, each image   *)
(* to exactly one host, until none is left or the placement is given up.   *)
(***************************************************************************)
EXTENDS Integers

CONSTANTS
  NumHosts,     (* number of available computation hosts          *)
  ImageCounts   (* the numbers of images a request may have       *)

Hosts == 1..NumHosts

VARIABLES
  left,         (* images that no host has been given yet         *)
  placed,       (* placed[h]: images given to host h              *)
  outcome       (* "open", then "placed" or "failed"              *)

placementVars == <<left, placed, outcome>>

Init ==
  /\ left \in ImageCounts
  /\ placed = [h \in Hosts |-> 0]
  /\ outcome = "open"

(* Host h is given k of the images that are left. *)
Give(h, k) ==
  /\ outcome = "open"
  /\ placed' = [placed EXCEPT ![h] = @ + k]
  /\ left' = left - k
  /\ UNCHANGED outcome

(* The placement is complete only when every image has a host. *)
Complete ==
  /\ outcome = "open"
  /\ left = 0
  /\ outcome' = "placed"
  /\ UNCHANGED <<left, placed>>

(* The placement is given up before any host was handed to a thread. *)
GiveUp ==
  /\ outcome = "open"
  /\ outcome' = "failed"
  /\ UNCHANGED <<left, placed>>

Next ==
  \/ \E h \in Hosts : \E k \in 1..left : Give(h, k)
  \/ Complete
  \/ GiveUp

Spec == Init /\ [][Next]_placementVars /\ WF_placementVars(Next)
=============================================================================
