--------------------------- MODULE ComputationHost ---------------------------
(***************************************************************************)
(* What the interface ComputationHost promises the manager about classify  *)
(* (src/src/executor/ComputationHost.h): a call returns one result for     *)
(* every image, in the order of the images, made by the requested net on   *)
(* the selected platforms, if any, or it throws and returns nothing.       *)
(***************************************************************************)
EXTENDS Sequences, SequencesExt

CONSTANTS
  Call,             (* the arguments of a call of classify                 *)
  NoCall            (* none of them                                        *)

VARIABLES busy,     (* is a call under way?                                *)
          call,     (* its arguments                                       *)
          reply     (* what it has returned, <<>> until then               *)

vars == <<busy, call, reply>>

(* The promised results; without a selected platform, nothing is said of   *)
(* where the net runs.                                                     *)
Answers(c, results) ==
  /\ DOMAIN results = DOMAIN c.images
  /\ \A i \in DOMAIN c.images :
       /\ results[i].image = c.images[i]
       /\ results[i].labels = c.net
       /\ c.platforms # {} => results[i].platforms = c.platforms

Init == busy = FALSE /\ call = NoCall /\ reply = <<>>

(* The caller calls classify. *)
Classify(c) == ~ busy /\ busy' = TRUE /\ call' = c /\ reply' = <<>>

Reply == busy /\ reply = <<>> /\ Answers(call, reply') /\ UNCHANGED <<busy, call>>

(* The caller has the results, or the exception. *)
End == busy /\ busy' = FALSE /\ call' = NoCall /\ reply' = <<>>

Next == (\E c \in Call : Classify(c)) \/ Reply \/ End

Spec == Init /\ [][Next]_vars
=============================================================================
