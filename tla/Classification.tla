--------------------------- MODULE Classification ---------------------------
(***************************************************************************)
(* What HICS promises the user of its window (README.md, MainWindowHandler *)
(* and Manager of the source): a request is answered once, with all of its *)
(* images or with a failure, before the next one can be made.  The failure *)
(* of the remote host costs that host; after a failure of resources there  *)
(* is no other request.  Threads, signals and locks are not visible here.  *)
(***************************************************************************)
EXTENDS Sequences, Functions

CONSTANT Images       (* the images a request may ask for                    *)

VARIABLES
  page,               (* the widget on display: "start" or "result"          *)
  asked,              (* the images of the last request, in their order      *)
  answer,             (* to it: "none", "pending", "ok", or a failure        *)
  hosts,              (* the hosts that are left                             *)
  shown,              (* the images on the result page                       *)
  final               (* HICS can only be closed                             *)

serviceVars == <<page, asked, answer, hosts, shown, final>>

Init ==
  /\ page = "start" /\ asked = <<>> /\ answer = "none" /\ shown = <<>> /\ final = FALSE
  /\ hosts \in {<<"local">>, <<"fpga", "local">>}

MayAsk == page = "start" /\ answer = "none" /\ ~ final

Ask ==
  /\ MayAsk
  /\ answer' = "pending"
  /\ asked' \in Seq(Images) \ {<<>>} /\ IsInjective(asked')
  /\ UNCHANGED <<page, hosts, shown, final>>

(* Nothing is selected. *)
Refuse ==
  /\ MayAsk
  /\ asked' = <<>>
  /\ UNCHANGED <<page, answer, hosts, shown, final>>

Succeed ==
  /\ answer = "pending"
  /\ answer' = "ok"
  /\ UNCHANGED <<page, asked, hosts, shown, final>>

Fail(failure) ==
  /\ answer = "pending"
  /\ failure = "comm" => hosts = <<"fpga", "local">>
  /\ answer' = failure
  /\ hosts' = IF failure = "comm" THEN <<"local">> ELSE hosts
  /\ UNCHANGED <<page, asked, shown, final>>

Show ==
  /\ answer = "ok"
  /\ page' = "result" /\ shown' = asked /\ answer' = "none"
  /\ UNCHANGED <<asked, hosts, final>>

Report ==
  /\ answer \in {"comm", "resource", "other"}
  /\ answer' = "none" /\ final' = (answer = "resource")
  /\ UNCHANGED <<page, asked, hosts, shown>>

Return ==
  /\ page = "result"
  /\ page' = "start" /\ shown' = <<>>
  /\ UNCHANGED <<asked, answer, hosts, final>>

Next ==
  \/ Ask \/ Refuse \/ Succeed
  \/ \E failure \in {"comm", "resource", "other"} : Fail(failure)
  \/ Show \/ Report \/ Return

Spec == Init /\ [][Next]_serviceVars
=============================================================================
