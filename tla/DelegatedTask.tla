---------------------------- MODULE DelegatedTask ----------------------------
(***************************************************************************)
(* What AWCP promises of one delegation, whatever crashes or is lost: the  *)
(* Delegator's caller sees it offered, started and ended; the work it asks *)
(* for is executed at most once, only after START was sent; and the caller *)
(* is told "completed" only of work that was done.                         *)
(***************************************************************************)
VARIABLES
  view,  \* the delegation as the Delegator's caller sees it
  work   \* the execution START asks for

vars == <<view, work>>

TypeOK ==
  /\ view \in {"none", "offered", "started", "completed", "ended", "gone"}
  /\ work \in {"none", "requested", "running", "done", "failed"}

Init == view = "none" /\ work = "none"

Offer == view = "none" /\ view' = "offered" /\ UNCHANGED work

Start ==
  /\ view = "offered" /\ view' = "started"
  /\ work = "none" /\ work' = "requested"

Execute == work = "requested" /\ work' = "running" /\ UNCHANGED view

Stop == work = "running" /\ work' \in {"done", "failed"} /\ UNCHANGED view

Complete ==
  /\ view = "started" /\ work = "done"
  /\ view' = "completed" /\ UNCHANGED work

\* It failed, was declined or cancelled, or contact was lost.
End == view \in {"offered", "started"} /\ view' = "ended" /\ UNCHANGED work

\* Rolled back, swept, or forgotten by a crash of the Delegator.
Forget == view # "gone" /\ view' = "gone" /\ UNCHANGED work

Next == Offer \/ Start \/ Execute \/ Stop \/ Complete \/ End \/ Forget

\* A started delegation does not stay started.
Spec == Init /\ [][Next]_vars
FairSpec == Spec /\ WF_vars(view = "started" /\ (Complete \/ End \/ Forget))
=============================================================================
