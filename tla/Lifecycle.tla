------------------------------ MODULE Lifecycle ------------------------------
(***************************************************************************)
(* The two state machines of @awcp/core: the Executor's assignment and the *)
(* Delegator's delegation.  Each is a transition table together with a     *)
(* function from an event to the state it asks for; an event is accepted   *)
(* when both agree (transition() of either class).                         *)
(***************************************************************************)

(***************************************************************************)
(* Assignments (Executor side).                                            *)
(***************************************************************************)
AssignmentStates == {"pending", "active", "completed", "error"}

AssignmentEvents ==
  {"RECEIVE_START", "TASK_COMPLETE", "TASK_FAIL", "RECEIVE_ERROR", "CANCEL"}

AssignmentTransitions ==
  [pending   |-> {"active", "error"},
   active    |-> {"completed", "error"},
   completed |-> {},
   error     |-> {}]

IsTerminalAssignment(s) == AssignmentTransitions[s] = {}

\* getTargetState(): the state an event asks for in state s, if it asks for one.
AssignmentTarget(s, event, t) ==
  \/ event = "RECEIVE_START" /\ s = "pending" /\ t = "active"
  \/ event = "TASK_COMPLETE" /\ s = "active" /\ t = "completed"
  \/ event = "TASK_FAIL" /\ s = "active" /\ t = "error"
  \/ event \in {"RECEIVE_ERROR", "CANCEL"} /\ ~IsTerminalAssignment(s) /\ t = "error"

\* transition(): the state an accepted event leads to; {} when it fails.
AssignmentNext(s, event) ==
  {t \in AssignmentTransitions[s] : AssignmentTarget(s, event, t)}

(***************************************************************************)
(* Delegations (Delegator side).                                           *)
(***************************************************************************)
DelegationStates ==
  {"created", "invited", "accepted", "started", "running",
   "completed", "error", "cancelled", "expired"}

DelegationEvents ==
  {"SEND_INVITE", "RECEIVE_ACCEPT", "SEND_START", "SETUP_COMPLETE",
   "RECEIVE_DONE", "RECEIVE_ERROR", "SEND_ERROR", "CANCEL", "EXPIRE"}

DelegationTransitions ==
  [created   |-> {"invited", "error", "cancelled"},
   invited   |-> {"accepted", "error", "cancelled", "expired"},
   accepted  |-> {"started", "error", "cancelled", "expired"},
   started   |-> {"running", "error", "cancelled"},
   running   |-> {"completed", "error", "cancelled", "expired"},
   completed |-> {},
   error     |-> {},
   cancelled |-> {},
   expired   |-> {}]

IsTerminalDelegation(s) == DelegationTransitions[s] = {}

DelegationTarget(s, event, t) ==
  \/ event = "SEND_INVITE" /\ s = "created" /\ t = "invited"
  \/ event = "RECEIVE_ACCEPT" /\ s = "invited" /\ t = "accepted"
  \/ event = "SEND_START" /\ s = "accepted" /\ t = "started"
  \/ event = "SETUP_COMPLETE" /\ s = "started" /\ t = "running"
  \/ event = "RECEIVE_DONE" /\ s = "running" /\ t = "completed"
  \/ event \in {"RECEIVE_ERROR", "SEND_ERROR"} /\ ~IsTerminalDelegation(s) /\ t = "error"
  \/ event = "CANCEL" /\ ~IsTerminalDelegation(s) /\ t = "cancelled"
  \/ event = "EXPIRE" /\ s \in {"invited", "accepted", "running"} /\ t = "expired"

DelegationNext(s, event) ==
  {t \in DelegationTransitions[s] : DelegationTarget(s, event, t)}
=============================================================================
