------------------------------ MODULE DaemonClients ------------------------------
(***************************************************************************)
(* The clients of the Delegator daemon and the daemon they start.  MCP     *)
(* servers (packages/mcp) and the scripts of the command-line skill        *)
(* (skill/awcp-skill) look for a daemon on its port and start one inside   *)
(* their own process if nobody answers; all of them keep their files in    *)
(* one directory.  MCP servers stay until they are interrupted; a script   *)
(* exits when it has printed its result, and a daemon ends with the        *)
(* process it runs in.                                                     *)
(*                                                                         *)
(* An action is the code between two awaits.  A request is handled by      *)
(* whoever listens when it arrives; what its handler does is a step of the *)
(* daemon's service and modelled in DelegatorService.                      *)
(***************************************************************************)
EXTENDS Naturals

CONSTANTS
  Servers, Scripts,  \* the processes
  Ids,               \* delegations
  None

ASSUME ClientsAssumption == Servers \cap Scripts = {} /\ None \notin Servers \cup Scripts \cup Ids

Clients == Servers \cup Scripts

VARIABLES
  pc,       \* where a client waits
  port,     \* the process that listens, or None
  service,  \* the processes with a DelegatorService
  home,     \* the process whose service has a delegation in its map, or None
  stored,   \* the delegations with files in the shared directory
  state,    \* of a delegation, as its Delegator and its Executor know it
  task,     \* the delegation a client polls
  todo,     \* what is left of the delegations an MCP server cancels
  listed,   \* all it has to cancel
  said,     \* the delegations it said were cancelled
  told      \* the delegations whose ids were given to a client

processes == <<pc, port, service>>
delegations == <<home, stored, state>>
answers == <<task, todo, listed, said, told>>
vars == <<processes, delegations, answers>>

Waiting == {"probe", "initialize", "listen", "health", "ready", "answer", "poll",
            "cancel", "closing"}

TypeOK ==
  /\ pc \in [Clients -> {"idle", "gone"} \cup Waiting]
  /\ port \in Clients \cup {None}
  /\ service \subseteq {p \in Clients : pc[p] \notin {"idle", "probe", "initialize", "gone"}}
  /\ port # None => port \in service
  /\ home \in [Ids -> service \cup {None}]
  /\ stored \subseteq Ids
  /\ state \in [Ids -> {"none", "running", "ended"}]
  /\ task \in [Clients -> Ids \cup {None}]
  /\ todo \in [Servers -> SUBSET Ids] /\ listed \in [Servers -> SUBSET Ids]
  /\ \A p \in Servers : todo[p] \subseteq listed[p]
  /\ said \subseteq Ids
  /\ told \subseteq Ids

Init ==
  /\ pc = [p \in Clients |-> "idle"]
  /\ port = None /\ service = {}
  /\ home = [id \in Ids |-> None] /\ stored = {} /\ state = [id \in Ids |-> "none"]
  /\ task = [p \in Clients |-> None]
  /\ todo = [p \in Servers |-> {}] /\ listed = [p \in Servers |-> {}] /\ said = {}
  /\ told = {}

To(p, place) == pc' = [pc EXCEPT ![p] = place]

(***************************************************************************)
(* A process and the daemon in it.                                         *)
(***************************************************************************)
Launch(p) ==
  /\ pc[p] = "idle" /\ To(p, "probe")
  /\ UNCHANGED <<port, service, delegations, answers>>

\* The process ends, and the daemon with it: its delegations are in nobody's
\* map, their files stay, their tasks go on.
Exit(p) ==
  /\ To(p, "gone")
  /\ service' = service \ {p}
  /\ port' = IF port = p THEN None ELSE port
  /\ home' = [id \in Ids |-> IF home[id] = p THEN None ELSE home[id]]
  /\ UNCHANGED <<stored, state>>

\* isDaemonRunning(): a daemon that takes two seconds to answer is not.
Probe(p) ==
  /\ pc[p] = "probe"
  /\ \/ port # None /\ To(p, "ready")
     \/ To(p, "initialize")
  /\ UNCHANGED <<port, service, delegations, answers>>

\* startDelegatorDaemon(): the service is made and initialized first.  It
\* releases all delegations it finds stored (cleanupOnInitialize).
Initialize(p) ==
  /\ pc[p] = "initialize" /\ To(p, "listen")
  /\ service' = service \cup {p}
  /\ stored' = {}
  /\ UNCHANGED <<port, home, state, answers>>

Listen(p) ==
  /\ pc[p] = "listen" /\ port = None /\ port' = p
  /\ To(p, IF p \in Servers THEN "health" ELSE "ready")
  /\ UNCHANGED <<service, delegations, answers>>

\* Mutant: a client whose port is taken is content with the daemon there.
SettleForOther(p) ==
  /\ pc[p] = "listen" /\ port # None /\ To(p, "ready")
  /\ UNCHANGED <<port, service, delegations, answers>>

\* EADDRINUSE: the start is rejected and the process exits.
ListenFails(p) ==
  /\ pc[p] = "listen" /\ port # None /\ Exit(p) /\ UNCHANGED answers

\* waitForDaemon(), of MCP servers.
Healthy(p) ==
  /\ pc[p] = "health"
  /\ \/ To(p, "ready") /\ UNCHANGED <<port, service, delegations>>
     \/ Exit(p)
  /\ UNCHANGED answers

\* A crash, or a signal nobody handles: an MCP server's before its start is
\* through, or a second one; a script's at any time.
Killed(p) == pc[p] \in Waiting /\ Exit(p) /\ UNCHANGED answers

\* SIGINT or SIGTERM at an MCP server: the daemon it started is shut down,
\* first the service, which forgets its delegations, then the port.
Interrupt(p) ==
  /\ p \in Servers /\ pc[p] \in {"ready", "answer", "poll", "cancel"}
  /\ IF p \in service
     THEN /\ To(p, "closing")
          /\ home' = [id \in Ids |-> IF home[id] = p THEN None ELSE home[id]]
          /\ UNCHANGED <<port, service, stored, state>>
     ELSE Exit(p)
  /\ UNCHANGED answers

Close(p) == pc[p] = "closing" /\ Exit(p) /\ UNCHANGED answers

(***************************************************************************)
(* The delegations of the daemon.                                          *)
(***************************************************************************)
\* By its task's end, at the Executor: the daemon may be gone by then.
Ends(id) ==
  /\ state[id] = "running"
  /\ state' = [state EXCEPT ![id] = "ended"]
  /\ UNCHANGED <<processes, home, stored, answers>>

(***************************************************************************)
(* Tools and scripts.  A script prints what it got and exits; a tool       *)
(* returns it.                                                             *)
(***************************************************************************)
Returns(p) ==
  IF p \in Scripts THEN Exit(p)
  ELSE To(p, "ready") /\ UNCHANGED <<port, service, delegations>>

\* A request that is answered and changes nothing here (the state of a
\* delegation, its snapshots), or that cannot be sent or is refused.
Requested(p) ==
  /\ p \in Scripts /\ pc[p] = "ready" /\ Exit(p) /\ UNCHANGED answers

\* POST /delegate, handled.
Delegate(p, id) ==
  /\ pc[p] = "ready" /\ port # None /\ state[id] = "none"
  /\ state' = [state EXCEPT ![id] = "running"]
  /\ stored' = stored \cup {id}
  /\ home' = [home EXCEPT ![id] = port]
  /\ To(p, "answer") /\ task' = [task EXCEPT ![p] = id]
  /\ UNCHANGED <<port, service, todo, listed, said, told>>

\* The answer is awaited for 30 seconds; the client may then wait for the end.
Answered(p) ==
  /\ pc[p] = "answer"
  /\ \/ /\ told' = told \cup {task[p]}
        /\ \/ To(p, "poll") /\ UNCHANGED <<port, service, delegations, task>>
           \/ Returns(p) /\ task' = [task EXCEPT ![p] = None]
     \/ /\ Returns(p) /\ UNCHANGED told
        /\ task' = [task EXCEPT ![p] = None]
  /\ UNCHANGED <<todo, listed, said>>

\* A later call, for a delegation somebody was given the id of.
Await(p, id) ==
  /\ pc[p] = "ready" /\ id \in told /\ To(p, "poll")
  /\ task' = [task EXCEPT ![p] = id]
  /\ UNCHANGED <<port, service, delegations, todo, listed, said, told>>

\* waitForCompletion(): it ends with a state that is final, an answer 404 or
\* no answer.
Poll(p) ==
  /\ pc[p] = "poll"
  /\ port = None \/ home[task[p]] # port \/ state[task[p]] = "ended"
  /\ Returns(p) /\ task' = [task EXCEPT ![p] = None]
  /\ UNCHANGED <<todo, listed, said, told>>

\* Mutant: the wait goes on after its timeout, while the daemon answers.
WaitOn(p) ==
  /\ pc[p] = "poll" /\ port = None
  /\ Returns(p) /\ task' = [task EXCEPT ![p] = None]
  /\ UNCHANGED <<todo, listed, said, told>>

WaitTimeout(p) ==
  /\ pc[p] = "poll"
  /\ Returns(p) /\ task' = [task EXCEPT ![p] = None]
  /\ UNCHANGED <<todo, listed, said, told>>

\* delegate_cancel with all: the running ones are listed, then cancelled one
\* after the other.
CancelAll(p) ==
  /\ p \in Servers /\ pc[p] = "ready" /\ port # None /\ To(p, "cancel")
  /\ listed' = [listed EXCEPT ![p] = {id \in Ids : home[id] = port /\ state[id] = "running"}]
  /\ todo' = [todo EXCEPT ![p] = listed'[p]]
  /\ UNCHANGED <<port, service, delegations, task, said, told>>

CancelEnds(p) ==
  /\ To(p, "ready")
  /\ listed' = [listed EXCEPT ![p] = {}] /\ todo' = [todo EXCEPT ![p] = {}]

\* Mutant: a cancellation that fails is passed over.
CancelAnyway(p, id) ==
  /\ pc[p] = "cancel" /\ id \in todo[p]
  /\ todo' = [todo EXCEPT ![p] = @ \ {id}]
  /\ IF port # None /\ home[id] = port THEN state' = [state EXCEPT ![id] = "ended"]
     ELSE UNCHANGED state
  /\ UNCHANGED <<processes, home, stored, task, listed, said, told>>

\* A delegation that has ended meanwhile may refuse, and one the daemon does
\* not know does: the rest is not cancelled.
CancelOne(p, id) ==
  /\ pc[p] = "cancel" /\ id \in todo[p]
  /\ \/ /\ port # None /\ home[id] = port
        /\ state' = [state EXCEPT ![id] = "ended"]
        /\ todo' = [todo EXCEPT ![p] = @ \ {id}]
        /\ UNCHANGED <<pc, listed>>
     \/ /\ port = None \/ home[id] # port \/ state[id] = "ended"
        /\ CancelEnds(p) /\ UNCHANGED state
  /\ UNCHANGED <<port, service, home, stored, task, said, told>>

\* "Cancelled n delegations."
CancelledAll(p) ==
  /\ pc[p] = "cancel" /\ todo[p] = {}
  /\ said' = said \cup listed[p] /\ CancelEnds(p)
  /\ UNCHANGED <<port, service, delegations, task, told>>

(***************************************************************************)
(* The specification.                                                      *)
(***************************************************************************)
Starting(p) ==
  Probe(p) \/ Initialize(p) \/ Listen(p) \/ ListenFails(p) \/ Healthy(p)

Working(p) ==
  \/ Requested(p) \/ Answered(p) \/ Poll(p) \/ WaitTimeout(p)
  \/ \E id \in Ids : Delegate(p, id) \/ Await(p, id)

Next ==
  \/ \E p \in Clients : Launch(p) \/ Starting(p) \/ Working(p) \/ Killed(p)
  \/ \E p \in Servers : \/ Interrupt(p) \/ Close(p)
                        \/ CancelAll(p) \/ CancelledAll(p)
                        \/ \E id \in Ids : CancelOne(p, id)
  \/ \E id \in Ids : Ends(id)

Spec == Init /\ [][Next]_vars

\* A script goes on as long as it can; whether a task ends, a process is
\* interrupted or a tool is called is up to others.
FairSpec ==
  /\ Spec
  /\ \A p \in Scripts : WF_vars(Starting(p)) /\ WF_vars(Working(p)) /\ WF_vars(WaitTimeout(p))

(***************************************************************************)
(* Properties.                                                             *)
(***************************************************************************)
\* However many clients found no daemon and started one, among those that
\* went on only the one that listens runs a service: services share a
\* directory and each would sweep the others' delegations.
OneService ==
  \A p \in service : pc[p] # "listen" => port = p

\* What a client was told is cancelled has ended, though the daemon may have
\* been replaced between two of the cancellations.
CancelledHaveEnded == \A id \in said : state[id] = "ended"

\* A script ends, whatever becomes of the daemon it talks to, and even if
\* the task never does.
ScriptEnds == \A p \in Scripts : pc[p] = "probe" ~> pc[p] = "gone"

(***************************************************************************)
(* What the documentation says and the code does not do.                   *)
(***************************************************************************)
\* "Background Delegation: start without waiting", then status.ts (SKILL.md):
\* the script that started a delegation takes it away from nobody.
OutlivesScript ==
  [][\A p \in Scripts, id \in Ids :
       home[id] = p /\ state[id] = "running" /\ id \in told' => home'[id] = p]_vars
=============================================================================
