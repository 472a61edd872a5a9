--------------------------------- MODULE AWCP ---------------------------------
(***************************************************************************)
(* One delegation across the network: a Delegator and an Executor, each a  *)
(* whole service, and the HTTP exchanges between them.                     *)
(*                                                                         *)
(* The Delegator POSTs INVITE, START, CANCEL and an acknowledgement, and   *)
(* reads the event stream it opened before START.  A request may be        *)
(* delivered late, after its sender gave up or died, or never; it is not   *)
(* duplicated.  A stream delivers in order and may break at any time,      *)
(* dropping what was not read.  Either process may crash and come back.    *)
(***************************************************************************)
EXTENDS Naturals, Sequences

CONSTANTS
  Id, NoId,              \* the delegation
  DCalls, ECalls,        \* call slots of the two services
  DMaxStarts, EMaxStarts \* bounds: starts of each process

ASSUME ConstantsAssumption ==
  Id # NoId /\ DMaxStarts \in Nat /\ EMaxStarts \in Nat

VARIABLES
  dUp, dStarts, delegations, dMachines, owner, toResume, dCalls, dDisk,
  environments, snapshots, prepared,
  eUp, eStarts, assignments, eMachines, emitters, minted, eCalls, eDisk,
  workDirs, attached, stream,
  wire,     \* requests sent and not yet received
  serving,  \* the request an Executor call will answer
  answers,  \* answers on their way to a Delegator that still waits
  unread,   \* events on their way to a Delegator that still reads
  work      \* history: the execution of the task

\* The two services, each with the theorems proved about it.
D == INSTANCE DelegatorServiceProofs WITH
       Ids <- {Id}, Calls <- DCalls, MaxStarts <- DMaxStarts,
       CleanupOnInitialize <- TRUE, DetachReleases <- TRUE,
       DiskFaults <- FALSE, SilentEnd <- FALSE,
       up <- dUp, starts <- dStarts, stateMachines <- dMachines,
       calls <- dCalls, disk <- dDisk
E == INSTANCE ExecutorServiceProofs WITH
       Ids <- {Id}, Calls <- ECalls, MaxStarts <- EMaxStarts,
       MaxConcurrent <- 1, MaxEmitters <- 1,
       CleanupOnInitialize <- TRUE, DiskFaults <- FALSE, CleanupFails <- FALSE,
       PeerErrors <- FALSE,
       up <- eUp, starts <- eStarts, stateMachines <- eMachines,
       eventEmitters <- emitters, calls <- eCalls, disk <- eDisk

delegator == <<dUp, dStarts, owner, toResume, delegations, dMachines, dCalls,
               dDisk, environments, snapshots, prepared>>
executor == <<eUp, eStarts, assignments, eMachines, emitters, minted, eCalls,
              eDisk, workDirs, attached, stream>>
network == <<wire, serving, answers, unread, work>>
vars == <<delegator, executor, network>>

Kinds == {"INVITE", "START", "CANCEL", "ack"}
Events == {"status", "snapshot", "done", "error", "lost"}
Nobody == "nobody"

TypeOK ==
  /\ wire \in SUBSET Kinds
  /\ serving \in [ECalls -> Kinds \cup {Nobody}]
  /\ answers \in SUBSET (Kinds \cup {"declined"})
  /\ unread \in Seq(Events)
  /\ work \in {"none", "requested", "running", "done", "failed"}

Init ==
  /\ D!Init /\ E!Init
  /\ wire = {} /\ answers = {} /\ unread = <<>> /\ work = "none"
  /\ serving = [w \in ECalls |-> Nobody]

(***************************************************************************)
(* The network.                                                            *)
(***************************************************************************)
Send(kind) == wire' = wire \cup {kind}
Receive(kind) == kind \in wire /\ wire' = wire \ {kind}
\* An answer its sender no longer waits for is not kept, but for the history
\* of a confirmed CANCEL; of a failure the sender learns no more than of a
\* timeout.
Awaited(kind) ==
  \E c \in DCalls : \/ kind \in {"INVITE", "declined"} /\ dCalls[c].pc = "invite"
                    \/ kind = "START" /\ dCalls[c].pc = "start"
                    \/ kind = "CANCEL"

\* A new call takes the first free slot: which one it is means nothing.
DSlot == {c \in DCalls : dCalls[c] = D!Idle /\ c = CHOOSE d \in DCalls : dCalls[d] = D!Idle}
ESlot == {w \in ECalls : eCalls[w] = E!Idle /\ w = CHOOSE v \in ECalls : eCalls[v] = E!Idle}

Listening(c) == dCalls[c].pc \in {"start", "consume", "receive", "persistSnapshot"}
Connected == \E c \in DCalls : Listening(c)

\* The connection of the stream is gone: what is read of it ends in an error.
Broken(events) == {Append(SubSeq(events, 1, n), "lost") : n \in 0..Len(events)}
Expected == answers' = {kind \in answers : Awaited(kind)'}
Stream(events) == unread' \in IF Connected' THEN events ELSE {<<>>}

(***************************************************************************)
(* The Delegator.                                                          *)
(***************************************************************************)
\* Steps that neither wait for the Executor nor send to it; a timeout, or
\* the answer to a request whose outcome is ignored, is one of them.
DelegatorWorks(c) ==
  \/ D!ValidationFails(c) \/ D!Validated(c)
  \/ D!EnvironmentExists(c) \/ D!BuildFails(c)
  \/ D!InviteFails(c) \/ D!DeclinePersisted(c) \/ D!TransportPrepared(c)
  \/ D!AcceptFails(c) \/ D!AcceptDetached(c)
  \/ D!UndoDetached(c) \/ D!UndoTransport(c) \/ D!UndoEnvironment(c)
  \/ D!UndoFile(c)
  \/ D!SnapshotReceived(c) \/ D!SnapshotPersisted(c) \/ D!Acknowledged(c)
  \/ D!DonePersisted(c) \/ D!DoneDetached(c) \/ D!DoneEnvironment(c)
  \/ D!EndPersisted(c)
  \/ D!CancelSent(c) \/ D!CancelDetached(c)

DelegatorAlone(c) ==
  /\ DelegatorWorks(c) /\ Stream({unread}) /\ Expected
  /\ UNCHANGED <<executor, wire, serving, work>>

Invites(c) ==
  /\ D!Built(c) /\ Send("INVITE")
  /\ UNCHANGED <<executor, serving, answers, unread, work>>

HearsAnswer(c) ==
  /\ \/ "INVITE" \in answers /\ D!InviteAccepted(c)
     \/ "declined" \in answers /\ D!InviteDeclined(c)
     \/ "START" \in answers /\ D!StartSent(c)
  /\ Expected
  /\ UNCHANGED <<executor, wire, serving, unread, work>>

\* The Executor answers the GET with the stream; START goes out only then,
\* and only if the delegation was not cancelled meanwhile.
Subscribes(c) ==
  /\ D!StreamConnected(c) /\ E!SubscribeTask(Id)
  /\ Stream({IF stream'[Id].on = 0 THEN <<stream'[Id].heard>> ELSE <<>>})
  /\ IF dCalls'[c].pc = "start"
     THEN Send("START") /\ work' = "requested"
     ELSE UNCHANGED <<wire, work>>
  /\ UNCHANGED <<serving, answers>>

\* handleTaskEvent(): a status or a snapshot that says nothing new is passed
\* over.
ReadsEvent(c) ==
  /\ D!At(c, "consume") /\ unread # <<>>
  /\ LET event == Head(unread) IN
     \/ /\ event = "status" /\ UNCHANGED wire
        /\ IF dMachines[Id] = "started" THEN D!EventStatus(c)
           ELSE UNCHANGED delegator
     \/ /\ event = "snapshot" /\ UNCHANGED wire
        /\ IF D!Known(Id) THEN D!EventSnapshot(c) ELSE UNCHANGED delegator
     \/ /\ event = "done" /\ D!EventDone(c)
        /\ IF D!Known(Id) THEN Send("ack") ELSE UNCHANGED wire
     \/ event = "error" /\ D!EventError(c) /\ UNCHANGED wire
     \/ event = "lost" /\ D!StreamBreaks(c) /\ UNCHANGED wire
  /\ Stream({Tail(unread)})
  /\ UNCHANGED <<executor, serving, answers, work>>

SendsCancel(c) ==
  /\ D!CancelPersisted(c) /\ Send("CANCEL")
  /\ UNCHANGED <<executor, serving, answers, unread, work>>

\* The caller and the process's life.  The retention sweep is left out: to the
\* Executor it is one more way to be forgotten, like the crash.
DelegatorAsked ==
  /\ \E c \in DSlot : D!Delegate(c, Id) \/ D!Cancel(c, Id)
  /\ UNCHANGED <<executor, network>>

DelegatorStops ==
  /\ D!Crash /\ Stream({unread}) /\ Expected
  /\ UNCHANGED <<executor, wire, serving, work>>

DelegatorStarts == D!Initialize /\ UNCHANGED <<executor, network>>

(***************************************************************************)
(* The Executor.                                                           *)
(***************************************************************************)
\* Whatever the Executor does: what the subscriber is sent, how the task
\* stands, and who is left to answer once the process died.
Emitted(w) ==
  LET was == stream[Id]  is == stream'[Id]
      sent == IF was.on # 0 /\ is.heard = "done"
              THEN {Append(unread, "done"), unread \o <<"snapshot", "done">>}
              ELSE IF was.on # 0 /\ is.heard = "error"
              THEN {Append(unread, "error")}
              ELSE IF eCalls'[w].pc = "execute" /\ was.on = eCalls[w].emitter
              THEN {Append(unread, "status")}
              ELSE {unread}
  IN  IF eUp' \/ (was.on = 0 /\ unread = <<>>) THEN sent
      ELSE UNION {Broken(events) : events \in sent}

Progress(w) ==
  IF eCalls'[w].pc = "execute" THEN "running"
  ELSE IF eCalls[w].pc \in {"execute", "capture"} /\ eCalls'[w].pc # "capture"
       THEN IF assignments'[Id].state = "completed" THEN "done" ELSE "failed"
  ELSE IF ~eUp' /\ work = "running" THEN "failed"
  ELSE work

\* An await settles; the call answers its request when it returns, or, for
\* START, leaves the task running.
ExecutorWorks(w) ==
  LET replies == /\ eUp' /\ serving[w] # Nobody
                 /\ eCalls'[w].pc \in {"idle", "prepare"}
      answer == IF eCalls[w].pc = "admission" THEN "declined" ELSE serving[w]
  IN
  /\ E!Settle(w)
  /\ serving' = IF ~eUp' THEN [v \in ECalls |-> Nobody]
                ELSE [serving EXCEPT ![w] = IF replies THEN Nobody ELSE @]
  /\ answers' = IF replies /\ Awaited(answer) THEN answers \cup {answer}
                ELSE answers
  /\ UNCHANGED <<delegator, wire>>
  /\ Stream(Emitted(w)) /\ work' = Progress(w)

\* A request starts its handler ...
Handles(w, kind) ==
  \/ kind = "INVITE" /\ E!HandleInvite(w, Id)
  \/ kind = "START" /\ E!HandleStart(w, Id)
  \/ kind = "CANCEL" /\ E!CancelDelegation(w, Id)

ExecutorReceives(w, kind) ==
  /\ Receive(kind) /\ Handles(w, kind)
  /\ serving' = [serving EXCEPT ![w] = kind]
  /\ UNCHANGED <<delegator, answers, work>>
  /\ Stream(Emitted(w))

\* ... or is refused: an unknown delegation, a state that does not accept it.
ExecutorRefuses(kind) ==
  /\ eUp /\ Receive(kind)
  /\ \/ kind = "START" /\ ~E!Accepts(Id, "RECEIVE_START")
     \/ kind = "CANCEL" /\ ~E!Accepts(Id, "CANCEL")
  /\ UNCHANGED <<delegator, executor, serving, answers, unread, work>>

\* The acknowledgement is answered at once; the file goes later.
ExecutorForgets ==
  /\ Receive("ack")
  /\ \/ \E w \in ESlot : E!AcknowledgeResult(w, Id)
     \/ eUp /\ ~E!Terminal(Id) /\ UNCHANGED executor
  /\ UNCHANGED <<delegator, serving, answers, unread, work>>

ExecutorSweeps ==
  /\ \E w \in ESlot : E!SweepExpired(w, Id)
  /\ UNCHANGED <<delegator, network>>

\* The connection of the stream breaks, or the Delegator closed it.
StreamCut ==
  /\ E!Unsubscribe(Id)
  /\ UNCHANGED <<delegator, wire, serving, answers, work>>
  /\ Stream(Broken(unread))

\* ... which the Delegator may see first.
StreamCutHere ==
  /\ \E c \in DCalls : D!StreamBreaks(c)
  /\ unread' = <<>>
  /\ UNCHANGED <<executor, wire, serving, answers, work>>

ExecutorStops ==
  /\ E!Crash
  /\ serving' = [w \in ECalls |-> Nobody]
  /\ work' = IF work = "running" THEN "failed" ELSE work
  /\ UNCHANGED <<delegator, wire, answers>>
  /\ Stream(IF stream[Id].on = 0 /\ unread = <<>> THEN {unread}
            ELSE Broken(unread))

ExecutorStarts == E!Initialize /\ UNCHANGED <<delegator, network>>

(***************************************************************************)
(* The specification.                                                      *)
(***************************************************************************)
DelegatorStep(c) ==
  \/ DelegatorAlone(c) \/ Invites(c) \/ HearsAnswer(c) \/ Subscribes(c)
  \/ ReadsEvent(c) \/ SendsCancel(c)

Next ==
  \/ \E c \in DCalls : DelegatorStep(c)
  \/ DelegatorAsked \/ DelegatorStops \/ DelegatorStarts
  \/ \E w \in ECalls : ExecutorWorks(w)
  \/ \E w \in ESlot, kind \in Kinds : ExecutorReceives(w, kind)
  \/ \E kind \in Kinds : ExecutorRefuses(kind)
  \/ ExecutorForgets \/ ExecutorSweeps
  \/ StreamCut \/ StreamCutHere
  \/ ExecutorStops \/ ExecutorStarts

Spec == Init /\ [][Next]_vars

\* Both event loops run their settled awaits, timers among them.  No request
\* has to be delivered and no process has to come back.
FairSpec ==
  /\ Spec
  /\ \A c \in DCalls : WF_vars(DelegatorStep(c))
  /\ \A w \in ECalls : WF_vars(ExecutorWorks(w))

(***************************************************************************)
(* Properties.                                                             *)
(***************************************************************************)
\* Both services hold their invariants in each other's company: what each
\* module assumes of its peer is what the other one does.
ServicesKeepTheirInvariants ==
  /\ TypeOK
  /\ E!ExecutorInv /\ E!ActiveHasWorker /\ E!DoneMeansCompleted
  /\ D!FailedLeavesNothing /\ D!CompletedIsReclaimed /\ D!StartedIsHeard

\* The system keeps the promise of DelegatedTask: at most one execution, only
\* after START, and "completed" only of work that was done - and a started
\* delegation does not stay started, though no request need arrive.
Building(c) == dCalls[c].pc \in {"validate", "build"}
View ==
  CASE owner[Id] = 0 \/ \E c \in DCalls : Building(c) -> "none"
    [] D!Known(Id) /\ delegations[Id] \in {"created", "invited", "accepted"} -> "offered"
    [] delegations[Id] \in {"started", "running"} -> "started"
    [] delegations[Id] = "completed" -> "completed"
    [] delegations[Id] \in {"error", "cancelled", "expired"} -> "ended"
    [] OTHER -> "gone"
Promise == INSTANCE DelegatedTask WITH view <- View
Contract == Promise!FairSpec

\* A Delegator that has read everything its stream brought waits for a task
\* that is running and will report to that stream: no terminal event is
\* emitted before the subscription, or to an emitter nobody listens to.
WaitIsJustified ==
  \A c \in DCalls : D!At(c, "consume") /\ unread = <<>> =>
    \E w \in ECalls : /\ stream[Id].on # 0 /\ stream[Id].on = eCalls[w].emitter
                     /\ eCalls[w].pc \in E!Working

\* A cancellation the Executor has confirmed is the end there: a START or an
\* INVITE that comes in late does not bring the task back.
ConfirmedCancelHolds ==
  "CANCEL" \in answers =>
    assignments[Id].state \notin {"pending", "active", "completed"}
=============================================================================
