-------------------------- MODULE DelegatorService --------------------------
(***************************************************************************)
(* The Delegator side of AWCP (sdk/src/delegator): one DelegatorService    *)
(* in its daemon, which builds an environment for a task, invites an       *)
(* Executor, starts the task, follows its event stream and reclaims what   *)
(* the delegation held.                                                    *)
(*                                                                         *)
(* As in ExecutorService an action is the code between two awaits and      *)
(* `calls' holds the suspended async functions.  The Executor and the      *)
(* network are what the awaits may return.                                 *)
(***************************************************************************)
EXTENDS Naturals, Lifecycle

CONSTANTS
  Ids,                  \* delegation ids generateDelegationId() may return
  NoId,                 \* the id of an idle call slot
  Calls,                \* slots for async functions in flight at one time
  MaxStarts,            \* bound: times the daemon may be started
  CleanupOnInitialize,  \* config.cleanupOnInitialize
  DetachReleases,       \* does transport.detach() give up what prepare() made?
  DiskFaults,           \* may writeFile reject?
  SilentEnd             \* may an event stream end without a last event?

ASSUME ConstantsAssumption ==
  /\ NoId \notin Ids
  /\ MaxStarts \in Nat
  /\ CleanupOnInitialize \in BOOLEAN /\ DetachReleases \in BOOLEAN
  /\ DiskFaults \in BOOLEAN /\ SilentEnd \in BOOLEAN

VARIABLES
  up,             \* the daemon runs
  starts,         \* how often it was started
  delegations,    \* Map id -> delegation.state ("absent": no entry)
  stateMachines,  \* Map id -> state of its DelegationStateMachine
  owner,          \* the start of the daemon that generated an id (0: none)
  toResume,       \* ids initialize() has still to resume
  calls,          \* the async functions in flight
  disk,           \* baseDir/delegations/<id>.json: the state it records
  environments,   \* ids with a directory under baseDir/environments
  snapshots,      \* ids with a directory under baseDir/snapshots
  prepared        \* ids whose transport holds something (key, repo, object)

maps == <<delegations, stateMachines>>
storage == <<disk, environments, snapshots, prepared>>
process == <<up, starts, owner, toResume>>
vars == <<process, maps, calls, storage>>

States == DelegationStates \cup {"absent"}
PersistPoints == {"persistDeclined", "persistSnapshot", "persistDone",
                  "persistError", "persistLost", "persistCancel"}
\* The awaits of delegate() up to the answer to START ...
Starting == {"resumeDetach", "validate", "build", "invite", "persistDeclined",
             "prepare", "connect", "start", "acceptDetach"}
\* ... of its catch block, and of the consumer of the event stream.
Undoing == {"undoDetach", "undoTransport", "undoEnvironment", "undoFile"}
Consuming == {"consume", "receive", "persistSnapshot", "ack"}
Pcs == {"idle", "doneDetach", "doneEnvironment", "sendCancel", "cancelDetach",
        "sweepTransport", "sweepEnvironment", "sweepSnapshots", "sweepFile"}
       \cup PersistPoints \cup Starting \cup Undoing \cup Consuming

\* A suspended async function: where it waits, for which id, whether it is a
\* delegate() with an existingId, and the state a pending save() records.
Call(pc, id, resume, content) ==
  [pc |-> pc, id |-> id, resume |-> resume, content |-> content]
Idle == Call("idle", NoId, FALSE, "absent")

TypeOK ==
  /\ up \in BOOLEAN /\ starts \in Nat /\ owner \in [Ids -> Nat]
  /\ delegations \in [Ids -> States] /\ stateMachines \in [Ids -> States]
  /\ toResume \in SUBSET Ids
  /\ calls \in [Calls -> [pc : Pcs, id : Ids \cup {NoId}, resume : BOOLEAN,
                          content : States]]
  /\ disk \in [Ids -> States]
  /\ environments \in SUBSET Ids /\ snapshots \in SUBSET Ids
  /\ prepared \in SUBSET Ids

Init ==
  /\ up = TRUE /\ starts = 1 /\ owner = [id \in Ids |-> 0]
  /\ delegations = [id \in Ids |-> "absent"]
  /\ stateMachines = [id \in Ids |-> "absent"]
  /\ toResume = {}
  /\ calls = [c \in Calls |-> Idle]
  /\ disk = [id \in Ids |-> "absent"]
  /\ environments = {} /\ snapshots = {} /\ prepared = {}

(***************************************************************************)
(* Fragments the actions share.                                            *)
(***************************************************************************)
Known(id) == delegations[id] # "absent"
Ended(id) == Known(id) /\ IsTerminalDelegation(delegations[id])
InFlight(id) == {c \in Calls : calls[c].id = id}

\* The daemon listens once initialize() is through.
Resuming == toResume # {} \/ \E c \in Calls : calls[c].resume
Serving == up /\ ~Resuming

At(c, pc) == up /\ calls[c].pc = pc
Return(c) == calls' = [calls EXCEPT ![c] = Idle]
Await(c, pc) == calls' = [calls EXCEPT ![c] = Call(pc, @.id, @.resume, "absent")]
Spawn(c, pc, id) == calls' = [calls EXCEPT ![c] = Call(pc, id, FALSE, "absent")]
\* await this.persistDelegation(id)
AwaitSave(c, pc, id) ==
  calls' = [calls EXCEPT ![c] = Call(pc, id, @.resume, delegations'[id])]

\* transitionState(): disabled when it throws.
Accepts(id, event) ==
  Known(id) /\ DelegationNext(stateMachines[id], event) # {}
Transition(id, event) ==
  /\ Known(id)
  /\ \E t \in DelegationNext(stateMachines[id], event) :
       /\ stateMachines' = [stateMachines EXCEPT ![id] = t]
       /\ delegations' = [delegations EXCEPT ![id] = t]

\* Mutant: the entry stays, marked.
ForgetMarking(id) ==
  /\ delegations' = [delegations EXCEPT ![id] = "removed"]
  /\ stateMachines' = [stateMachines EXCEPT ![id] = "absent"]

Forget(id) ==
  /\ delegations' = [delegations EXCEPT ![id] = "absent"]
  /\ stateMachines' = [stateMachines EXCEPT ![id] = "absent"]

Detach(id) == prepared' = IF DetachReleases THEN prepared \ {id} ELSE prepared

\* The file after a save(): its text is made at the call or after mkdir().
Landed(c) ==
  LET id == calls[c].id  written == calls[c].content IN
  IF written = "absent" THEN {disk}
  ELSE {[disk EXCEPT ![id] = s] :
          s \in {written} \cup (IF Known(id) THEN {delegations[id]} ELSE {})}

\* Mutants: nothing is released; a resumed delegation is undone as a new one.
UndoInMemory(c) ==
  IF calls[c].resume
  THEN Await(c, "undoDetach") /\ UNCHANGED maps
  ELSE Return(c) /\ Forget(calls[c].id)

UndoAsNew(c) == Await(c, "undoTransport") /\ Forget(calls[c].id)

\* The catch block of delegate(): a new delegation leaves the maps at once.
Undo(c) ==
  IF calls[c].resume
  THEN Await(c, "undoDetach") /\ UNCHANGED maps
  ELSE Await(c, "undoTransport") /\ Forget(calls[c].id)

\* Mutants: a lost stream is only logged; it marks an ended record too.
StreamLostLogged(c) == Return(c) /\ UNCHANGED maps

StreamLostUnchecked(c) ==
  LET id == calls[c].id IN
  /\ \/ /\ Known(id)
        /\ delegations' = [delegations EXCEPT ![id] = "error"]
        /\ AwaitSave(c, "persistLost", id)
     \/ ~Known(id) /\ Return(c) /\ UNCHANGED delegations
  /\ UNCHANGED stateMachines

\* The catch block of consumeTaskEvents(): the record is marked, its state
\* machine is not asked.
StreamLost(c) ==
  LET id == calls[c].id IN
  /\ \/ /\ Known(id) /\ ~Ended(id)
        /\ delegations' = [delegations EXCEPT ![id] = "error"]
        /\ AwaitSave(c, "persistLost", id)
     \/ (~Known(id) \/ Ended(id)) /\ Return(c) /\ UNCHANGED delegations
  /\ UNCHANGED stateMachines

(***************************************************************************)
(* delegate(): a new delegation, or one initialize() resumes.              *)
(***************************************************************************)
Delegate(c, id) ==
  /\ Serving /\ At(c, "idle") /\ owner[id] = 0
  /\ owner' = [owner EXCEPT ![id] = starts]
  /\ Spawn(c, "validate", id)
  /\ UNCHANGED <<up, starts, toResume, maps, storage>>

\* The resumptions are awaited one after the other.
Resume(c, id) ==
  /\ At(c, "idle") /\ id \in toResume /\ ~\E d \in Calls : calls[d].resume
  /\ toResume' = toResume \ {id}
  /\ calls' = [calls EXCEPT ![c] = Call("resumeDetach", id, TRUE, "absent")]
  /\ UNCHANGED <<up, starts, owner, maps, storage>>

\* A fresh state machine; the record still says what was saved.
ResumeDetached(c) ==
  /\ At(c, "resumeDetach")
  /\ Detach(calls[c].id)
  /\ stateMachines' = [stateMachines EXCEPT ![calls[c].id] = "created"]
  /\ Await(c, "validate")
  /\ UNCHANGED <<process, delegations, disk, environments, snapshots>>

\* A path is not a directory or admission refuses it: delegate() throws
\* before its try block.
ValidationFails(c) ==
  /\ At(c, "validate") /\ Return(c)
  /\ UNCHANGED <<process, maps, storage>>

Validated(c) ==
  /\ At(c, "validate") /\ Await(c, "build")
  /\ UNCHANGED <<process, maps, storage>>

\* The environment is there: the record is made, or set back, and invited.
Built(c) ==
  LET id == calls[c].id IN
  /\ At(c, "build") /\ id \notin environments
  /\ environments' = environments \cup {id}
  /\ delegations' = [delegations EXCEPT ![id] = "invited"]
  /\ stateMachines' = [stateMachines EXCEPT ![id] = "invited"]
  /\ Await(c, "invite")
  /\ UNCHANGED <<process, disk, snapshots, prepared>>

\* symlink() finds the link of an earlier build (EEXIST).
EnvironmentExists(c) ==
  /\ At(c, "build") /\ calls[c].id \in environments /\ Undo(c)
  /\ UNCHANGED <<process, storage>>

BuildFails(c) ==
  LET id == calls[c].id IN
  /\ At(c, "build") /\ id \notin environments /\ Undo(c)
  /\ environments' \in {environments, environments \cup {id}}
  /\ UNCHANGED <<process, disk, snapshots, prepared>>

\* ACCEPT, refused when the delegation was cancelled meanwhile.
InviteAccepted(c) ==
  LET id == calls[c].id IN
  /\ At(c, "invite")
  /\ \/ Transition(id, "RECEIVE_ACCEPT") /\ Await(c, "prepare")
     \/ ~Accepts(id, "RECEIVE_ACCEPT") /\ Undo(c)
  /\ UNCHANGED <<process, storage>>

\* An ERROR answer goes through handleError().
InviteDeclined(c) ==
  LET id == calls[c].id IN
  /\ At(c, "invite")
  /\ \/ Transition(id, "RECEIVE_ERROR") /\ AwaitSave(c, "persistDeclined", id)
     \/ ~Accepts(id, "RECEIVE_ERROR") /\ Undo(c)
  /\ UNCHANGED <<process, storage>>

\* No answer: a network error or the request timeout.
InviteFails(c) ==
  /\ At(c, "invite") /\ Undo(c)
  /\ UNCHANGED <<process, storage>>

DeclinePersisted(c) ==
  /\ At(c, "persistDeclined")
  /\ disk' \in Landed(c) /\ Undo(c)
  /\ UNCHANGED <<process, environments, snapshots, prepared>>

TransportPrepared(c) ==
  /\ At(c, "prepare") /\ Await(c, "connect")
  /\ prepared' = prepared \cup {calls[c].id}
  /\ UNCHANGED <<process, maps, disk, environments, snapshots>>

\* The stream is open: START is sent, unless the delegation was cancelled.
StreamConnected(c) ==
  LET id == calls[c].id IN
  /\ At(c, "connect")
  /\ \/ Transition(id, "SEND_START") /\ Await(c, "start")
     \/ ~Accepts(id, "SEND_START") /\ Await(c, "acceptDetach") /\ UNCHANGED maps
  /\ UNCHANGED <<process, storage>>

\* delegate() returns; the consumer of the stream runs on by itself.
StartSent(c) ==
  /\ At(c, "start") /\ Spawn(c, "consume", calls[c].id)
  /\ UNCHANGED <<process, maps, storage>>

\* prepare(), the connection after its retries, or START failed.
AcceptFails(c) ==
  /\ up /\ calls[c].pc \in {"prepare", "connect", "start"}
  /\ Await(c, "acceptDetach")
  /\ UNCHANGED <<process, maps, storage>>

AcceptDetached(c) ==
  /\ At(c, "acceptDetach") /\ Detach(calls[c].id) /\ Undo(c)
  /\ UNCHANGED <<process, disk, environments, snapshots>>

UndoDetached(c) ==
  /\ At(c, "undoDetach") /\ Await(c, "undoEnvironment")
  /\ Detach(calls[c].id)
  /\ UNCHANGED <<process, maps, disk, environments, snapshots>>

UndoTransport(c) ==
  /\ At(c, "undoTransport") /\ Await(c, "undoEnvironment")
  /\ prepared' = prepared \ {calls[c].id}
  /\ UNCHANGED <<process, maps, disk, environments, snapshots>>

UndoEnvironment(c) ==
  /\ At(c, "undoEnvironment")
  /\ IF calls[c].resume THEN Return(c) ELSE Await(c, "undoFile")
  /\ environments' = environments \ {calls[c].id}
  /\ UNCHANGED <<process, maps, disk, snapshots, prepared>>

UndoFile(c) ==
  /\ At(c, "undoFile") /\ Return(c)
  /\ disk' = [disk EXCEPT ![calls[c].id] = "absent"]
  /\ UNCHANGED <<process, maps, environments, snapshots, prepared>>

(***************************************************************************)
(* consumeTaskEvents(): one event at a time, each handled to its end.      *)
(***************************************************************************)
EventStatus(c) ==
  /\ At(c, "consume") /\ stateMachines[calls[c].id] = "started"
  /\ Transition(calls[c].id, "SETUP_COMPLETE")
  /\ UNCHANGED <<process, calls, storage>>

\* A snapshot is applied or stored, then its delegation saved.
EventSnapshot(c) ==
  /\ At(c, "consume") /\ Known(calls[c].id) /\ Await(c, "receive")
  /\ UNCHANGED <<process, maps, storage>>

SnapshotReceived(c) ==
  LET id == calls[c].id IN
  /\ At(c, "receive")
  /\ snapshots' \in {snapshots, snapshots \cup {id}}
  /\ UNCHANGED maps /\ AwaitSave(c, "persistSnapshot", id)
  /\ UNCHANGED <<process, disk, environments, prepared>>

ReceiveFails(c) ==
  /\ DiskFaults /\ At(c, "receive") /\ StreamLost(c)
  /\ UNCHANGED <<process, storage>>

SnapshotPersisted(c) ==
  /\ At(c, "persistSnapshot")
  /\ disk' \in Landed(c) /\ Await(c, "consume")
  /\ UNCHANGED <<process, maps, environments, snapshots, prepared>>

\* The result is acknowledged first: the Executor forgets it.
EventDone(c) ==
  /\ At(c, "consume")
  /\ IF Known(calls[c].id) THEN Await(c, "ack") ELSE Return(c)
  /\ UNCHANGED <<process, maps, storage>>

\* handleDone(), which makes up for a missing status event.
Acknowledged(c) ==
  LET id == calls[c].id IN
  /\ At(c, "ack")
  /\ \/ /\ Known(id) /\ stateMachines[id] \in {"started", "running"}
        /\ delegations' = [delegations EXCEPT ![id] = "completed"]
        /\ stateMachines' = [stateMachines EXCEPT ![id] = "completed"]
        /\ AwaitSave(c, "persistDone", id)
     \/ /\ ~(Known(id) /\ stateMachines[id] \in {"started", "running"})
        /\ StreamLost(c)
  /\ UNCHANGED <<process, storage>>

DonePersisted(c) ==
  /\ At(c, "persistDone")
  /\ disk' \in Landed(c) /\ Await(c, "doneDetach")
  /\ UNCHANGED <<process, maps, environments, snapshots, prepared>>

\* Mutant: the environment is not released.
DoneDetachedLast(c) ==
  /\ At(c, "doneDetach") /\ Detach(calls[c].id) /\ Return(c)
  /\ UNCHANGED <<process, maps, disk, environments, snapshots>>

DoneDetached(c) ==
  /\ At(c, "doneDetach") /\ Detach(calls[c].id) /\ Await(c, "doneEnvironment")
  /\ UNCHANGED <<process, maps, disk, environments, snapshots>>

DoneEnvironment(c) ==
  /\ At(c, "doneEnvironment") /\ Return(c)
  /\ environments' = environments \ {calls[c].id}
  /\ UNCHANGED <<process, maps, disk, snapshots, prepared>>

EventError(c) ==
  LET id == calls[c].id IN
  /\ At(c, "consume")
  /\ \/ Transition(id, "RECEIVE_ERROR") /\ AwaitSave(c, "persistError", id)
     \/ ~Known(id) /\ Return(c) /\ UNCHANGED maps
     \/ Known(id) /\ ~Accepts(id, "RECEIVE_ERROR") /\ StreamLost(c)
  /\ UNCHANGED <<process, storage>>

StreamBreaks(c) ==
  /\ At(c, "consume") /\ StreamLost(c)
  /\ UNCHANGED <<process, storage>>

\* The peer closes the connection in order: the loop just ends.
StreamEnds(c) ==
  /\ SilentEnd /\ At(c, "consume") /\ Return(c)
  /\ UNCHANGED <<process, maps, storage>>

EndPersisted(c) ==
  /\ up /\ calls[c].pc \in {"persistError", "persistLost"}
  /\ disk' \in Landed(c) /\ Return(c)
  /\ UNCHANGED <<process, maps, environments, snapshots, prepared>>

(***************************************************************************)
(* cancel().                                                               *)
(***************************************************************************)
Cancel(c, id) ==
  /\ Serving /\ At(c, "idle")
  /\ Transition(id, "CANCEL") /\ AwaitSave(c, "persistCancel", id)
  /\ UNCHANGED <<process, storage>>

CancelPersisted(c) ==
  /\ At(c, "persistCancel")
  /\ disk' \in Landed(c) /\ Await(c, "sendCancel")
  /\ UNCHANGED <<process, maps, environments, snapshots, prepared>>

\* Whatever the Executor answers.
CancelSent(c) ==
  /\ At(c, "sendCancel") /\ Await(c, "cancelDetach")
  /\ UNCHANGED <<process, maps, storage>>

CancelDetached(c) ==
  /\ At(c, "cancelDetach") /\ Detach(calls[c].id) /\ Return(c)
  /\ UNCHANGED <<process, maps, disk, environments, snapshots>>

(***************************************************************************)
(* writeFile() rejects under a pending save().                             *)
(***************************************************************************)
PersistFails(c) ==
  /\ DiskFaults /\ up /\ calls[c].pc \in PersistPoints
  /\ \/ calls[c].pc = "persistDeclined" /\ Undo(c)
     \/ calls[c].pc \in {"persistSnapshot", "persistDone", "persistError"}
        /\ StreamLost(c)
     \/ calls[c].pc \in {"persistLost", "persistCancel"}
        /\ Return(c) /\ UNCHANGED maps
  /\ UNCHANGED <<process, storage>>

(***************************************************************************)
(* The retention sweep goes by the record's state, and forgets whatever    *)
(* became of the delegation over its four awaits.                          *)
(***************************************************************************)
SweepExpired(c, id) ==
  /\ At(c, "idle") /\ Ended(id) /\ Spawn(c, "sweepTransport", id)
  /\ UNCHANGED <<process, maps, storage>>

SweepTransport(c) ==
  /\ At(c, "sweepTransport") /\ Await(c, "sweepEnvironment")
  /\ prepared' = prepared \ {calls[c].id}
  /\ UNCHANGED <<process, maps, disk, environments, snapshots>>

SweepEnvironment(c) ==
  /\ At(c, "sweepEnvironment") /\ Await(c, "sweepSnapshots")
  /\ environments' = environments \ {calls[c].id}
  /\ UNCHANGED <<process, maps, disk, snapshots, prepared>>

SweepSnapshots(c) ==
  /\ At(c, "sweepSnapshots") /\ Await(c, "sweepFile")
  /\ snapshots' = snapshots \ {calls[c].id}
  /\ UNCHANGED <<process, maps, disk, environments, prepared>>

SweepFile(c) ==
  /\ At(c, "sweepFile") /\ Return(c) /\ Forget(calls[c].id)
  /\ disk' = [disk EXCEPT ![calls[c].id] = "absent"]
  /\ UNCHANGED <<process, environments, snapshots, prepared>>

(***************************************************************************)
(* Process life.                                                           *)
(***************************************************************************)
Crash ==
  /\ up /\ up' = FALSE
  /\ delegations' = [id \in Ids |-> "absent"]
  /\ stateMachines' = [id \in Ids |-> "absent"]
  /\ calls' = [c \in Calls |-> Idle]
  /\ toResume' = {}
  /\ UNCHANGED <<starts, owner, storage>>

Saved == {id \in Ids : disk[id] # "absent"}

\* initialize() up to its resumptions.
Initialize ==
  /\ ~up /\ starts < MaxStarts
  /\ up' = TRUE /\ starts' = starts + 1
  /\ IF CleanupOnInitialize
     THEN /\ prepared' = prepared \ Saved
          /\ environments' = environments \ Saved
          /\ snapshots' = snapshots \ Saved
          /\ disk' = [id \in Ids |-> "absent"]
          /\ UNCHANGED <<maps, toResume>>
     ELSE /\ environments' = environments \cap Saved
          /\ snapshots' = snapshots \cap Saved
          /\ delegations' = disk /\ stateMachines' = disk
          /\ toResume' = {id \in Saved : ~IsTerminalDelegation(disk[id])}
          /\ UNCHANGED <<disk, prepared>>
  /\ UNCHANGED <<owner, calls>>

(***************************************************************************)
(* The specification.                                                      *)
(***************************************************************************)
Request(c, id) ==
  Delegate(c, id) \/ Cancel(c, id) \/ SweepExpired(c, id)

\* An await of delegate() settles.
Start(c) ==
  \/ ResumeDetached(c) \/ ValidationFails(c) \/ Validated(c)
  \/ Built(c) \/ EnvironmentExists(c) \/ BuildFails(c)
  \/ InviteAccepted(c) \/ InviteDeclined(c) \/ InviteFails(c)
  \/ DeclinePersisted(c) \/ TransportPrepared(c) \/ StreamConnected(c)
  \/ StartSent(c) \/ AcceptFails(c) \/ AcceptDetached(c)
  \/ UndoDetached(c) \/ UndoTransport(c) \/ UndoEnvironment(c) \/ UndoFile(c)

\* The event stream brings its last event, or breaks; a save() and what
\* follows it settle.
Consume(c) ==
  \/ SnapshotReceived(c) \/ ReceiveFails(c) \/ SnapshotPersisted(c)
  \/ EventDone(c) \/ Acknowledged(c) \/ DonePersisted(c) \/ DoneDetached(c)
  \/ DoneEnvironment(c) \/ EventError(c) \/ StreamBreaks(c) \/ EndPersisted(c)

Reclaim(c) ==
  \/ CancelPersisted(c) \/ CancelSent(c) \/ CancelDetached(c)
  \/ PersistFails(c)
  \/ SweepTransport(c) \/ SweepEnvironment(c) \/ SweepSnapshots(c)
  \/ SweepFile(c)

Next ==
  \/ \E c \in Calls, id \in Ids : Request(c, id) \/ Resume(c, id)
  \/ \E c \in Calls : Start(c) \/ Consume(c) \/ Reclaim(c)
  \/ \E c \in Calls : EventStatus(c) \/ EventSnapshot(c) \/ StreamEnds(c)
  \/ Crash
  \/ Initialize

Spec == Init /\ [][Next]_vars

LastEvent(c) == EventDone(c) \/ EventError(c) \/ StreamBreaks(c)

\* Every await settles; a stream brings its last event or breaks, after any
\* number of snapshots but not an endless one.  Nobody has to make a request.
FairSpec ==
  /\ Spec
  /\ \A c \in Calls : /\ WF_vars(Start(c)) /\ WF_vars(Consume(c))
                      /\ WF_vars(Reclaim(c)) /\ SF_vars(LastEvent(c))

(***************************************************************************)
(* Properties.                                                             *)
(***************************************************************************)
\* A delegate() that threw leaves nothing of the delegation it generated: no
\* entry, no environment directory, nothing held by the transport - whatever
\* was cancelled, swept or half done when it threw.  The removals of the undo
\* are taken to succeed: the code ignores their failures (service.ts:263).
FailedLeavesNothing ==
  \A id \in Ids :
    up /\ owner[id] = starts /\ ~Known(id) /\ InFlight(id) = {} =>
      stateMachines[id] = "absent" /\ id \notin environments \cup prepared

\* A delegation completed by this run of the daemon is on disk as completed,
\* and has given back its environment and whatever detach() gives back, once
\* nothing is in flight.
CompletedIsReclaimed ==
  \A id \in Ids : delegations[id] = "completed" /\ InFlight(id) = {}
                    /\ owner[id] = starts =>
    /\ disk[id] = "completed" /\ id \notin environments
    /\ DetachReleases => id \notin prepared

\* A delegation whose START was sent is being listened for, or undone: the
\* START or the consumer of its stream is in flight.  One without never ends.
Listening(c) == calls[c].pc \in Consuming \cup {"start", "acceptDetach"}
StartedIsHeard ==
  \A id \in Ids : delegations[id] \in {"started", "running"} =>
    \E c \in InFlight(id) : Listening(c)

\* Once its state machine has ended, a delegation keeps its state until it is
\* forgotten: no late event, lost stream or cancellation moves it.
MachineEndIsFinal ==
  [][\A id \in Ids : Known(id) /\ IsTerminalDelegation(stateMachines[id]) =>
       delegations'[id] \in {delegations[id], "absent"}]_vars

\* A failed resumption costs nothing: until it has ended, a delegation loaded
\* by initialize() keeps its entry and its file.
LoadedIsKept ==
  [][\A id \in Ids : Known(id) /\ owner[id] # starts /\ ~Ended(id) =>
       ~up' \/ (delegations'[id] # "absent" /\ disk'[id] # "absent")]_vars

\* A started delegation ends or is forgotten.
StartedEnds ==
  \A id \in Ids : delegations[id] \in {"started", "running"} ~>
                    delegations[id] \notin {"started", "running"}
=============================================================================
