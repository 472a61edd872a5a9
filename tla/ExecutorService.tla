--------------------------- MODULE ExecutorService ---------------------------
(***************************************************************************)
(* The Executor side of AWCP (sdk/src/executor): one ExecutorService       *)
(* process that admits INVITEs, runs the delegated tasks, streams their    *)
(* events to a subscriber and reclaims finished assignments.               *)
(*                                                                         *)
(* JavaScript runs one synchronous segment at a time: an action is the     *)
(* code between two awaits, and `calls' holds the suspended async          *)
(* functions, each with the await it is parked at (pc) and the local       *)
(* variables that outlive the await.  The process is the only writer of    *)
(* the maps; a file written by save() lands when the await settles.        *)
(***************************************************************************)
EXTENDS Naturals, FiniteSets, Lifecycle

CONSTANTS
  Ids,                  \* delegation ids
  NoId,                 \* the id of an idle call slot
  Calls,                \* slots for async functions in flight at one time
  MaxConcurrent,        \* admission.maxConcurrentDelegations
  MaxEmitters,          \* bound: emitters an id may be given over its life
  MaxStarts,            \* bound: times the process may be started
  CleanupOnInitialize,  \* config.cleanupOnInitialize
  DiskFaults,           \* may writeFile reject?
  CleanupFails,         \* may a detach, a release or a removal fail?
  PeerErrors            \* may the peer send an ERROR message?

ASSUME ConstantsAssumption ==
  /\ NoId \notin Ids
  /\ MaxConcurrent \in Nat /\ MaxEmitters \in Nat /\ MaxStarts \in Nat
  /\ CleanupOnInitialize \in BOOLEAN
  /\ DiskFaults \in BOOLEAN /\ CleanupFails \in BOOLEAN
  /\ PeerErrors \in BOOLEAN

VARIABLES
  up,             \* the process runs
  starts,         \* how often it was started
  assignments,    \* Map id -> Assignment (the record NoRecord: no entry)
  stateMachines,  \* Map id -> state of its AssignmentStateMachine
  eventEmitters,  \* Map id -> identity of its EventEmitter (0: no entry)
  minted,         \* emitters created for an id so far: the next identity
  calls,          \* the async functions in flight
  disk,           \* workDir/.awcp/assignments/<id>.json
  workDirs,       \* ids whose directory exists under workDir
  attached,       \* per id, whether its transport is set up (mount, clone)
  stream          \* the Delegator's SSE subscription, per id

maps == <<assignments, stateMachines, eventEmitters>>
storage == <<disk, workDirs, attached>>
process == <<up, starts>>
vars == <<process, maps, minted, calls, storage, stream>>

(***************************************************************************)
(* Records.  born identifies the Assignment object: the emitter made with  *)
(* it.  result is the emitter of the task whose result it holds (0: none). *)
(***************************************************************************)
Assignment(state, born, result) ==
  [state |-> state, born |-> born, result |-> result]
NoRecord == Assignment("absent", 0, 0)
Records == [state : AssignmentStates \cup {"absent"}, born : Nat, result : Nat]

PersistPoints ==
  {"persistInvite", "persistReinvite", "persistStart", "persistDone",
   "persistFailure", "persistCancel", "persistError"}
Working == {"prepare", "setup", "execute", "capture"}
Pcs == {"idle", "admission", "discard", "redetach", "detach", "detachCancel",
        "unlink", "sweepTransport", "sweepWorkspace", "sweepFile"}
       \cup PersistPoints \cup Working

\* A suspended async function: where it waits, for which id, the emitter and
\* the Assignment object it captured, and the record a pending save() holds.
Call(pc, id, emitter, born, content) ==
  [pc |-> pc, id |-> id, emitter |-> emitter, born |-> born, content |-> content]
Idle == Call("idle", NoId, 0, 0, NoRecord)
Contexts == [pc : Pcs, id : Ids \cup {NoId}, emitter : Nat, born : Nat,
             content : Records]

\* A subscription: the emitter it listens to (0: none) and its last event.
NoStream == [on |-> 0, heard |-> "nothing"]
Streams == [on : Nat, heard : {"nothing", "done", "error", "lost"}]

\* "kept": detach() or release() was called since setup(), and rejected or
\* resolved although the mount or the clone is still there.
Attachments == {"no", "yes", "kept"}

TypeOK ==
  /\ up \in BOOLEAN /\ starts \in Nat
  /\ assignments \in [Ids -> Records]
  /\ stateMachines \in [Ids -> AssignmentStates \cup {"absent"}]
  /\ eventEmitters \in [Ids -> Nat] /\ minted \in [Ids -> Nat]
  /\ calls \in [Calls -> Contexts]
  /\ disk \in [Ids -> Records]
  /\ workDirs \in SUBSET Ids /\ attached \in [Ids -> Attachments]
  /\ stream \in [Ids -> Streams]

Init ==
  /\ up = TRUE /\ starts = 1
  /\ assignments = [id \in Ids |-> NoRecord]
  /\ stateMachines = [id \in Ids |-> "absent"]
  /\ eventEmitters = [id \in Ids |-> 0] /\ minted = [id \in Ids |-> 0]
  /\ calls = [c \in Calls |-> Idle]
  /\ disk = [id \in Ids |-> NoRecord]
  /\ workDirs = {} /\ attached = [id \in Ids |-> "no"]
  /\ stream = [id \in Ids |-> NoStream]

(***************************************************************************)
(* Fragments the actions share.                                            *)
(***************************************************************************)
Known(id) == assignments[id].state # "absent"
Terminal(id) == Known(id) /\ IsTerminalAssignment(stateMachines[id])
Active == {id \in Ids : assignments[id].state = "active"}
InFlight(id) == {c \in Calls : calls[c].id = id}
Inviting(id) == {c \in InFlight(id) : calls[c].pc \in
                   {"admission", "persistInvite", "discard",
                    "redetach", "persistReinvite"}}

At(c, pc) == up /\ calls[c].pc = pc
Return(c) == calls' = [calls EXCEPT ![c] = Idle]
Await(c, pc) ==
  calls' = [calls EXCEPT ![c] = Call(pc, @.id, @.emitter, @.born, @.content)]
Spawn(c, pc, id) ==
  calls' = [calls EXCEPT ![c] = Call(pc, id, 0, assignments[id].born, NoRecord)]
\* await this.persistAssignment(id): save() of the object now in the map.
AwaitSave(c, pc, id) ==
  calls' = [calls EXCEPT ![c] = Call(pc, id, @.emitter, @.born, assignments'[id])]

\* The state machine step event causes, for an id the maps know; disabled
\* when transitionState() throws.
Accepts(id, event) ==
  Known(id) /\ AssignmentNext(stateMachines[id], event) # {}
Transition(id, event, result) ==
  \E t \in AssignmentNext(stateMachines[id], event) :
    /\ stateMachines' = [stateMachines EXCEPT ![id] = t]
    /\ assignments' = [assignments EXCEPT ![id] = Assignment(t, @.born, result)]

\* emitter.emit('event', ...) for a terminal event: the subscriber attached
\* to that emitter hears it, and the listener ends its stream.
Emit(id, emitter, kind) ==
  stream' = IF emitter # 0 /\ stream[id].on = emitter
            THEN [stream EXCEPT ![id] = [on |-> 0, heard |-> kind]]
            ELSE stream

Forget(id) ==
  /\ assignments' = [assignments EXCEPT ![id] = NoRecord]
  /\ stateMachines' = [stateMachines EXCEPT ![id] = "absent"]
  /\ eventEmitters' = [eventEmitters EXCEPT ![id] = 0]

\* A new Map entry for id: a fresh pending machine and a fresh emitter.
Register(id, assignment) ==
  /\ minted' = [minted EXCEPT ![id] = @ + 1]
  /\ assignments' = [assignments EXCEPT ![id] = assignment]
  /\ stateMachines' = [stateMachines EXCEPT ![id] = "pending"]
  /\ eventEmitters' = [eventEmitters EXCEPT ![id] = minted[id] + 1]

\* detach() and release(): the code goes on whatever becomes of them ...
AfterRelease(id) ==
  IF CleanupFails /\ attached[id] # "no" THEN {"no", "kept"} ELSE {"no"}
LetGo(id) ==
  \E left \in AfterRelease(id) : attached' = [attached EXCEPT ![id] = left]

\* ... and so it does after the rm() of a directory or of a file.
RemoveDir(id) ==
  \/ workDirs' = workDirs \ {id}
  \/ CleanupFails /\ UNCHANGED workDirs
RemoveFile(id) ==
  \/ disk' = [disk EXCEPT ![id] = NoRecord]
  \/ CleanupFails /\ UNCHANGED disk

\* The process ends, by a crash or by an unhandled rejection: memory, calls
\* and connections are gone.  last[id] is what id's stream got before.
Die(last) ==
  /\ up' = FALSE
  /\ assignments' = [id \in Ids |-> NoRecord]
  /\ stateMachines' = [id \in Ids |-> "absent"]
  /\ eventEmitters' = [id \in Ids |-> 0]
  /\ calls' = [c \in Calls |-> Idle]
  /\ stream' = [id \in Ids |-> IF last[id].on = 0 THEN last[id]
                               ELSE [on |-> 0, heard |-> "lost"]]
  /\ UNCHANGED <<starts, minted>>

\* The file after a save(): its text was made at the call or later, from the
\* same object.  A record that had left the map was never saved.
Landed(c) ==
  LET id == calls[c].id  written == calls[c].content IN
  IF written = NoRecord THEN {disk}
  ELSE {[disk EXCEPT ![id] = r] : r \in {written} \cup
          (IF assignments[id].born = written.born THEN {assignments[id]} ELSE {})}

(***************************************************************************)
(* INVITE.                                                                 *)
(***************************************************************************)
\* The INVITEs of one id do not overlap: the Delegator awaits each answer.
HandleInvite(c, id) ==
  /\ At(c, "idle") /\ Inviting(id) = {} /\ minted[id] < MaxEmitters
  /\ \/ Known(id) /\ Spawn(c, "redetach", id)
     \/ /\ ~Known(id) /\ Cardinality(Active) < MaxConcurrent
        /\ Spawn(c, "admission", id)
  /\ stream' = [stream EXCEPT ![id] = NoStream]
  /\ UNCHANGED <<process, maps, minted, storage>>

\* checkDependency() or onAdmissionCheck() threw: the INVITE is declined.
AdmissionRefused(c) ==
  /\ At(c, "admission") /\ Return(c)
  /\ UNCHANGED <<process, maps, minted, storage, stream>>

AdmissionPassed(c) ==
  LET id == calls[c].id IN
  /\ At(c, "admission")
  /\ Register(id, Assignment("pending", minted[id] + 1, 0))
  /\ AwaitSave(c, "persistInvite", id)
  /\ UNCHANGED <<process, storage, stream>>

InviteDiscarded(c) ==
  LET id == calls[c].id IN
  /\ At(c, "discard") /\ Return(c)
  /\ RemoveDir(id) /\ RemoveFile(id)
  /\ UNCHANGED <<process, maps, minted, attached, stream>>

\* Mutant: the object keeps its state.
ReopenedUnchanged(r) == r

Reopened(r) == Assignment("pending", r.born, r.result)

\* The existing Assignment object is reset in place; its old task runs on.
Redetached(c) ==
  LET id == calls[c].id IN
  /\ At(c, "redetach")
  /\ LetGo(id)
  /\ Register(id, IF Known(id) /\ assignments[id].born = calls[c].born
                  THEN Reopened(assignments[id])
                  ELSE assignments[id])
  /\ AwaitSave(c, "persistReinvite", id)
  /\ UNCHANGED <<process, disk, workDirs, stream>>

(***************************************************************************)
(* START, and the task it leaves running.                                  *)
(***************************************************************************)
\* Mutant: START is taken in any state.
HandleStartUnchecked(c, id) ==
  /\ At(c, "idle") /\ Known(id)
  /\ \A d \in Inviting(id) : calls[d].pc # "persistInvite"
  /\ stateMachines' = [stateMachines EXCEPT ![id] = "active"]
  /\ assignments' = [assignments EXCEPT ![id] = Assignment("active", @.born, @.result)]
  /\ AwaitSave(c, "persistStart", id)
  /\ UNCHANGED <<process, eventEmitters, minted, storage, stream>>

\* START follows the ACCEPT of the first INVITE.
HandleStart(c, id) ==
  /\ At(c, "idle") /\ Accepts(id, "RECEIVE_START")
  /\ \A d \in Inviting(id) : calls[d].pc # "persistInvite"
  /\ Transition(id, "RECEIVE_START", assignments[id].result)
  /\ AwaitSave(c, "persistStart", id)
  /\ UNCHANGED <<process, eventEmitters, minted, storage, stream>>

\* START is answered and executeTask() reads the maps again: without an
\* entry it throws outside any handler.
StartPersisted(c) ==
  LET id == calls[c].id IN
  /\ At(c, "persistStart")
  /\ disk' \in Landed(c)
  /\ \/ /\ Known(id)
        /\ calls' = [calls EXCEPT ![c] =
             Call("prepare", id, eventEmitters[id], assignments[id].born, NoRecord)]
        /\ UNCHANGED <<process, maps, minted, stream>>
     \/ ~Known(id) /\ Die(stream)
  /\ UNCHANGED <<workDirs, attached>>

Prepared(c) ==
  /\ At(c, "prepare") /\ Await(c, "setup")
  /\ workDirs' = workDirs \cup {calls[c].id}
  /\ UNCHANGED <<process, maps, minted, disk, attached, stream>>

SetUp(c) ==
  /\ At(c, "setup") /\ Await(c, "execute")
  /\ attached' = [attached EXCEPT ![calls[c].id] = "yes"]
  /\ UNCHANGED <<process, maps, minted, disk, workDirs, stream>>

\* Mutant: 'done' is emitted before the snapshot is captured.
ExecutedAnnouncing(c) ==
  /\ At(c, "execute") /\ Await(c, "capture")
  /\ Emit(calls[c].id, calls[c].emitter, "done")
  /\ UNCHANGED <<process, maps, minted, storage>>

Executed(c) ==
  /\ At(c, "execute") /\ Await(c, "capture")
  /\ UNCHANGED <<process, maps, minted, storage, stream>>

\* The record the task's own object has a result in: the map's, if it is it.
ResultOf(c) ==
  LET assignment == assignments[calls[c].id] IN
  IF assignment.born = calls[c].born THEN calls[c].emitter ELSE assignment.result

\* 'done' is emitted first, then the transition.  If that throws, the catch
\* emits 'error' and its own transition throws: an unhandled rejection.
Captured(c) ==
  LET id == calls[c].id IN
  /\ At(c, "capture")
  /\ \/ /\ Accepts(id, "TASK_COMPLETE")
        /\ Emit(id, calls[c].emitter, "done")
        /\ Transition(id, "TASK_COMPLETE", ResultOf(c))
        /\ AwaitSave(c, "persistDone", id)
        /\ UNCHANGED <<process, eventEmitters, minted>>
     \/ /\ ~Accepts(id, "TASK_COMPLETE")
        /\ LET heard == IF stream[id].on = calls[c].emitter THEN "done" ELSE "lost"
           IN  Die([stream EXCEPT ![id] = IF @.on = 0 THEN @
                                          ELSE [on |-> 0, heard |-> heard]])
  /\ UNCHANGED storage

\* Mutants: the catch block only reports, or only records.
CatchReporting(c) ==
  /\ Emit(calls[c].id, calls[c].emitter, "error") /\ Await(c, "detach")
  /\ UNCHANGED <<process, maps, minted>>

CatchRecording(c) ==
  LET id == calls[c].id IN
  \/ /\ Accepts(id, "TASK_FAIL")
     /\ Transition(id, "TASK_FAIL", assignments[id].result)
     /\ AwaitSave(c, "persistFailure", id)
     /\ UNCHANGED <<process, eventEmitters, minted, stream>>
  \/ ~Accepts(id, "TASK_FAIL") /\ Die(stream)

\* The catch block of executeTask().
Catch(c) ==
  LET id == calls[c].id IN
  \/ /\ Accepts(id, "TASK_FAIL")
     /\ Emit(id, calls[c].emitter, "error")
     /\ Transition(id, "TASK_FAIL", assignments[id].result)
     /\ AwaitSave(c, "persistFailure", id)
     /\ UNCHANGED <<process, eventEmitters, minted>>
  \/ /\ ~Accepts(id, "TASK_FAIL")
     /\ LET heard == IF stream[id].on = calls[c].emitter THEN "error" ELSE "lost"
        IN  Die([stream EXCEPT ![id] = IF @.on = 0 THEN @
                                       ELSE [on |-> 0, heard |-> heard]])

\* prepare(), setup(), execute() or captureSnapshot() rejected.
TaskFails(c) ==
  /\ up /\ calls[c].pc \in Working /\ Catch(c)
  /\ UNCHANGED storage

\* Mutants: the save is missing, or the detach after it.
TaskUnsaved(c) ==
  /\ up /\ calls[c].pc \in {"persistDone", "persistFailure"}
  /\ Await(c, "detach")
  /\ UNCHANGED <<process, maps, minted, storage, stream>>

TaskLeftAttached(c) ==
  /\ up /\ calls[c].pc \in {"persistDone", "persistFailure"}
  /\ disk' \in Landed(c) /\ Return(c)
  /\ UNCHANGED <<process, maps, minted, workDirs, attached, stream>>

TaskPersisted(c) ==
  /\ up /\ calls[c].pc \in {"persistDone", "persistFailure"}
  /\ disk' \in Landed(c) /\ Await(c, "detach")
  /\ UNCHANGED <<process, maps, minted, workDirs, attached, stream>>

\* transport.detach() at the end of a task or of a cancellation.
Detached(c) ==
  /\ up /\ calls[c].pc \in {"detach", "detachCancel"} /\ Return(c)
  /\ LetGo(calls[c].id)
  /\ UNCHANGED <<process, maps, minted, disk, workDirs, stream>>

(***************************************************************************)
(* Cancel, ERROR, subscribe, acknowledge.                                  *)
(***************************************************************************)
CancelDelegation(c, id) ==
  /\ At(c, "idle") /\ Accepts(id, "CANCEL")
  /\ Transition(id, "CANCEL", assignments[id].result)
  /\ Emit(id, eventEmitters[id], "error")
  /\ AwaitSave(c, "persistCancel", id)
  /\ UNCHANGED <<process, eventEmitters, minted, storage>>

CancelPersisted(c) ==
  /\ At(c, "persistCancel")
  /\ disk' \in Landed(c) /\ Await(c, "detachCancel")
  /\ UNCHANGED <<process, maps, minted, workDirs, attached, stream>>

\* Mutant: the record is marked, its state machine is not asked.
HandleErrorUnchecked(c, id) ==
  /\ PeerErrors /\ At(c, "idle") /\ Known(id)
  /\ assignments' = [assignments EXCEPT ![id] = Assignment("error", @.born, @.result)]
  /\ AwaitSave(c, "persistError", id)
  /\ UNCHANGED <<process, stateMachines, eventEmitters, minted, storage, stream>>

\* An ERROR message ends the assignment without an event to the subscriber.
HandleError(c, id) ==
  /\ PeerErrors /\ At(c, "idle") /\ Accepts(id, "RECEIVE_ERROR")
  /\ Transition(id, "RECEIVE_ERROR", assignments[id].result)
  /\ AwaitSave(c, "persistError", id)
  /\ UNCHANGED <<process, eventEmitters, minted, storage, stream>>

\* The saves after which the handler only answers its request.
AnswerPersisted(c) ==
  /\ up /\ calls[c].pc \in {"persistInvite", "persistReinvite", "persistError"}
  /\ disk' \in Landed(c) /\ Return(c)
  /\ UNCHANGED <<process, maps, minted, workDirs, attached, stream>>

\* writeFile() rejects: a new INVITE is undone, another handler answers 500,
\* a finished task falls into its catch block, a failed one rejects.
PersistFails(c) ==
  LET id == calls[c].id IN
  /\ DiskFaults /\ up /\ calls[c].pc \in PersistPoints
  /\ \/ /\ calls[c].pc = "persistInvite" /\ Forget(id) /\ Await(c, "discard")
        /\ UNCHANGED <<process, minted, stream>>
     \/ /\ calls[c].pc \in {"persistReinvite", "persistStart",
                            "persistCancel", "persistError"}
        /\ Return(c) /\ UNCHANGED <<process, maps, minted, stream>>
     \/ calls[c].pc = "persistDone" /\ Catch(c)
     \/ calls[c].pc = "persistFailure" /\ Die(stream)
  /\ UNCHANGED storage

GetTaskResult(id) ==
  IF ~Known(id) THEN "not_found"
  ELSE IF ~IsTerminalAssignment(stateMachines[id]) THEN "running"
  ELSE assignments[id].state

\* GET /tasks/:id/events: an unknown id and a finished one are answered at
\* once, a finished one by replaying its last event.  The Delegator asks
\* after the ACCEPT of its INVITE.
SubscribeTask(id) ==
  /\ up /\ stream[id] = NoStream /\ Inviting(id) = {}
  /\ stream' = [stream EXCEPT ![id] =
       IF GetTaskResult(id) = "running"
       THEN [on |-> eventEmitters[id], heard |-> "nothing"]
       ELSE [on |-> 0, heard |-> IF GetTaskResult(id) = "completed"
                                 THEN "done" ELSE "error"]]
  /\ UNCHANGED <<process, maps, minted, calls, storage>>

\* The connection of a stream closes: req.on('close') calls unsubscribe().
Unsubscribe(id) ==
  /\ up /\ stream[id].on # 0
  /\ stream' = [stream EXCEPT ![id] = [on |-> 0, heard |-> "lost"]]
  /\ UNCHANGED <<process, maps, minted, calls, storage>>

\* The Delegator acknowledges when its stream said 'done'; the file goes
\* without an await.
AcknowledgeResult(c, id) ==
  /\ At(c, "idle") /\ stream[id].heard = "done" /\ Terminal(id)
  /\ Forget(id) /\ Spawn(c, "unlink", id)
  /\ UNCHANGED <<process, minted, storage, stream>>

Unlinked(c) ==
  /\ At(c, "unlink") /\ Return(c)
  /\ RemoveFile(calls[c].id)
  /\ UNCHANGED <<process, maps, minted, workDirs, attached, stream>>

(***************************************************************************)
(* The retention sweep: an assignment is checked once, then released over  *)
(* three awaits and forgotten whatever became of it.                       *)
(***************************************************************************)
SweepExpired(c, id) ==
  /\ At(c, "idle") /\ Terminal(id)
  /\ Spawn(c, "sweepTransport", id)
  /\ UNCHANGED <<process, maps, minted, storage, stream>>

\* The directory goes next even if the release failed.
SweepTransport(c) ==
  /\ At(c, "sweepTransport") /\ Await(c, "sweepWorkspace")
  /\ LetGo(calls[c].id)
  /\ UNCHANGED <<process, maps, minted, disk, workDirs, stream>>

SweepWorkspace(c) ==
  /\ At(c, "sweepWorkspace") /\ Await(c, "sweepFile")
  /\ RemoveDir(calls[c].id)
  /\ UNCHANGED <<process, maps, minted, disk, attached, stream>>

SweepFile(c) ==
  LET id == calls[c].id IN
  /\ At(c, "sweepFile") /\ Return(c) /\ Forget(id)
  /\ RemoveFile(id)
  /\ UNCHANGED <<process, minted, workDirs, attached, stream>>

(***************************************************************************)
(* Process life.  initialize() ends before any listener starts, so no      *)
(* request sees it half done.                                              *)
(***************************************************************************)
Crash ==
  /\ up /\ Die(stream) /\ UNCHANGED storage

Saved == {id \in Ids : disk[id] # NoRecord}

\* What a removal of set leaves of it: an error is swallowed.
Leftovers(set) == IF CleanupFails THEN SUBSET set ELSE {{}}

\* With cleanup, everything a file names is released and removed.
CleanUp ==
  /\ attached' \in {a \in [Ids -> Attachments] :
       \A id \in Ids : IF id \in Saved THEN a[id] \in AfterRelease(id)
                      ELSE a[id] = attached[id]}
  /\ \E left \in Leftovers(Saved) : workDirs' = workDirs \ (Saved \ left)
  /\ UNCHANGED <<maps, minted>>

\* Without, everything is loaded, and cleanupStale() keeps the directories
\* named by a known id; .awcp, which holds the files, is not one.
Load ==
  LET live == {id \in Saved : ~IsTerminalAssignment(disk[id].state)} IN
  /\ assignments' = disk
  /\ stateMachines' = [id \in Ids |-> disk[id].state]
  /\ minted' = [id \in Ids |-> IF id \in live THEN minted[id] + 1 ELSE minted[id]]
  /\ eventEmitters' = [id \in Ids |-> IF id \in live THEN minted'[id] ELSE 0]
  /\ \E left \in Leftovers(workDirs \ Saved) : workDirs' = (workDirs \cap Saved) \cup left
  /\ UNCHANGED attached

Initialize ==
  /\ ~up /\ starts < MaxStarts
  /\ up' = TRUE /\ starts' = starts + 1
  /\ \E left \in Leftovers(Saved) :
       disk' = [id \in Ids |-> IF id \in left THEN disk[id] ELSE NoRecord]
  /\ IF CleanupOnInitialize THEN CleanUp ELSE Load
  /\ UNCHANGED <<calls, stream>>

(***************************************************************************)
(* The specification.                                                      *)
(***************************************************************************)
\* A request or the timer starts a function.
Request(c, id) ==
  \/ HandleInvite(c, id) \/ HandleStart(c, id) \/ HandleError(c, id)
  \/ CancelDelegation(c, id) \/ AcknowledgeResult(c, id)
  \/ SweepExpired(c, id)

\* An await settles.
Settle(c) ==
  \/ AdmissionRefused(c) \/ AdmissionPassed(c) \/ InviteDiscarded(c)
  \/ Redetached(c) \/ AnswerPersisted(c) \/ StartPersisted(c)
  \/ Prepared(c) \/ SetUp(c) \/ Executed(c) \/ Captured(c) \/ TaskFails(c)
  \/ TaskPersisted(c) \/ Detached(c) \/ CancelPersisted(c)
  \/ PersistFails(c) \/ Unlinked(c)
  \/ SweepTransport(c) \/ SweepWorkspace(c) \/ SweepFile(c)

Next ==
  \/ \E c \in Calls, id \in Ids : Request(c, id)
  \/ \E c \in Calls : Settle(c)
  \/ \E id \in Ids : SubscribeTask(id) \/ Unsubscribe(id)
  \/ Crash
  \/ Initialize

Spec == Init /\ [][Next]_vars

\* Every await settles and execute() returns; nothing makes a peer call,
\* the process crash or somebody start it again.
FairSpec == Spec /\ \A c \in Calls : WF_vars(Settle(c))
(***************************************************************************)
(* Properties.                                                             *)
(***************************************************************************)
\* Every id in the assignments map has its state machine, in the same state,
\* and an emitter while it can still end: what the non-null assertions of
\* subscribeTask(), executeTask() and transitionState() rely on.
StateMachineBacked ==
  \A id \in Ids : Known(id) =>
    /\ stateMachines[id] = assignments[id].state
    /\ ~IsTerminalAssignment(stateMachines[id]) => eventEmitters[id] # 0

\* What StateMachineBacked and OutcomeFinal rest on.  One INVITE per id is in
\* hand; one waiting for admission has no entry yet; one waiting for detach()
\* still holds the object of the map, if there is one; a dead process holds
\* nothing.
InvitesExclusive == \A id \in Ids : \A c, d \in Inviting(id) : c = d
AdmissionIsNew ==
  \A c \in Calls : calls[c].pc = "admission" => ~Known(calls[c].id)
RedetachHoldsObject ==
  \A c \in Calls : calls[c].pc = "redetach" =>
    \/ ~Known(calls[c].id)
    \/ assignments[calls[c].id].born = calls[c].born
DownIsEmpty ==
  ~up => /\ \A c \in Calls : calls[c] = Idle
         /\ \A id \in Ids : assignments[id] = NoRecord
SlotsNamed ==
  \A c \in Calls : calls[c].pc # "idle" => calls[c].id \in Ids
ExecutorInv ==
  /\ TypeOK /\ SlotsNamed /\ DownIsEmpty
  /\ InvitesExclusive /\ AdmissionIsNew /\ RedetachHoldsObject
  /\ StateMachineBacked

\* An active assignment is being worked on: a START about to run its task or
\* the task itself is in flight.  One without would hold a place of
\* maxConcurrentDelegations until the process ends.
Worker(c) == calls[c].pc \in Working \cup {"persistStart"}
ActiveHasWorker ==
  \A id \in Active : \E c \in InFlight(id) : Worker(c)

\* A Delegator that was told 'done' can fetch a completed result until it
\* acknowledges it or the retention time is over: neither a cancellation nor
\* an error gets between the event and the record.
DoneMeansCompleted ==
  \A id \in Ids : stream[id].heard = "done" /\ Known(id) =>
    GetTaskResult(id) = "completed" /\ assignments[id].result # 0

\* Once everything in flight for it has settled, a completed assignment is
\* completed on disk: no older save() of the same file lands after it.
CompletedIsDurable ==
  \A id \in Ids : assignments[id].state = "completed" /\ InFlight(id) = {} =>
    disk[id] = assignments[id]

\* ... and its transport was told to let go since its last setup, whichever of
\* the task and the cancellation came first.  That is all the code can promise:
\* an error of detach() is swallowed, and the mount stays.
EndedIsDetached ==
  \A id \in Ids : Terminal(id) /\ InFlight(id) = {} => attached[id] # "yes"

\* An ended assignment keeps its outcome and its result: it can only be
\* forgotten, or taken up again by an INVITE.
OutcomeKept(id) ==
  assignments'[id] \in {assignments[id], NoRecord, Reopened(assignments[id])}
OutcomeFinal == [][\A id \in Ids : Terminal(id) => OutcomeKept(id)]_vars

\* START is answered by an end: no assignment stays active for ever.
ActiveEnds == \A id \in Ids : id \in Active ~> id \notin Active

\* A subscriber of a running task hears how it ended, or sees its connection
\* break.
SubscriberHears ==
  \A id \in Ids : stream[id].on # 0 /\ id \in Active ~> stream[id].on = 0
=============================================================================
