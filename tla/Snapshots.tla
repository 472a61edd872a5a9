------------------------------ MODULE Snapshots ------------------------------
(***************************************************************************)
(* The snapshots of one delegation, as the Delegator keeps them: the       *)
(* snapshot manager (sdk/src/delegator/snapshot-manager.ts), the requests  *)
(* of its service that apply and discard, and applySnapshot() of the       *)
(* archive transport, which replaces the user's workspace.                 *)
(*                                                                         *)
(* An action is the code between two awaits.  All applications of one      *)
(* delegation share one archive file and one extraction directory under    *)
(* the transport's tempDir, and one workspace, whose files are named by    *)
(* Files and hold what the user had or what a snapshot brought.            *)
(***************************************************************************)
EXTENDS Naturals

CONSTANTS
  Snapshots,            \* ids the Executor gives its snapshots
  Files,                \* file names in the delegation's rw resource
  Contents,             \* Contents[s]: the files snapshot s consists of
  Original,             \* the content of a file before the delegation
  Nothing,              \* no snapshot, no file
  Requests,             \* slots for HTTP requests in hand at one time
  Consumer,             \* the slot of consumeTaskEvents()
  Timer,                \* the slot of the retention sweep
  MaxStarts,            \* bound: times the daemon may be started
  DiskFaults            \* may a file operation reject, one that cleans up too?

ASSUME ConstantsAssumption ==
  /\ Original # Nothing /\ {Original, Nothing} \cap Snapshots = {}
  /\ Consumer # Timer /\ {Consumer, Timer} \cap Requests = {}
  /\ Contents \in [Snapshots -> (SUBSET Files) \ {{}}]
  /\ MaxStarts \in Nat
  /\ DiskFaults \in BOOLEAN

VARIABLES
  up,         \* the daemon runs
  starts,     \* how often it was started
  policy,     \* snapshotPolicy.mode
  known,      \* the delegation is in the service's map
  snapshots,  \* status of each entry of delegation.snapshots
  saved,      \* delegations/<id>.json exists
  recorded,   \* the statuses it records
  stored,     \* snapshots with a directory under baseDir/snapshots/<id>
  archive,    \* what tempDir/<id>-snapshot.zip holds
  extracted,  \* what tempDir/<id>-snapshot/ holds
  workspace,  \* the resource's source directory
  calls,      \* the async functions in flight
  archiveKept,    \* history: the archive survived its last unlink()
  directoryKept,  \* history: the extraction directory survived its last rm()
  halfDeleted     \* history: snapshots whose file a failed discard() of this
                  \* run of the daemon took

process == <<up, starts, policy>>
record == <<known, snapshots>>
store == <<stored, halfDeleted>>
files == <<saved, recorded, store>>
temp == <<archive, extracted, archiveKept, directoryKept>>
vars == <<process, record, files, temp, workspace, calls>>

Slots == Requests \cup {Consumer, Timer}
Statuses == {"none", "pending", "applied", "discarded"}
Applying == {"write", "extract", "replace", "copy", "unlink", "remove"}
Pcs == {"idle", "ended", "store", "load", "delete", "persist", "sweep", "forget"}
       \cup Applying

NoStatus == [s \in Snapshots |-> "none"]
Empty == [f \in Files |-> Nothing]

\* A suspended function: where it waits, for which snapshot, the files still
\* to copy, whether applySnapshot() threw, and what a save() will write.
Call(pc, s, left, failed, content) ==
  [pc |-> pc, snapshot |-> s, left |-> left, failed |-> failed, content |-> content]
Idle == Call("idle", Nothing, {}, FALSE, NoStatus)

Contexts == [pc : Pcs, snapshot : Snapshots \cup {Nothing}, left : SUBSET Files,
             failed : BOOLEAN, content : [Snapshots -> Statuses]]

TypeOK ==
  /\ up \in BOOLEAN /\ starts \in Nat /\ policy \in {"auto", "staged", "discard"}
  /\ known \in BOOLEAN /\ snapshots \in [Snapshots -> Statuses]
  /\ saved \in BOOLEAN /\ recorded \in [Snapshots -> Statuses]
  /\ stored \in SUBSET Snapshots
  /\ archive \in Snapshots \cup {Nothing}
  /\ extracted \in [Files -> Snapshots \cup {Nothing}]
  /\ workspace \in [Files -> Snapshots \cup {Original, Nothing}]
  /\ calls \in [Slots -> Contexts]
  /\ archiveKept \in BOOLEAN /\ directoryKept \in BOOLEAN
  /\ halfDeleted \in SUBSET Snapshots

\* A started delegation: its stream is open, nothing has come over it.
Init ==
  /\ up = TRUE /\ starts = 1 /\ policy \in {"auto", "staged", "discard"}
  /\ known = TRUE /\ snapshots = NoStatus
  /\ saved = FALSE /\ recorded = NoStatus /\ stored = {}
  /\ archive = Nothing /\ extracted = Empty
  /\ archiveKept = FALSE /\ directoryKept = FALSE /\ halfDeleted = {}
  /\ workspace = [f \in Files |-> Original]
  /\ calls = [c \in Slots |-> Idle]

(***************************************************************************)
(* Fragments the actions share.                                            *)
(***************************************************************************)
At(c, pc) == up /\ calls[c].pc = pc
Spawn(c, pc, s, content) ==
  calls' = [calls EXCEPT ![c] = Call(pc, s, {}, FALSE, content)]
Await(c, pc) == calls' = [calls EXCEPT ![c].pc = pc]
Return(c) == calls' = [calls EXCEPT ![c] = Idle]

\* The consumer does not survive a rejection; a request answers 400.
Throw(c) == calls' = [calls EXCEPT ![c] = IF c = Consumer
                                          THEN [Idle EXCEPT !.pc = "ended"]
                                          ELSE Idle]

\* The entry of s gets a status and the delegation is saved; one that was
\* forgotten meanwhile is not.
MarkAndSave(c, s, status) ==
  /\ \/ /\ known /\ snapshots' = [snapshots EXCEPT ![s] = status]
        /\ Spawn(c, "persist", s, snapshots')
     \/ ~known /\ Return(c) /\ UNCHANGED snapshots
  /\ UNCHANGED known

\* delete().catch(() => {}) and cleanupStale(): an error is swallowed.
DeleteFile ==
  \/ saved' = FALSE /\ recorded' = NoStatus
  \/ DiskFaults /\ UNCHANGED <<saved, recorded>>
Leftovers(set) == IF DiskFaults THEN SUBSET set ELSE {{}}

\* What rm() of a directory that fails half way may leave of it.
Remnants(directory) ==
  {[f \in Files |-> IF f \in kept THEN directory[f] ELSE Nothing] :
     kept \in SUBSET Files}

\* unlink().catch(() => {}) and rm().catch(() => {}): the caller goes on
\* whether or not the archive or the extraction directory went.
UnlinkArchive ==
  \/ archive' = Nothing /\ archiveKept' = FALSE
  \/ DiskFaults /\ archiveKept' = (archive # Nothing) /\ UNCHANGED archive
RemoveDirectory ==
  \/ extracted' = Empty /\ directoryKept' = FALSE
  \/ /\ DiskFaults /\ extracted' \in Remnants(extracted)
     /\ directoryKept' = (extracted' # Empty)

(***************************************************************************)
(* A snapshot event: receive() by the delegation's policy.                 *)
(***************************************************************************)
Receive(s) ==
  /\ At(Consumer, "idle") /\ starts = 1 /\ known /\ snapshots[s] = "none"
  /\ \/ policy = "auto" /\ Spawn(Consumer, "write", s, NoStatus) /\ UNCHANGED record
     \/ policy = "staged" /\ Spawn(Consumer, "store", s, NoStatus) /\ UNCHANGED record
     \/ policy = "discard" /\ MarkAndSave(Consumer, s, "discarded")
  /\ UNCHANGED <<process, files, temp, workspace>>

Stored(c) ==
  /\ At(c, "store")
  /\ stored' = stored \cup {calls[c].snapshot}
  /\ MarkAndSave(c, calls[c].snapshot, "pending")
  /\ UNCHANGED <<process, saved, recorded, halfDeleted, temp, workspace>>

StoreFails(c) ==
  /\ DiskFaults /\ At(c, "store") /\ Throw(c)
  /\ stored' \in {stored, stored \cup {calls[c].snapshot}}
  /\ UNCHANGED <<process, record, saved, recorded, halfDeleted, temp, workspace>>

(***************************************************************************)
(* Requests: apply() and discard().                                        *)
(***************************************************************************)
Apply(c, s) ==
  /\ At(c, "idle") /\ known /\ snapshots[s] \notin {"none", "applied"}
  /\ Spawn(c, "load", s, NoStatus)
  /\ UNCHANGED <<process, record, files, temp, workspace>>

Loaded(c) ==
  /\ At(c, "load") /\ calls[c].snapshot \in stored /\ Await(c, "write")
  /\ UNCHANGED <<process, record, files, temp, workspace>>

\* The snapshot's file is gone, or cannot be read: the request fails.
LoadFails(c) ==
  /\ At(c, "load") /\ (calls[c].snapshot \notin stored \/ DiskFaults) /\ Throw(c)
  /\ UNCHANGED <<process, record, files, temp, workspace>>

Discard(c, s) ==
  /\ At(c, "idle") /\ known /\ snapshots[s] # "none"
  /\ Spawn(c, "delete", s, NoStatus)
  /\ UNCHANGED <<process, record, files, temp, workspace>>

\* Mutant: the directory goes and the entry stays pending.
DeletedUnmarked(c) ==
  /\ At(c, "delete")
  /\ stored' = stored \ {calls[c].snapshot}
  /\ MarkAndSave(c, calls[c].snapshot, snapshots[calls[c].snapshot])
  /\ UNCHANGED <<process, saved, recorded, halfDeleted, temp, workspace>>

Deleted(c) ==
  /\ At(c, "delete")
  /\ stored' = stored \ {calls[c].snapshot}
  /\ MarkAndSave(c, calls[c].snapshot, "discarded")
  /\ UNCHANGED <<process, saved, recorded, halfDeleted, temp, workspace>>

\* rm() rejects, before or after it took the file: the entry stays.
DeleteFails(c) ==
  /\ DiskFaults /\ At(c, "delete") /\ Throw(c)
  /\ \/ UNCHANGED store
     \/ /\ stored' = stored \ {calls[c].snapshot}
        /\ halfDeleted' = halfDeleted \cup {calls[c].snapshot}
  /\ UNCHANGED <<process, record, saved, recorded, temp, workspace>>

(***************************************************************************)
(* applySnapshot() of the archive transport.                               *)
(***************************************************************************)
Written(c) ==
  /\ At(c, "write") /\ archive' = calls[c].snapshot /\ Await(c, "extract")
  /\ UNCHANGED <<process, record, files, extracted, archiveKept, directoryKept,
                 workspace>>

\* extractArchive() writes over what the directory holds.
Overwritten(names) ==
  [f \in Files |-> IF f \in names THEN archive ELSE extracted[f]]
Extracted(c) ==
  /\ At(c, "extract") /\ archive # Nothing /\ Await(c, "replace")
  /\ extracted' = Overwritten(Contents[archive])
  /\ UNCHANGED <<process, record, files, archive, archiveKept, directoryKept,
                 workspace>>

\* Mutant: the workspace is not emptied first.
ReplacedInPlace(c) ==
  /\ At(c, "replace")
  /\ \/ extracted = Empty /\ Await(c, "unlink")
     \/ /\ extracted # Empty
        /\ calls' = [calls EXCEPT ![c] =
             [@ EXCEPT !.pc = "copy", !.left = {f \in Files : extracted[f] # Nothing}]]
  /\ UNCHANGED <<process, record, files, temp, workspace>>

\* applyResultToResources(): nothing extracted, nothing to do; otherwise the
\* workspace is emptied and the directory listed for copying.
Replaced(c) ==
  /\ At(c, "replace")
  /\ \/ extracted = Empty /\ Await(c, "unlink") /\ UNCHANGED workspace
     \/ /\ extracted # Empty /\ workspace' = Empty
        /\ calls' = [calls EXCEPT ![c] =
             [@ EXCEPT !.pc = "copy", !.left = {f \in Files : extracted[f] # Nothing}]]
  /\ UNCHANGED <<process, record, files, temp>>

Copied(c, f) ==
  /\ At(c, "copy") /\ f \in calls[c].left /\ extracted[f] # Nothing
  /\ workspace' = [workspace EXCEPT ![f] = extracted[f]]
  /\ calls' = [calls EXCEPT ![c] =
       [@ EXCEPT !.pc = IF calls[c].left = {f} THEN "unlink" ELSE "copy",
                 !.left = calls[c].left \ {f}]]
  /\ UNCHANGED <<process, record, files, temp>>

\* A step of the try block rejects: the archive or a listed file is gone, or
\* the disk fails and leaves what the step had done by then.
Interrupted(pc, snapshot) ==
  \/ /\ pc = "write" /\ archive' \in {archive, snapshot}
     /\ UNCHANGED <<extracted, workspace>>
  \/ /\ pc = "extract" /\ UNCHANGED <<archive, workspace>>
     /\ \/ archive = Nothing /\ UNCHANGED extracted
        \/ /\ archive # Nothing
           /\ \E names \in SUBSET Contents[archive] : extracted' = Overwritten(names)
  \/ /\ pc = "replace" /\ workspace' \in Remnants(workspace)
     /\ UNCHANGED <<archive, extracted>>
  \/ pc = "copy" /\ UNCHANGED <<archive, extracted, workspace>>

ApplyFails(c) ==
  /\ up /\ Interrupted(calls[c].pc, calls[c].snapshot)
  /\ \/ DiskFaults
     \/ calls[c].pc = "extract" /\ archive = Nothing
     \/ calls[c].pc = "copy" /\ \E f \in calls[c].left : extracted[f] = Nothing
  /\ calls' = [calls EXCEPT ![c] =
       [@ EXCEPT !.pc = "unlink", !.failed = TRUE, !.left = {}]]
  /\ UNCHANGED <<process, record, files, archiveKept, directoryKept>>

\* The finally block ...
Unlinked(c) ==
  /\ At(c, "unlink") /\ UnlinkArchive /\ Await(c, "remove")
  /\ UNCHANGED <<process, record, files, extracted, directoryKept, workspace>>

\* ... and what receive() or apply() does next: applyViaTransport() has
\* swallowed an exception, the snapshot counts as applied.
Removed(c) ==
  /\ At(c, "remove") /\ RemoveDirectory
  /\ MarkAndSave(c, calls[c].snapshot, "applied")
  /\ UNCHANGED <<process, files, archive, archiveKept, workspace>>

(***************************************************************************)
(* persistDelegation(): the text is made at the call or after mkdir().     *)
(***************************************************************************)
Persisted(c) ==
  /\ At(c, "persist") /\ Return(c) /\ saved' = TRUE
  /\ recorded' \in {calls[c].content} \cup (IF known THEN {snapshots} ELSE {})
  /\ UNCHANGED <<process, record, store, temp, workspace>>

PersistFails(c) ==
  /\ DiskFaults /\ At(c, "persist") /\ Throw(c)
  /\ UNCHANGED <<process, record, files, temp, workspace>>

(***************************************************************************)
(* The retention sweep, and the daemon's life.                             *)
(***************************************************************************)
SweepExpired ==
  /\ At(Timer, "idle") /\ known /\ Spawn(Timer, "sweep", Nothing, NoStatus)
  /\ UNCHANGED <<process, record, files, temp, workspace>>

SweepSnapshots ==
  /\ At(Timer, "sweep") /\ Await(Timer, "forget") /\ stored' = {}
  /\ UNCHANGED <<process, record, saved, recorded, halfDeleted, temp, workspace>>

SweepFile ==
  /\ At(Timer, "forget") /\ Return(Timer)
  /\ DeleteFile /\ known' = FALSE /\ snapshots' = NoStatus
  /\ UNCHANGED <<process, store, temp, workspace>>

\* The process ends: memory and calls are gone.
Die ==
  /\ up' = FALSE
  /\ known' = FALSE /\ snapshots' = NoStatus
  /\ calls' = [c \in Slots |-> Idle] /\ halfDeleted' = {}
  /\ UNCHANGED <<starts, policy, saved, recorded, temp, workspace>>

Crash == up /\ Die /\ UNCHANGED stored

\* cleanupDelegation() rejects in the timer's callback: nobody handles it.
SweepFails ==
  /\ DiskFaults /\ At(Timer, "sweep") /\ Die
  /\ stored' \in SUBSET stored

\* Mutant: the extraction directory of an interrupted application stays.
InitializeKeepingTemp ==
  /\ ~up /\ starts < MaxStarts /\ up' = TRUE /\ starts' = starts + 1
  /\ UnlinkArchive
  /\ known' = saved
  /\ snapshots' = IF saved THEN recorded ELSE NoStatus
  /\ stored' = IF saved THEN stored ELSE {}
  /\ UNCHANGED <<policy, saved, recorded, halfDeleted, extracted, directoryKept,
                 workspace, calls>>

\* The transport removes its *.zip and *-snapshot entries first; then, as
\* cleanupOnInitialize says, the delegation is released or loaded.  With an
\* rm() that rejects in the release the daemon does not come up.
Initialize ==
  /\ ~up /\ starts < MaxStarts /\ up' = TRUE /\ starts' = starts + 1
  /\ UnlinkArchive /\ RemoveDirectory
  /\ \/ /\ DeleteFile
        /\ stored' = IF saved THEN {} ELSE stored
        /\ UNCHANGED record
     \/ /\ known' = saved
        /\ snapshots' = IF saved THEN recorded ELSE NoStatus
        /\ stored' \in IF saved THEN {stored} ELSE Leftovers(stored)
        /\ UNCHANGED <<saved, recorded>>
  /\ UNCHANGED <<policy, halfDeleted, workspace, calls>>

(***************************************************************************)
(* The specification.                                                      *)
(***************************************************************************)
Transport(c) ==
  \/ Written(c) \/ Extracted(c) \/ Replaced(c) \/ ApplyFails(c)
  \/ Unlinked(c) \/ Removed(c)
  \/ \E f \in Files : Copied(c, f)

Next ==
  \/ \E s \in Snapshots : Receive(s)
  \/ \E c \in Requests, s \in Snapshots : Apply(c, s) \/ Discard(c, s)
  \/ \E c \in Requests \cup {Consumer} :
       \/ Stored(c) \/ StoreFails(c) \/ Loaded(c) \/ LoadFails(c)
       \/ Deleted(c) \/ DeleteFails(c)
       \/ Transport(c) \/ Persisted(c) \/ PersistFails(c)
  \/ SweepExpired \/ SweepSnapshots \/ SweepFile
  \/ SweepFails \/ Crash \/ Initialize

Spec == Init /\ [][Next]_vars

(***************************************************************************)
(* Properties.                                                             *)
(***************************************************************************)
Marks(c, s) == snapshots[s] # "applied" /\ snapshots'[s] = "applied"
               /\ calls[c].pc = "remove" /\ calls[c].snapshot = s

\* A snapshot that becomes applied without an exception is in the workspace
\* whole, and no file of the user's is left beside it, whatever crashed or
\* failed before.  It is alone there unless an earlier rm() of the extraction
\* directory failed, an error the code swallows: the next extraction then
\* mixes with what stayed, and files of earlier snapshots come along.
WholeIn(s) ==
  \A f \in Files :
    IF f \in Contents[s] THEN workspace[f] = s
    ELSE workspace[f] = Nothing \/ (directoryKept /\ workspace[f] \in Snapshots)
AppliedIsWhole ==
  [][\A c \in Slots, s \in Snapshots :
       Marks(c, s) /\ ~calls[c].failed => WholeIn(s)]_vars

\* A snapshot listed as pending can still be applied: nothing but the sweep,
\* or a discard() whose rm() failed after it took the file, makes its file go
\* before the entry changes.
PendingIsStored ==
  \A s \in Snapshots :
    snapshots[s] = "pending" /\ starts = 1 /\ calls[Timer].pc # "forget" =>
      s \in stored \cup halfDeleted

\* With no application in progress the transport's temporary directory holds
\* nothing of the delegation: every application, crash and start is followed
\* by a removal, and only a removal that failed itself leaves something.
NothingLeft ==
  up /\ (\A c \in Slots : calls[c].pc \notin Applying) =>
    /\ archive # Nothing => archiveKept
    /\ extracted # Empty => directoryKept
=============================================================================
