# AWCP in TLA+

A specification of AWCP (agent workspace collaboration protocol): the two
services of `packages/sdk`, alone and together across a network, the state
machines of `packages/core`, the snapshot manager with the archive transport,
the git and SSHFS transports, the WebSocket tunnel, and the clients that start
and share the Delegator daemon. TLC checks the modules on small instances;
TLAPS proves their safety properties, and those of the composition, for every
value of their constants (section 5 says under which conditions). Paths below are relative to `src/packages/` unless they say
otherwise.

## 1. The system

A *Delegator* has a workspace and a task; an *Executor* has an agent that can
do it. The Delegator builds an environment directory of links to the user's
resources, sends INVITE, and on ACCEPT lets its transport prepare the data,
opens an event stream (SSE), sends START and listens. The Executor sets the
workspace up, runs the task, captures a snapshot, and reports `done` or
`error`; the Delegator acknowledges the result, stores or applies snapshots
and releases the environment.

```
 MCP tools / skill --HTTP--> daemon
                               |
                    DelegatorService ----- INVITE START CANCEL ack ---> listener
                     |   |    |      <---- SSE: status snapshot done      |
     DelegationManager   |  SnapshotManager                        ExecutorService
        EnvironmentManager    |                                     |    |     |
                       transport (archive, git,           AssignmentManager |  TaskExecutor
                       storage, sshfs), both sides              WorkspaceManager
```

Everything in one process is JavaScript: a handler runs undisturbed from one
`await` to the next, and any other handler, timer or stream event may run in
between. Nothing is locked, no request is queued behind another, and saves to
one file are not serialised. That is where the program is hard.

### Inventory

| Component | State it keeps | Operations | What makes it correct | Module |
|---|---|---|---|---|
| State machines (`core/src/state-machine`) | state of one assignment or delegation | `transition` | terminal states have no way out | `Lifecycle` |
| Executor service (`sdk/src/executor/service.ts`) | maps of assignments, state machines, emitters | INVITE, START, ERROR, cancel, subscribe, result, ack, sweep, initialize | the maps agree; what a subscriber heard, the record and the file agree; every active assignment ends | `ExecutorService` |
| Executor admission, assignment and workspace managers | `.awcp/assignments/*.json`, work directories | check, save, load, delete, prepare, release, cleanupStale | files follow the map; the limit is looked at on INVITE | in `ExecutorService` |
| Delegator service (`sdk/src/delegator/service.ts`) | maps of delegations and state machines | delegate, resume, event consumer, cancel, sweep, initialize | a failed delegate leaves nothing; a started one ends; a terminal one stays | `DelegatorService` |
| Delegation and environment managers | `delegations/*.json`, `environments/` | save, load, delete, build, release | an end is on disk and the environment is given back | in `DelegatorService` |
| Snapshot manager | `snapshots/<id>/<snapshot>/`, statuses | receive, apply, discard, cleanup | pending can be loaded, applied is in the workspace | `Snapshots` |
| Archive transport | one temporary archive and directory per delegation | prepare, applySnapshot, initialize; executor side | nothing temporary left but by a removal that fails; the workspace is replaced whole | `applySnapshot` and `initialize` in `Snapshots` |
| Executor client | none | requests with timeout, SSE with retries | an outcome for every call | outcomes of awaits in `DelegatorService` |
| HTTP listener, Express handlers, daemon | none | routing | initialize before listen; one handler per request | guards of the services |
| WebSocket tunnel listener | socket, reconnect timer, SSE streams | start, authenticate, reconnect, route, stop | one connection; streams follow the socket; it comes back or says that it will not | `TunnelListener` |
| SSHFS transport | keys, certificates, table and file; mounts, copies of keys | issue, revoke, load, mount, unmount | a usable key can be revoked; no order of events forgets a copy or leaves an ended mount, only a step that fails itself | `SshfsTransport` |
| Git transport | a repository per delegation, one remote, clones | prepare, setup, capture, apply, release | a delegation gets back its own work, on its own base | `GitTransport` |
| MCP server and launcher, skill scripts, daemon process | the daemon's port, who owns it | find or start a daemon, delegate, poll, cancel all, exit | one service; what was reported happened; waiting ends | `DaemonClients` |
| Both services together | requests and events in flight | all of the protocol | executed once, reported truthfully | `AWCP`, abstractly `DelegatedTask` |
| Storage transport, setup, A2A adapter, config, release scripts | objects; none | | | not modelled |

`PROJECT.json` lists every component with its sources, and the hazards of the
code line by line with the properties that answer them.

## 2. How the modules read the code

- An **action** is the code between two awaits: its guard is the await that
  settled together with the conditions and early returns up to the next one,
  its effects are all assignments in between.
- `calls` holds the suspended async functions. A slot has the await it is
  parked at (`pc`), the delegation, and the local variables that outlive the
  await: an emitter, the Assignment object (`born`), a record about to be
  saved. The number of slots bounds how many functions overlap.
- A **save** is two-phased: the call captures the record, the write lands when
  its await settles, with the text made at the call or, after `mkdir()`, from
  the object as it then is (`Landed`). Saves of one file overlap freely. When
  `DiskFaults` is set a save may reject, and the action that follows is the
  code's catch block.
- A **crash** loses maps, slots and connections and keeps files. `Die` in
  `ExecutorService` is also what an unhandled rejection does to the process.
  `shutdown()` is not modelled apart: it clears the same maps on the way out.
- `initialize()` is one action: every entry point awaits it before it listens.
  The Delegator's resumptions are the exception; they run through `delegate()`
  one after another, and requests wait for the last (`Serving`).
- **Cleanup that fails.** Most removals end in `.catch(() => {})`, and
  `unmount()` and `forceUnmount()` resolve when every command has failed. Where
  a module has a constant for it (`CleanupFails`, `DiskFaults`, `UnmountFails`)
  such a step may leave what it was to remove, and the code goes on as it does;
  history variables remember what was left so (`archiveKept`, `directoryKept`,
  `halfDeleted`, `lostKeys`, `lostCopies`, `stuck`). The properties except
  exactly that, and say that nothing else leaves anything. In
  `DelegatorService`, and in `AWCP`, removals succeed.

**`Lifecycle`** has the two transition tables, both `getTargetState()` and
`transition()`: an event is accepted when the target it names is allowed.

**`ExecutorService`** has the three maps as `assignments`, `stateMachines`,
`eventEmitters`; `minted` gives each emitter an identity, so that a task that
belongs to an earlier INVITE of the same id can be told from a later one. An
assignment's `result` is the emitter of the task that produced it. `stream` is
the Delegator's subscription: the emitter it listens to and the last event it
heard. `disk` and `workDirs` are the files and the directories; `attached` is
the transport of an id: not set up (`no`), set up (`yes`), or told to let go of
what is still there (`kept`), as `detach()` or `release()` rejected or resolved
without an effect. Everything after them goes on the same, the removal of the
directory included. Mutants (operators marked `Mutant:`) stand before the
definition they vary; no specification uses them.

**`DelegatorService`** keeps a delegation's record and its state machine apart
(`delegations`, `stateMachines`), because `consumeTaskEvents()` changes the
first alone. `owner` remembers which start of the daemon generated an id.
`environments`, `snapshots` and `prepared` are what a delegation holds on disk
and in its transport. The Executor and the network are the outcomes of the
awaits: an answer, an ERROR answer, a rejection; an event, a break, or
(`SilentEnd`) an orderly end of the stream without a last event. INVITE may
fail at any time, also after the Executor has processed it. `prepare()` of a
transport is either done or undone. The environment has at least one resource,
so that building it twice meets the first link (`EEXIST`).

**`Snapshots`** is one delegation with one writable resource. A file of the
resource holds what the user had (`Original`), what a snapshot brought, or is
missing. `archive` and `extracted` are the temporary file and directory
that all applications of a delegation share. `applySnapshot()` goes through
write, extract, replace (`rm` and `mkdir` of the user's directory, listing of
the extraction), one copy per file, unlink, remove; extraction is one step that
writes over what the directory holds. Each may reject half done, those of the
`finally` block and of `initialize()` too; an application that follows a failed
removal mixes with what stayed. `discard()` may reject after its `rm()` took the
file, and a sweep whose `rm()` rejects ends the process.
The policy is any of the three. The delegation's events come in the first run
of the daemon only. Only retention starts the sweep in the code; here it may come at any time.

`Snapshots` and `DelegatorService` overlap in `receive()`: the second knows
only that a snapshot may leave a directory behind, which is all the sweep and
the restart need.

**`TunnelListener`** has one action per callback of the listener: a socket
opens, fails, closes; a message arrives; the timer fires; a handler answers.
`socket[s]` is the life of a WebSocket object with its handlers attached,
`ws` the one `send()` writes to: they differ while an old socket's close event
is still to come. `promise` is what `start()` returned. `start()` waits until
timer and sockets of an earlier life are over, as its one caller does.

**`SshfsTransport`** keeps the Delegator's `keyDir` (`keys`, `certs`, `stale`)
apart from `activeCredentials`, and the Executor's kernel mounts apart from
`activeMounts`, since commands change one and the code the other. A mount is a
child process (`sshfs`), a timer (`timeout`) and the function that waits for
both (`mounting`); `unmount()` may run for the task and for a cancellation at
once. `ssh-keygen` and `sshfs` may fail or never end, the key or the certificate
may not be readable after signing, the copies may be written in part, an
`unlink()` may be ignored, and a mount may resist every command. The copies are
named by `Date.now()`: two mounts are taken not to write in one millisecond.

**`GitTransport`** models a commit by the root it descends from and the clone
it was made in, which is what tells one delegation's work from another's.
`main` is shared, `--force` included; task branches have the delegation's name.
A delegation may be run again after a restart while its first run goes on. A
fetch or a merge that fails is swallowed by the snapshot manager, so the
snapshot is no longer pending (`FetchFails`, `Merge`).

**`DaemonClients`** has processes that look for a daemon, start one in
themselves, and send it requests; a daemon ends with its process. `said` and
`told` record what a client was answered.

## 3. The composition

**`AWCP`** instantiates `DelegatorService` and `ExecutorService` for one
delegation and joins them by `wire` (requests in flight, late or lost, never
duplicated), `answers`, and `unread` (the event stream: in order, cut at any
time). Steps of one service that the other cannot see are taken as they are;
those that wait for the peer are conjoined with the message. `INVITE` of one id
do not overlap, as `delegate()` sends one; both sides run with
`CleanupOnInitialize` and removals that succeed (`CleanupFails <- FALSE`); the
Delegator's retention sweep is left out.

`AWCP` instantiates the services by way of `DelegatorServiceProofs` and
`ExecutorServiceProofs`, which extend them, so that their theorems can be cited
of the composition; to TLC the two are the same.

**`DelegatedTask`** is what this promises: the caller sees a delegation
offered, started, then completed, ended or gone; the work is requested at most
once, runs only after START, and is `completed` only if it was done; a started
delegation does not stay started. `AWCP!Contract` is this specification under
the refinement mapping `view <- View` (from `owner`, `delegations` and the
functions in flight) and `work`, a history variable of the composition. TLC
checks that `AWCP!FairSpec` implements it, fairness included.

## 4. What TLC checks

| Run | Instance | Checks |
|---|---|---|
| `exec_once` | 2 ids, 3 slots, 1 INVITE each, 2 starts, limit 1, failing cleanup | `DoneMeansCompleted`, `CompletedIsDurable`, `EndedIsDetached` |
| `exec_faults` | 1 id, 3 slots, 2 INVITEs, 3 starts without cleanup, failing disk and cleanup, ERROR messages | `ExecutorInv`, `OutcomeFinal` |
| `exec_live` | 1 id, 2 slots, 2 INVITEs, 2 starts, failing cleanup, fairness | `ActiveHasWorker`, `ActiveEnds`, `SubscriberHears` |
| `deleg_once` | 2 ids, 3 slots, 2 starts without cleanup (so resumptions), silent ends | `TypeOK`, `FailedLeavesNothing`, `CompletedIsReclaimed`, `LoadedIsKept` |
| `deleg_live` | 1 id, 3 slots, 2 starts, failing disk, fairness | `StartedIsHeard`, `MachineEndIsFinal`, `StartedEnds` |
| `snap_one` | 2 snapshots over 2 files, 1 request, sweep, 2 starts, failing disk and cleanup | `PendingIsStored`, `NothingLeft`, `AppliedIsWhole` |
| `awcp` | both services, 1 delegation, 2 slots and 2 starts each, fairness | `ServicesKeepTheirInvariants`, `WaitIsJustified`, `ConfirmedCancelHolds`, `Contract` |
| `tunnel` | 3 sockets, 2 retries, 2 requests, 2 streams, fairness | `OneConnection`, `StreamsFollowConnection`, `SilenceIsReported`, `StopIsFinal`, `ComesBack` |
| `sshfs` | 1 delegation, failing signatures, files and unmounts, crashes, fairness | `UsableIsKnown`, `CopiesAreTracked`, `EndedIsUnmounted`, `RevokedIsGone`, `MountSettles` |
| `git` | 2 delegations with 2 runs each, restarts, failing git commands | `TypeOK`, `SnapshotIsOwn`, `PendingIsIntact`, `AppliedIsOwn` |
| `clients` | 2 MCP servers, 1 script, 2 delegations, fairness | `OneService`, `CancelledHaveEnded`, `ScriptEnds` |
| `clients_exit` | 1 server, 1 script, 1 delegation | `OutlivesScript`: violated, the finding below |

What they show, in words:

- *Executor.* Whatever START, cancellation, acknowledgement, sweep and crash do
  to each other, a Delegator that was told `done` finds a completed result
  until it is acknowledged or swept, a completed assignment is completed on
  disk once everything settles, and the transport of an ended one was told to
  let go since its last setup (whether it did is up to it). The three maps
  agree even when writes fail, ids are invited twice and restarts load old
  files; an ended assignment keeps its outcome. If awaits settle, an active
  assignment always has a task behind it, ends, and its subscriber hears so.
- *Delegator.* A `delegate()` that throws at any of its awaits leaves no entry,
  environment or transport data; a completed delegation is on disk and gave
  its environment back; a started one is listened for and ends; no late event
  moves a delegation whose machine has ended; a failed resumption loses
  neither record nor file.
- *Snapshots.* With one request in hand beside the consumer and the sweep, an
  application that does not throw leaves the whole snapshot and nothing of the
  user's in the workspace, also after a crash in the middle of an earlier one,
  and no other snapshot's files unless a removal of the extraction directory
  failed; what is listed as pending has its file, but for a `discard()` that
  failed half way; temporary files go, but for a removal that failed.
- *Both.* Whatever is late, lost or cut, and whoever crashes, a task is
  executed at most once and only after START, `completed` is said of work that
  was done, and a started delegation does not stay so. A Delegator that has read
  all there is waits for a task that will report to the very stream it reads. A
  cancellation the Executor has confirmed holds, though START comes in later.
- *Tunnel.* Never two connections, nor one and a timer; nothing of a closed
  connection stays subscribed; a listener that has gone silent has reported it,
  and after `stop()` no old timer or event connects again.
- *SSHFS.* A usable key can be revoked, also after a crash; whichever of a
  timeout, a failure and a cancellation comes first, no copy is forgotten and an
  ended mount is not mounted; `setup()` settles. The only exceptions are a file
  that cannot be read, written or unlinked, a mount that resists (of which alone
  the code warns) and an `sshfs` child that outlives its Executor.
- *Git.* Although all delegations force-push one `main`, an Executor that
  cloned another's workspace produces no snapshot; a pending snapshot is
  what was captured, and only that is merged.
- *Clients.* Clients that start a daemon together leave one service among those
  that went on; what was reported as cancelled has ended; a script ends.

### Bounds, and where properties stop

Every bound is a constant: `Calls`/`Requests` (overlap), `MaxEmitters` (INVITEs
per id and re-made emitters), `MaxStarts`, and `Ids`, `Snapshots`, `Files`.
Ids share the limit of active assignments, and call slots; two are enough
for interference through these, and properties about several entries of one
map need no third. Three slots give task, cancellation and sweep (or
consumer, cancellation and sweep) of one id at one time, the most the code's
own timers and the protocol's requests produce for a delegation; a fourth
function would repeat one of them. Symmetry over ids and slots is used in
safety runs only.

Settings are part of what a run shows, and the other value matters:

- `DoneMeansCompleted` and `CompletedIsDurable` are checked with one INVITE per
  id. With two (`MaxEmitters = 2`) they fail: the task of
  the first INVITE is not stopped by the second and may complete it, and saves
  of the two overlap. With the cleanup off and a restart, these and
  `EndedIsDetached` fail, as a loaded assignment has lost what ran for it.
- `ActiveHasWorker` and the liveness of the Executor need a disk that does not
  fail and the cleanup on. A write that fails after RECEIVE_START leaves an
  active assignment with no task; a restart without cleanup loads one.
  `SubscriberHears` needs `PeerErrors = FALSE` as well: an ERROR message ends an
  assignment without an event, and nothing in the Delegator sends one.
- The two Delegator runs differ in `CleanupOnInitialize` because a loaded
  delegation whose resumption fails keeps its state with nobody listening.
- `StartedIsHeard`/`StartedEnds` need `SilentEnd = FALSE`: `parseSSEStream()`
  ends quietly when the peer closes in order, and the delegation stays running.
  They also need the cleanup on, since a loaded delegation has no listener
  before it is resumed.
- `FailedLeavesNothing` leaves the file out: a cancellation's save may land
  after the undo deleted it. It also takes the releases and removals of the undo
  to succeed: `release()` and the file's `rm()` are swallowed
  (`delegator/service.ts:263-265`), the environment's replaces the exception.
- `AppliedIsWhole` holds for one request at a time and says nothing about an
  application that threw.
- `EndedIsUnmounted` excepts a child process that outlived its Executor and a
  mount whose last unmount failed in every command; `UsableIsKnown` a key
  without a valid certificate and one with a file that could not be read or
  unlinked; `RevokedIsGone` the latter; `CopiesAreTracked` a copy whose own
  writing or unlinking failed. A copy once lost stays so; the other exceptions
  end when a later key is made or loaded, or a later unmount succeeds.
- Nothing is claimed about a mount under a directory the Executor's sweep
  removes: see below.
- Two slots per service in `awcp` let a cancellation overlap with `delegate()`
  or the consumer, and a task with START's late companion or the sweep.
- The state spaces are explored completely: 4.5 million states of `snap_one`,
  1.9 of `exec_once` and of `deleg_once`, 1.7 of `git`, 1.0 of `exec_faults`,
  fewer of the others.
- The statuses *recorded* in a delegation's file may lag behind those in memory
  when a request's save and the consumer's overlap; no property claims
  otherwise.

### Fairness

`ExecutorService!FairSpec`: weak fairness of `Settle(c)`, i.e. a suspended
function goes on: file operations and admission end, `execute()` returns or
throws. Requests, crashes and restarts are never forced. No time limit in the
code makes `execute()` return, so `ActiveEnds` is relative to the agent.

`DelegatorService!FairSpec`: weak fairness of the awaits of `delegate()`, of the
consumer and of `cancel()` and the sweep, justified by the request timeout, the
bounded SSE retries and Node's promises; strong fairness of "the stream brings its last event or
breaks", because a stream may carry any number of snapshots, each handled
before the next event is read, and then ends. It stands for the Executor's own
liveness (`SubscriberHears`) and the connection between the two.

`AWCP!FairSpec`: weak fairness of the steps of each service's functions, their
timeouts included. No request need be delivered, no process need come back.
`TunnelListener!FairSpec`: timers fire, sockets open or fail, the relay answers a
token or hangs up. `SshfsTransport!FairSpec`: what awaits a file, a spawned
unmount command or a timer goes on; `sshfs` itself may hang, which is what the
timer is for. `DaemonClients!FairSpec`: a script goes on and its timeouts fire.

### Finding

`OutlivesScript` (`clients_exit`): `delegate.ts` without `--wait`, the
"Background Delegation" of `skill/awcp-skill/SKILL.md`, starts the daemon inside
its own process when there is none, and `output()` ends that process.

### Disagreements without a run

Met while modelling; the actions do what the code does, so no property claims
the opposite.

- The limit of active assignments is counted at the INVITE (`admission.ts:22`)
  and not looked at when START makes one active.
- Without cleanup, the Executor's `initialize()` loads the assignments and its
  `cleanupStale()` removes `.awcp` with their files (`fs-helpers.ts:28`).
- A lost stream sets the record to `error` and not the machine
  (`delegator/service.ts:409`); a later cancellation turns it into `cancelled`.
- The environment kept for a resumption makes it fail: its links exist
  (`fs-adapter.ts:11`).
- Two requests that apply one snapshot share a temporary directory
  (`snapshot-manager.ts:82`): one copy may fail, its error is swallowed, both
  are answered with success and the user's directory may be empty.
- The tunnel has no route for an acknowledgement.
- A `release()` that fails, or an SSHFS mount no command can unmount
  (`executor/sshfs-client.ts:172`, `211`), stops nothing: the sweep removes the
  work directory through the mount (`executor/service.ts:549-550`), and
  `activeMounts` forgets it.
- `writeCredentialFiles()` runs before the `try` block of `mount()`: when the
  certificate cannot be written, the copy of the private key stays
  (`sshfs-client.ts:111`, `131`).
- An acknowledged assignment is forgotten with its work directory left
  (`executor/service.ts:506-515`); only a start without cleanup removes it.

## 5. What is proved

Every invariant and every action property that a run checks is also a theorem,
for any number of ids, functions in flight, starts, requests, sockets, runs and
clients. Where a theorem needs a setting, it is the one the property needs (see
"where properties stop") and the theorem names it as an ASSUME.

`ExecutorServiceProofs`, first from `ConstantsAssumption` only (any ids, slots,
limits and settings):

- `ExecutorInvariant`: `Spec => []ExecutorInv`. The target is
  `StateMachineBacked` - every map entry has its machine in the same state, and
  an emitter until it ends. It is not inductive: `Redetached` writes an entry
  after an await. `ExecutorInv` adds what protects it: one INVITE per id is in
  hand (`InvitesExclusive`), one waiting for admission has no entry
  (`AdmissionIsNew`), one waiting for `detach()` still holds the object of the
  map if there is one (`RedetachHoldsObject`), busy slots have an id
  (`SlotsNamed`), a dead process holds nothing (`DownIsEmpty`), and types.
- `TypeCorrect`, `StateMachinesBacked`: its conjuncts.
- `OutcomesFinal`: `Spec => OutcomeFinal`, an action property, from the same
  invariant: no step of any function changes the outcome of an ended
  assignment except by forgetting or re-inviting it.
- `WorkersAtWork`: with `~DiskFaults` and `CleanupOnInitialize`,
  `Spec => []ActiveHasWorker`.

Then with one INVITE per id (`MaxEmitters = 1`) and the cleanup on; failing
disks, ERROR messages and restarts are included:

- `OnceInvariant`: `Spec => []OnceInv`. A claim about a completed or ended
  assignment is one about everything that may still write to it, so the
  invariant lists, for each state of the record, what may be in flight. An
  id is invited once (`InvitedOnce`), has one object and one emitter
  (`OneObject`) and one task (`OneThread`). Nothing works for a pending
  assignment but its INVITE (`PendingIsUntouched`), for an active one its START
  or task (`ActiveIsAtWork`); a completed one has only saves of its completion,
  the acknowledgement or a sweep (`CompletedIsSettled`, `SavesResult`); one whose
  file is being deleted is in no map (`ForgottenIsGone`). `Durable` says what of this is on disk,
  `AttachedIsUsed` who still has to detach, `StreamAgrees` and `StreamIsLive` what the subscriber heard.
- `DoneCompleted`, `CompletedDurable` and `EndedDetached` follow from it, with
  cleanup that may fail.

`DelegatorServiceProofs`, from `ConstantsAssumption` only, with the cleanup on
or off:

- `TypeCorrect`: `Spec => []TypeOK`.
- `RunInvariant`: `Spec => []RunInv`. What holds of an id depends on where it
  comes from (`IdRun`). An id nobody generated is nowhere. For one this start
  of the daemon generated (`IdInv`): one function of `delegate()` or its
  consumer at a time (`OneThread`), the record and the machine stand where it
  waits (`ThreadAgrees`), one undone is forgotten, the sweep goes by what has
  ended (`SweptHasEnded`), and what is still held - environment, transport, a
  completed record - is held by an entry or by a function that will give it up
  (`EnvironmentHeld`, `PreparedHeld`, `CompletedHeld`). For a loaded one
  (`LoadedInv`): an entry has its file; its `delegate()` is a resumption, so the
  undo that forgets never runs for it (`ResumedIsUndoneKept`); until the record
  is set back to `invited`, the resumption is alone with it (`WaitsAlone`),
  which is what keeps a sweep from having begun on a record that is live again.
  The properties speak of what is left when functions are done; these parts say
  who still has to do it, step by step. `Frame` reduces a step to the id it is
  about, `UntouchedKept` covers the others.
- `FailedGone`, `LoadedKept` (`LoadedIsKept`) and `MachineEndsFinal` need
  nothing else, `CompletedReclaimed` a disk that does not fail.
- `CleanInvariant`, under `CleanupOnInitialize`: nothing is resumed and what is
  known is of the running start, so `IdInv` holds of every id. `StartedHeard`
  needs it, and streams that do not end silently.

`AWCPProofs`, for any number of call slots and starts of both sides:

- `ServicesRun`: every step of the composition is a step or a stutter of each
  service, so the theorems above hold inside it (`ServicesHold`): what either
  module assumes of its peer, the other one does.
- `ExchangeInvariant`: `Spec => []ExchangeInv`, the invariant of what is
  between the services. Where the task is in its execution says which of INVITE
  and START were sent (`WorkIsAsked`); a request on the wire or in a slot is
  answered by the function that serves it (`ServesItsRequest`); an answer means
  that the Executor did what it says (`AnswersMean`); and a stream that
  has ended has said so to its reader, by its last event or by breaking
  (`EndIsToRead`). Neither service alone can say any of these.
- `ServicesKeep` (`ServicesKeepTheirInvariants`), `WaitsAreJustified`
  (`WaitIsJustified`), `ConfirmedCancels` (`ConfirmedCancelHolds`).
- `PromiseKept`: `Spec => Promise!Spec`, the refinement of `DelegatedTask` but
  for its fairness. Lemmas of the services say how a step changes what the
  caller sees (`Phase` in `DelegatorServiceProofs`); each action of the
  composition is then a step of `DelegatedTask` or a stutter.

`SnapshotsProofs`, from `ConstantsAssumption` only, so for any number of
overlapping requests, which TLC checks with one:

- `SnapshotsInvariant`: the inductive invariant. Temporary data has an owner:
  an archive has an application that has not unlinked yet, a filled directory
  one that has not removed it, or a failed removal has left it (`TempHeld`). Functions at work on a snapshot
  have one; an unknown delegation has no entries; later starts have number 2 up.
- `TypeCorrect`, `PendingLoadable` (`PendingIsStored`), `TemporaryGone`
  (`NothingLeft`).
- `ApplicationInvariant` and `AppliedWhole` (`AppliedIsWhole`) with one request
  in hand at a time (`OneRequest`): the policy fixes whether the consumer or
  the request applies (`Roles`), so no two applications overlap, and
  `OnItsWay` says of one that nothing went wrong in how much of the workspace
  is already the snapshot's.

`TunnelListenerProofs`, `SshfsTransportProofs`, `GitTransportProofs` and
`DaemonClientsProofs`, from the assumptions on the constants only:

- The tunnel's safety properties are inductive together (`OneTunnel`,
  `StreamsFollow`, `NoSilence`); `StopStays` is an action property.
- SSHFS: the invariant ties each function in flight to the files it has made
  and each child and timer to the `mount()` that waits for it, or to the failed step
  that has left them (`UsableKnown`, `CopiesTracked`, `EndedUnmounted`), and
  `RevokedGone` follows for steps. All three constants for failures are
  arbitrary.
- Git: the invariant says whose clone each repository, setup and branch is and
  that a run captures only on its own root (`SnapshotsAreOwn`,
  `PendingStaysIntact`, `AppliedAreOwn`, `TypeCorrect`).
- Clients: who listens has a service and who lost the port has given its
  up or is about to (`OneDaemon`); what is said was ended first
  (`CancelledEnded`).

In all, one lemma says what each shared fragment does (`Moves`, `SlotStep`,
`Frame`), one lemma per action or family shows the invariant kept, and the
theorems combine them with `PTL`.

**Model-checked only:** liveness (`ActiveEnds`, `SubscriberHears`,
`StartedEnds`, `ComesBack`, `MountSettles`, `ScriptEnds`, and the fairness in
`Contract`), which rests on fairness and `ENABLED`, out of the prover's reach.
No definition is by recursion or induction over data.

## 6. Not modelled, and why

- Storage transport: to the services the awaits of any transport; the object it
  uploads is `prepared`. SSHFS setup: an interactive installer. Configuration
  and work directory resolution: defaults without state, the values that matter
  are constants. A2A adapter: `execute()`, an await that returns or throws.
  Release scripts: not part of the program. MCP argument parsing and
  formatting, peer discovery, and tools that forward one request.
- Wording, hints, codes, tokens, checksums, size limits: no property reads them.
- Time: TTLs, retention and heartbeats are "at any time"; EXPIRE has a
  transition and no sender in the code.
- Hooks (`onTaskStart`, ...): taken not to throw.
- Failing removals in `DelegatorService` and `AWCP`; the transports' own modules,
  `Snapshots` and `ExecutorService` have them.
- Torn files: a save lands whole or not at all; a file cut short by a crash
  makes `loadAll()` throw at the next start.
- `shutdown()`: the crash stands for it.
- Two daemons over one directory: `DaemonClients` says when they meet, what one
  deletes of the other is not followed.

## 7. Plan

1. `EndedDetached` for any number of INVITEs per id, where TLC finds
   `EndedIsDetached` true (one id, two INVITEs); and what `DoneMeansCompleted`
   has to except there while an earlier task still runs.
2. `AWCP` with resumption: `CleanupOnInitialize` off on both sides, so that a
   loaded delegation and a loaded assignment meet again; `RunInvariant` already
   covers the Delegator's half.
3. The storage transport's objects, next to `GitTransport`.
