---------------------------- MODULE SshfsTransport ----------------------------
(***************************************************************************)
(* The SSHFS transport (packages/transport-sshfs): the Delegator issues a  *)
(* key and a certificate per delegation, as files ssh-keygen makes; the    *)
(* Executor writes copies of them and mounts the Delegator's directory     *)
(* with an sshfs child process.                                            *)
(*                                                                         *)
(* An action is the code between two awaits, a child process that ends, or *)
(* a timer.  Of the services around it the module keeps what calls the     *)
(* transport: a delegation prepares once, and its own end and a            *)
(* cancellation may each detach it, at any time and at the same time.      *)
(***************************************************************************)
EXTENDS Naturals

CONSTANTS
  Ids,           \* delegations
  SignFails,     \* may ssh-keygen fail?
  DiskFaults,    \* may reading, writing or unlinking a file fail?
  UnmountFails,  \* may a mount resist every command?
  Crashes        \* may the processes crash?

ASSUME SshfsAssumption ==
  {SignFails, DiskFaults, UnmountFails, Crashes} \subseteq BOOLEAN

Callers == {"own", "cancel"}

VARIABLES
  \* The Delegator.
  dUp,
  keys, certs,   \* delegations with a private key, a certificate in keyDir
  stale,         \* certificates left from an earlier key
  credentials,   \* keys of activeCredentials
  preparing,     \* where generateCredential(id) waits
  revoking,      \* where a revokeCredential(id) waits, per caller
  issued,        \* delegations whose handle was sent to the Executor
  lostKeys,      \* history: keys left on disk as a read or an unlink failed
  \* The Executor.
  eUp,
  mounts,        \* delegations whose work directory is a mount
  tempKeys,      \* delegations with copies of their credential on disk, made
                 \* by this process
  activeMounts,  \* keys of activeMounts
  mounting,      \* where mount(id) waits
  sshfs,         \* the sshfs child of mount(id)
  timeout,       \* its timer: off, armed, or unmounting
  unmounting,    \* where an unmount(id) waits, and what it found in activeMounts
  lostCopies,    \* history: copies left as a write or an unlink of them failed
  stuck          \* history: mounts left by the last unmount(), all commands failed

delegatorVars == <<dUp, keys, certs, stale, credentials, preparing, revoking, issued,
                   lostKeys>>
executorVars == <<eUp, mounts, tempKeys, activeMounts, mounting, sshfs, timeout,
                  unmounting, lostCopies, stuck>>
vars == <<delegatorVars, executorVars>>

Preparing == {"idle", "keygen", "sign", "read", "over"}
Revoking == {"idle", "key", "cert"}
Mounting == {"idle", "check", "write", "sshfs", "verify", "undo", "mounted",
             "failed", "ended"}
NotUnmounting == [pc |-> "idle", found |-> FALSE]

TypeOK ==
  /\ dUp \in BOOLEAN /\ eUp \in BOOLEAN
  /\ keys \subseteq Ids /\ certs \subseteq Ids /\ stale \subseteq certs
  /\ credentials \subseteq Ids
  /\ issued \subseteq Ids /\ mounts \subseteq Ids /\ tempKeys \subseteq Ids
  /\ activeMounts \subseteq Ids
  /\ lostKeys \subseteq Ids /\ lostCopies \subseteq Ids /\ stuck \subseteq Ids
  /\ preparing \in [Ids -> Preparing]
  /\ revoking \in [Ids -> [Callers -> Revoking]]
  /\ mounting \in [Ids -> Mounting]
  /\ sshfs \in [Ids -> {"none", "running", "done", "dead"}]
  /\ timeout \in [Ids -> {"off", "armed", "unmounting"}]
  /\ unmounting \in [Ids -> [Callers ->
                       [pc : {"idle", "commands", "files"}, found : BOOLEAN]]]

Init ==
  /\ dUp = TRUE /\ eUp = TRUE
  /\ keys = {} /\ certs = {} /\ stale = {} /\ credentials = {} /\ issued = {}
  /\ preparing = [id \in Ids |-> "idle"]
  /\ revoking = [id \in Ids |-> [c \in Callers |-> "idle"]]
  /\ mounts = {} /\ tempKeys = {} /\ activeMounts = {}
  /\ lostKeys = {} /\ lostCopies = {} /\ stuck = {}
  /\ mounting = [id \in Ids |-> "idle"]
  /\ sshfs = [id \in Ids |-> "none"] /\ timeout = [id \in Ids |-> "off"]
  /\ unmounting = [id \in Ids |-> [c \in Callers |-> NotUnmounting]]

(***************************************************************************)
(* The Delegator: CredentialManager.  The CA key was made by the setup     *)
(* command.                                                                *)
(***************************************************************************)
PrepareTo(id, pc) == preparing' = [preparing EXCEPT ![id] = pc]

\* A resumed delegation has detached the transport before it prepares again.
Prepare(id) ==
  /\ dUp /\ preparing[id] = "idle" /\ id \notin credentials
  /\ PrepareTo(id, "keygen")
  /\ UNCHANGED <<dUp, keys, certs, stale, credentials, revoking, issued, lostKeys,
                 executorVars>>

\* ssh-keygen asks before it overwrites a key, on a pipe nobody writes to.
KeyMade(id) ==
  /\ dUp /\ preparing[id] = "keygen" /\ id \notin keys
  /\ keys' = keys \cup {id} /\ PrepareTo(id, "sign")
  /\ stale' = stale \cup (certs \cap {id}) /\ lostKeys' = lostKeys \ {id}
  /\ UNCHANGED <<dUp, certs, credentials, revoking, issued, executorVars>>

Signed(id) ==
  /\ dUp /\ preparing[id] = "sign"
  /\ certs' = certs \cup {id} /\ stale' = stale \ {id} /\ PrepareTo(id, "read")
  /\ UNCHANGED <<dUp, keys, credentials, revoking, issued, lostKeys, executorVars>>

\* A key that was made stays where it is, and no later revocation knows of it.
SigningFails(id) ==
  /\ SignFails /\ dUp /\ preparing[id] \in {"keygen", "sign"} /\ PrepareTo(id, "over")
  /\ UNCHANGED <<dUp, keys, certs, stale, credentials, revoking, issued, lostKeys,
                 executorVars>>

\* Both files are read: the handle goes out with START, unless the delegation
\* was cancelled meanwhile.
Prepared(id) ==
  /\ dUp /\ preparing[id] = "read" /\ PrepareTo(id, "over")
  /\ credentials' = credentials \cup {id}
  /\ issued' \in {issued, issued \cup {id}}
  /\ UNCHANGED <<dUp, keys, certs, stale, revoking, lostKeys, executorVars>>

\* One of them cannot be read: a signed key stays that is not in the map.
ReadingFails(id) ==
  /\ DiskFaults /\ dUp /\ preparing[id] = "read" /\ PrepareTo(id, "over")
  /\ lostKeys' = lostKeys \cup {id}
  /\ UNCHANGED <<dUp, keys, certs, stale, credentials, revoking, issued, executorVars>>

\* detach() and release(): nothing to do for a credential not in the map.
RevokeCredential(id, caller) ==
  /\ dUp /\ revoking[id][caller] = "idle" /\ id \in credentials
  /\ caller = "own" => preparing[id] = "over"
  /\ revoking' = [revoking EXCEPT ![id][caller] = "key"]
  /\ UNCHANGED <<dUp, keys, certs, stale, credentials, preparing, issued, lostKeys,
                 executorVars>>

\* An unlink that fails is ignored, here and below.
KeyUnlinked(id, caller) ==
  /\ dUp /\ revoking[id][caller] = "key"
  /\ \/ keys' = keys \ {id} /\ UNCHANGED lostKeys
     \/ /\ DiskFaults /\ id \in keys /\ UNCHANGED keys
        /\ lostKeys' = lostKeys \cup {id}
  /\ revoking' = [revoking EXCEPT ![id][caller] = "cert"]
  /\ UNCHANGED <<dUp, certs, stale, credentials, preparing, issued, executorVars>>

\* Mutant: the certificate is left.
CertKept(id, caller) ==
  /\ dUp /\ revoking[id][caller] = "cert"
  /\ credentials' = credentials \ {id}
  /\ revoking' = [revoking EXCEPT ![id][caller] = "idle"]
  /\ UNCHANGED <<dUp, keys, certs, stale, preparing, issued, lostKeys, executorVars>>

CertUnlinked(id, caller) ==
  /\ dUp /\ revoking[id][caller] = "cert"
  /\ \/ certs' = certs \ {id} /\ stale' = stale \ {id} /\ UNCHANGED lostKeys
     \/ /\ DiskFaults /\ id \in certs /\ UNCHANGED <<certs, stale>>
        /\ lostKeys' = lostKeys \cup {id}
  /\ credentials' = credentials \ {id}
  /\ revoking' = [revoking EXCEPT ![id][caller] = "idle"]
  /\ UNCHANGED <<dUp, keys, preparing, issued, executorVars>>

DelegatorCrash ==
  /\ Crashes /\ dUp /\ dUp' = FALSE /\ credentials' = {}
  /\ preparing' = [id \in Ids |-> "idle"]
  /\ revoking' = [id \in Ids |-> [c \in Callers |-> "idle"]]
  /\ UNCHANGED <<keys, certs, stale, issued, lostKeys, executorVars>>

\* Mutant: nothing is loaded.
LoadNothing ==
  /\ ~dUp /\ dUp' = TRUE
  /\ UNCHANGED <<keys, certs, stale, credentials, preparing, revoking, issued, lostKeys,
                 executorVars>>

\* loadAll(): a key with a certificate is a credential; one that cannot be
\* read is passed over.
LoadAll ==
  /\ ~dUp /\ dUp' = TRUE
  /\ credentials' \in IF DiskFaults THEN SUBSET (keys \cap certs)
                                     ELSE {keys \cap certs}
  /\ lostKeys' = (lostKeys \cup (keys \cap certs)) \ credentials'
  /\ UNCHANGED <<keys, certs, stale, preparing, revoking, issued, executorVars>>

(***************************************************************************)
(* The Executor: SshfsMountClient.                                         *)
(***************************************************************************)
MountTo(id, pc) == mounting' = [mounting EXCEPT ![id] = pc]

\* cleanupCredentialFiles(): an unlink that fails is ignored.
CleanUpCopies(id) ==
  \/ tempKeys' = tempKeys \ {id} /\ UNCHANGED lostCopies
  \/ /\ DiskFaults /\ id \in tempKeys /\ UNCHANGED tempKeys
     /\ lostCopies' = lostCopies \cup {id}

\* The commands of unmount() and forceUnmount(): one succeeds, or there is
\* nothing mounted, or all fail and a warning is logged.
RunCommands(id) ==
  \/ mounts' = mounts \ {id} /\ stuck' = stuck \ {id}
  \/ /\ UnmountFails /\ id \in mounts /\ UNCHANGED mounts
     /\ stuck' = stuck \cup {id}

\* setup() of the task's transport.
Mount(id) ==
  /\ eUp /\ id \in issued /\ mounting[id] = "idle" /\ MountTo(id, "check")
  /\ UNCHANGED <<delegatorVars, eUp, mounts, tempKeys, activeMounts, sshfs,
                 timeout, unmounting, lostCopies, stuck>>

SshfsMissing(id) ==
  /\ eUp /\ mounting[id] = "check" /\ MountTo(id, "failed")
  /\ UNCHANGED <<delegatorVars, eUp, mounts, tempKeys, activeMounts, sshfs,
                 timeout, unmounting, lostCopies, stuck>>

Checked(id) ==
  /\ eUp /\ mounting[id] = "check" /\ MountTo(id, "write")
  /\ UNCHANGED <<delegatorVars, eUp, mounts, tempKeys, activeMounts, sshfs,
                 timeout, unmounting, lostCopies, stuck>>

\* Mutant: nothing bounds the wait for sshfs.
StartedWithoutTimer(id) ==
  /\ eUp /\ mounting[id] = "write" /\ MountTo(id, "sshfs")
  /\ tempKeys' = tempKeys \cup {id}
  /\ sshfs' = [sshfs EXCEPT ![id] = "running"]
  /\ UNCHANGED <<delegatorVars, eUp, mounts, activeMounts, timeout, unmounting,
                 lostCopies, stuck>>

\* The files are written, under names made of the time: two mounts are taken
\* not to write in one millisecond.  sshfs and its timer are started.
CredentialsWritten(id) ==
  /\ eUp /\ mounting[id] = "write" /\ MountTo(id, "sshfs")
  /\ tempKeys' = tempKeys \cup {id}
  /\ sshfs' = [sshfs EXCEPT ![id] = "running"]
  /\ timeout' = [timeout EXCEPT ![id] = "armed"]
  /\ UNCHANGED <<delegatorVars, eUp, mounts, activeMounts, unmounting, lostCopies, stuck>>

\* mkdir() or a writeFile() rejects, before the try block: what was written
\* of the key stays, and only its caller's exception tells.
WritingFails(id) ==
  /\ DiskFaults /\ eUp /\ mounting[id] = "write" /\ MountTo(id, "failed")
  /\ \/ UNCHANGED <<tempKeys, lostCopies>>
     \/ tempKeys' = tempKeys \cup {id} /\ lostCopies' = lostCopies \cup {id}
  /\ UNCHANGED <<delegatorVars, eUp, mounts, activeMounts, sshfs, timeout, unmounting,
                 stuck>>

\* The child leaves a mount behind, or fails.
SshfsExits(id) ==
  /\ sshfs[id] = "running"
  /\ \/ sshfs' = [sshfs EXCEPT ![id] = "done"] /\ mounts' = mounts \cup {id}
     \/ sshfs' = [sshfs EXCEPT ![id] = "dead"] /\ UNCHANGED mounts
  /\ UNCHANGED <<delegatorVars, eUp, tempKeys, activeMounts, mounting, timeout,
                 unmounting, lostCopies, stuck>>

\* The child is killed, if it still runs, and what it mounted unmounted.
MountTimeout(id) ==
  /\ eUp /\ timeout[id] = "armed" /\ mounting[id] = "sshfs"
  /\ timeout' = [timeout EXCEPT ![id] = "unmounting"]
  /\ sshfs' = [sshfs EXCEPT ![id] = IF @ = "running" THEN "dead" ELSE @]
  /\ UNCHANGED <<delegatorVars, eUp, mounts, tempKeys, activeMounts, mounting,
                 unmounting, lostCopies, stuck>>

\* The timer's unmount() is through; its reject() may come too late.
TimeoutUnmounted(id) ==
  /\ eUp /\ timeout[id] = "unmounting" /\ RunCommands(id)
  /\ timeout' = [timeout EXCEPT ![id] = "off"]
  /\ IF mounting[id] = "sshfs" THEN MountTo(id, "undo") ELSE UNCHANGED mounting
  /\ UNCHANGED <<delegatorVars, eUp, tempKeys, activeMounts, sshfs, unmounting, lostCopies>>

\* 'close' of the child clears the timer: a failure rejects at once, a success
\* is verified.
SshfsClosed(id) ==
  /\ eUp /\ mounting[id] = "sshfs" /\ sshfs[id] \in {"done", "dead"}
  /\ timeout' = [timeout EXCEPT ![id] = IF @ = "armed" THEN "off" ELSE @]
  /\ sshfs' = [sshfs EXCEPT ![id] = "none"]
  /\ MountTo(id, IF sshfs[id] = "done" THEN "verify" ELSE "undo")
  /\ UNCHANGED <<delegatorVars, eUp, mounts, tempKeys, activeMounts, unmounting,
                 lostCopies, stuck>>

\* Is the directory on another device than its parent?
Verified(id) ==
  /\ eUp /\ mounting[id] = "verify"
  /\ IF id \in mounts
     THEN MountTo(id, "mounted") /\ activeMounts' = activeMounts \cup {id}
     ELSE MountTo(id, "undo") /\ UNCHANGED activeMounts
  /\ UNCHANGED <<delegatorVars, eUp, mounts, tempKeys, sshfs, timeout, unmounting,
                 lostCopies, stuck>>

\* Mutant: the copies stay.
MountRejected(id) ==
  /\ eUp /\ mounting[id] = "undo" /\ MountTo(id, "failed")
  /\ UNCHANGED <<delegatorVars, eUp, mounts, tempKeys, activeMounts, sshfs,
                 timeout, unmounting, lostCopies, stuck>>

\* The catch block of mount().
MountUndone(id) ==
  /\ eUp /\ mounting[id] = "undo" /\ MountTo(id, "failed") /\ CleanUpCopies(id)
  /\ UNCHANGED <<delegatorVars, eUp, mounts, activeMounts, sshfs, timeout, unmounting,
                 stuck>>

\* detach() or release(), at the end of the task, later by the retention
\* sweep, or by a cancellation.
Unmount(id, caller) ==
  /\ eUp /\ unmounting[id][caller].pc = "idle"
  /\ IF caller = "own"
     THEN mounting[id] \in {"mounted", "failed", "ended"} /\ MountTo(id, "ended")
     ELSE mounting[id] \notin {"idle", "ended"} /\ UNCHANGED mounting
  /\ unmounting' = [unmounting EXCEPT ![id][caller] =
                      [pc |-> "commands", found |-> id \in activeMounts]]
  /\ UNCHANGED <<delegatorVars, eUp, mounts, tempKeys, activeMounts, sshfs, timeout,
                 lostCopies, stuck>>

\* Mutant: only a mount of this process is unmounted.
KnownUnmounted(id, caller) ==
  /\ eUp /\ unmounting[id][caller].pc = "commands"
  /\ IF unmounting[id][caller].found THEN RunCommands(id) ELSE UNCHANGED <<mounts, stuck>>
  /\ unmounting' = [unmounting EXCEPT ![id][caller] =
                      [pc |-> "files", found |-> @.found]]
  /\ UNCHANGED <<delegatorVars, eUp, tempKeys, activeMounts, mounting, sshfs, timeout,
                 lostCopies>>

\* The commands are run for a mount in the map and for one that is not.
CommandsRun(id, caller) ==
  /\ eUp /\ unmounting[id][caller].pc = "commands" /\ RunCommands(id)
  /\ unmounting' = [unmounting EXCEPT ![id][caller] =
                      [pc |-> "files", found |-> @.found]]
  /\ UNCHANGED <<delegatorVars, eUp, tempKeys, activeMounts, mounting, sshfs, timeout,
                 lostCopies>>

\* What it found at its start is cleaned up, whatever came of the commands.
FilesRemoved(id, caller) ==
  /\ eUp /\ unmounting[id][caller].pc = "files"
  /\ unmounting' = [unmounting EXCEPT ![id][caller] = NotUnmounting]
  /\ IF unmounting[id][caller].found
     THEN CleanUpCopies(id) /\ activeMounts' = activeMounts \ {id}
     ELSE UNCHANGED <<tempKeys, lostCopies, activeMounts>>
  /\ UNCHANGED <<delegatorVars, eUp, mounts, mounting, sshfs, timeout, stuck>>

\* A mount outlives the process, and so does a child that has still to make
\* it.  The copies stay for good: their names are the time they were made at.
ExecutorCrash ==
  /\ Crashes /\ eUp /\ eUp' = FALSE /\ activeMounts' = {} /\ tempKeys' = {}
  /\ mounting' = [id \in Ids |-> IF mounting[id] = "idle" THEN "idle" ELSE "ended"]
  /\ timeout' = [id \in Ids |-> "off"]
  /\ unmounting' = [id \in Ids |-> [c \in Callers |-> NotUnmounting]]
  /\ UNCHANGED <<delegatorVars, mounts, sshfs, lostCopies, stuck>>

\* initialize() of the service releases the assignments it finds on disk.
ExecutorStarts ==
  /\ ~eUp /\ eUp' = TRUE
  /\ unmounting' = [id \in Ids |-> [c \in Callers |->
       IF c = "own" /\ mounting[id] = "ended"
       THEN [pc |-> "commands", found |-> FALSE] ELSE NotUnmounting]]
  /\ UNCHANGED <<delegatorVars, mounts, tempKeys, activeMounts, mounting, sshfs, timeout,
                 lostCopies, stuck>>

(***************************************************************************)
(* The specification.                                                      *)
(***************************************************************************)
Delegating(id) ==
  \/ KeyMade(id) \/ Signed(id) \/ SigningFails(id) \/ Prepared(id) \/ ReadingFails(id)
  \/ \E caller \in Callers : KeyUnlinked(id, caller) \/ CertUnlinked(id, caller)

Executing(id) ==
  \/ SshfsMissing(id) \/ Checked(id) \/ CredentialsWritten(id) \/ WritingFails(id)
  \/ SshfsExits(id)
  \/ TimeoutUnmounted(id) \/ SshfsClosed(id) \/ Verified(id) \/ MountUndone(id)
  \/ \E caller \in Callers : CommandsRun(id, caller) \/ FilesRemoved(id, caller)

Next ==
  \/ \E id \in Ids : Prepare(id) \/ Delegating(id)
  \/ \E id \in Ids : Mount(id) \/ Executing(id) \/ MountTimeout(id)
  \/ \E id \in Ids, caller \in Callers :
       RevokeCredential(id, caller) \/ Unmount(id, caller)
  \/ DelegatorCrash \/ LoadAll \/ ExecutorCrash \/ ExecutorStarts

Spec == Init /\ [][Next]_vars

\* The runtime resumes what awaits a file, a spawned command or a timer.
\* Nothing is asked of sshfs, of the services or of the crashes.
FairSpec ==
  /\ Spec
  /\ \A id \in Ids :
       /\ WF_vars(SshfsMissing(id) \/ Checked(id))
       /\ WF_vars(CredentialsWritten(id) \/ WritingFails(id))
       /\ WF_vars(MountTimeout(id)) /\ WF_vars(TimeoutUnmounted(id))
       /\ WF_vars(SshfsClosed(id)) /\ WF_vars(Verified(id)) /\ WF_vars(MountUndone(id))

(***************************************************************************)
(* Properties.                                                             *)
(***************************************************************************)
\* A credential that can be used is known to the CredentialManager, so that
\* its delegation's end revokes it: the one being issued, one on disk when
\* the daemon crashed, one whose revocation was interrupted.  Only a file
\* that could not be read or unlinked leaves one unknown.
UsableIsKnown ==
  dUp => \A id \in keys \cap (certs \ stale) :
    id \in credentials \/ preparing[id] = "read" \/ id \in lostKeys

\* What leaves the map of credentials by a revocation leaves the disk, even
\* when the end of the delegation and a cancellation revoke it together -
\* but for a file whose unlink failed, which nobody is told.
RevokedIsGone ==
  [][\A id \in credentials \ credentials' :
       dUp' => id \notin keys' \cup certs' \/ id \in lostKeys']_vars

\* An Executor holds copies of a credential only for a mount it is making or
\* remembers: whichever of a timeout, a failure, the task's end and a
\* cancellation comes first, and between which of their steps.  Only a copy
\* whose writing or unlinking failed is forgotten.
CopiesAreTracked ==
  eUp => \A id \in tempKeys :
    \/ id \in activeMounts \/ mounting[id] \in {"sshfs", "verify", "undo"}
    \/ id \in lostCopies

\* After the task's own detach() its directory is not a mount, and no child,
\* timer or cancellation still in flight makes it one again - but for a child
\* that outlived the process, and a mount that resisted every command of the
\* last unmount(): detach() and release() resolve for that one, too.
EndedIsUnmounted ==
  eUp => \A id \in Ids :
    /\ mounting[id] = "ended" /\ sshfs[id] # "done"
    /\ unmounting[id]["own"].pc # "commands"
    => id \notin mounts \/ id \in stuck

\* setup() of a mount ends although nothing makes the sshfs child exit: no
\* order of its timer and the child's end leaves the task waiting.
MountSettles ==
  \A id \in Ids :
    mounting[id] = "check" ~> mounting[id] \in {"mounted", "failed", "ended"}
=============================================================================
