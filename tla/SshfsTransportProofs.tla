------------------------- MODULE SshfsTransportProofs -------------------------
(***************************************************************************)
(* Proofs about SshfsTransport, for any number of delegations: types, that *)
(* a usable credential is known and its revocation removes it, and that    *)
(* copies of credentials and mounts do not outlive their owners, but where *)
(* a read, a write, an unlink or the commands of an unmount failed.  The   *)
(* two sides share no variable but what Mount reads, so each has an        *)
(* invariant of its own.                                                   *)
(***************************************************************************)
EXTENDS SshfsTransport, TLAPS

DelegatorTypeOK ==
  /\ dUp \in BOOLEAN
  /\ keys \subseteq Ids /\ certs \subseteq Ids /\ stale \subseteq certs
  /\ credentials \subseteq Ids
  /\ issued \subseteq Ids /\ lostKeys \subseteq Ids
  /\ preparing \in [Ids -> Preparing]
  /\ revoking \in [Ids -> [Callers -> Revoking]]

ExecutorTypeOK ==
  /\ eUp \in BOOLEAN
  /\ mounts \subseteq Ids /\ tempKeys \subseteq Ids
  /\ activeMounts \subseteq Ids
  /\ lostCopies \subseteq Ids /\ stuck \subseteq Ids
  /\ mounting \in [Ids -> Mounting]
  /\ sshfs \in [Ids -> {"none", "running", "done", "dead"}]
  /\ timeout \in [Ids -> {"off", "armed", "unmounting"}]
  /\ unmounting \in [Ids -> [Callers ->
                       [pc : {"idle", "commands", "files"}, found : BOOLEAN]]]

\* A revocation that unlinked the key is not overtaken by a new key: nothing
\* is revoked while a credential is made, and nothing known is made again.
RevocationInv ==
  /\ \A id \in Ids : preparing[id] \in {"keygen", "sign", "read"} =>
       id \notin credentials /\ \A c \in Callers : revoking[id][c] = "idle"
  /\ \A id \in Ids : preparing[id] = "idle" =>
       /\ revoking[id]["own"] = "idle"
       /\ revoking[id]["cancel"] # "idle" => id \in credentials
  /\ \A id \in Ids, c \in Callers : 
       revoking[id][c] = "cert" => id \notin keys \/ id \in lostKeys
  /\ ~dUp => /\ credentials = {}
             /\ \A id \in Ids : /\ preparing[id] = "idle"
                               /\ \A c \in Callers : revoking[id][c] = "idle"

DInv == DelegatorTypeOK /\ UsableIsKnown /\ RevocationInv

EInv ==
  /\ ExecutorTypeOK /\ CopiesAreTracked /\ EndedIsUnmounted
  /\ ~eUp => tempKeys = {}

IInv == DInv /\ EInv

LEMMA InvTyped == IInv => TypeOK
  BY DEF IInv, DInv, EInv, DelegatorTypeOK, ExecutorTypeOK, TypeOK

LEMMA InitInv == Init => IInv
<1> SUFFICES ASSUME Init PROVE IInv
  OBVIOUS
<1> USE DEF Init, Callers
<1>1. DelegatorTypeOK
  BY DEF DelegatorTypeOK, Preparing, Revoking
<1>2. ExecutorTypeOK
  BY DEF ExecutorTypeOK, Mounting, NotUnmounting
<1>3. UsableIsKnown /\ RevocationInv
  BY DEF UsableIsKnown, RevocationInv
<1>4. CopiesAreTracked /\ EndedIsUnmounted
  BY DEF CopiesAreTracked, EndedIsUnmounted
<1> QED BY <1>1, <1>2, <1>3, <1>4 DEF IInv, DInv, EInv

(***************************************************************************)
(* The Delegator.                                                          *)
(***************************************************************************)
LEMMA DUnchanged == ASSUME DInv, UNCHANGED delegatorVars PROVE DInv'
  BY DEF DInv, DelegatorTypeOK, UsableIsKnown, RevocationInv, delegatorVars

LEMMA PreparationKeeps ==
  ASSUME DInv, NEW id \in Ids,
         \/ Prepare(id) \/ KeyMade(id) \/ Signed(id) \/ SigningFails(id)
         \/ Prepared(id) \/ ReadingFails(id)
  PROVE  DInv'
<1> USE DEF DInv
<1>1. DelegatorTypeOK'
  BY DEF DelegatorTypeOK, Preparing, Prepare, KeyMade, Signed, SigningFails,
         Prepared, ReadingFails, PrepareTo
<1>2. UsableIsKnown'
  BY DEF DelegatorTypeOK, UsableIsKnown, Prepare, KeyMade, Signed,
         SigningFails, Prepared, ReadingFails, PrepareTo
<1>3. RevocationInv'
  <2>1. CASE Prepare(id)
    BY <2>1 DEF DelegatorTypeOK, RevocationInv, Prepare, PrepareTo, Callers
  <2>2. CASE KeyMade(id)
    BY <2>2 DEF DelegatorTypeOK, RevocationInv, KeyMade, PrepareTo
  <2>3. CASE Signed(id) \/ SigningFails(id)
    BY <2>3 DEF DelegatorTypeOK, RevocationInv, Signed, SigningFails, PrepareTo
  <2>4. CASE Prepared(id) \/ ReadingFails(id)
    BY <2>4 DEF DelegatorTypeOK, RevocationInv, Prepared, ReadingFails, PrepareTo
  <2> QED BY <2>1, <2>2, <2>3, <2>4
<1> QED BY <1>1, <1>2, <1>3

LEMMA RevocationKeeps ==
  ASSUME DInv, NEW id \in Ids, NEW c \in Callers,
         RevokeCredential(id, c) \/ KeyUnlinked(id, c) \/ CertUnlinked(id, c)
  PROVE  DInv'
<1> USE DEF DInv
<1>0. \A i \in Ids, d \in Callers :
        revoking'[i][d] # revoking[i][d] => i = id /\ d = c
  BY DEF DelegatorTypeOK, RevokeCredential, KeyUnlinked, CertUnlinked
<1>1. DelegatorTypeOK'
  BY DEF DelegatorTypeOK, Revoking, RevokeCredential, KeyUnlinked, CertUnlinked
<1>2. UsableIsKnown'
  BY DEF DelegatorTypeOK, UsableIsKnown, RevokeCredential, KeyUnlinked,
         CertUnlinked
<1>3. RevocationInv'
  <2>1. CASE RevokeCredential(id, c)
    <3>1. revoking'[id][c] = "key"
      BY <2>1 DEF RevokeCredential, DelegatorTypeOK
    <3>2. preparing[id] \notin {"keygen", "sign", "read"}
      BY <2>1 DEF RevokeCredential, RevocationInv
    <3> QED BY <1>0, <2>1, <3>1, <3>2 DEF RevocationInv, RevokeCredential, Callers
  <2>2. CASE KeyUnlinked(id, c)
    <3>1. revoking'[id][c] = "cert"
      BY <2>2 DEF KeyUnlinked, DelegatorTypeOK
    <3>2. preparing[id] \notin {"keygen", "sign", "read"}
      BY <2>2 DEF KeyUnlinked, RevocationInv
    <3> QED BY <1>0, <2>2, <3>1, <3>2 DEF RevocationInv, KeyUnlinked, Callers
  <2>3. CASE CertUnlinked(id, c)
    <3>1. revoking'[id][c] = "idle"
      BY <2>3 DEF CertUnlinked, DelegatorTypeOK
    <3>2. preparing[id] = "idle" => c = "cancel"
      BY <2>3 DEF CertUnlinked, RevocationInv, Callers
    <3> QED BY <1>0, <2>3, <3>1, <3>2 DEF RevocationInv, CertUnlinked, Callers
  <2> QED BY <2>1, <2>2, <2>3
<1> QED BY <1>1, <1>2, <1>3

LEMMA DelegatorLifeKeeps ==
  ASSUME DInv, DelegatorCrash \/ LoadAll
  PROVE  DInv'
<1> USE DEF DInv
<1>1. DelegatorTypeOK'
  <2>1. CASE DelegatorCrash
    BY <2>1 DEF DelegatorTypeOK, Preparing, Revoking, DelegatorCrash
  <2>2. CASE LoadAll
    BY <2>2 DEF DelegatorTypeOK, LoadAll
  <2> QED BY <2>1, <2>2
<1>2. UsableIsKnown'
  BY DEF UsableIsKnown, DelegatorCrash, LoadAll
<1>3. RevocationInv'
  BY DEF RevocationInv, DelegatorCrash, LoadAll, Callers
<1> QED BY <1>1, <1>2, <1>3

LEMMA DelegatorKeeps ==
  ASSUME DInv, NEW id \in Ids,
         \/ Prepare(id) \/ Delegating(id) \/ DelegatorCrash \/ LoadAll
         \/ \E c \in Callers : RevokeCredential(id, c)
  PROVE  DInv'
  BY PreparationKeeps, RevocationKeeps, DelegatorLifeKeeps DEF Delegating

ExecutorActs ==
  \/ ExecutorCrash \/ ExecutorStarts
  \/ \E id \in Ids : Mount(id) \/ Executing(id) \/ MountTimeout(id)
  \/ \E id \in Ids, c \in Callers : Unmount(id, c)

LEMMA SidesApart == ASSUME ExecutorActs PROVE UNCHANGED delegatorVars
  BY DEF ExecutorActs, ExecutorCrash, ExecutorStarts, Mount, Executing, MountTimeout,
     Unmount, SshfsMissing, Checked, CredentialsWritten, WritingFails, SshfsExits,
     TimeoutUnmounted, SshfsClosed, Verified, MountUndone, CommandsRun,
     FilesRemoved

\* The certificate goes last: what then leaves the map has left the disk.
LEMMA RevocationRemoves ==
  ASSUME IInv, [Next]_vars, NEW id \in credentials \ credentials', dUp'
  PROVE  id \notin keys' \cup certs' \/ id \in lostKeys'
<1>1. credentials' # credentials
  OBVIOUS
<1>2. CASE \E i \in Ids, c \in Callers : CertUnlinked(i, c)
  <2>1. PICK i \in Ids, c \in Callers : CertUnlinked(i, c)
    BY <1>2
  <2>2. i = id /\ (id \notin keys \/ id \in lostKeys)
    BY <2>1 DEF CertUnlinked, IInv, DInv, RevocationInv, DelegatorTypeOK
  <2> QED BY <2>1, <2>2 DEF CertUnlinked
<1>3. CASE LoadAll
  BY <1>3 DEF LoadAll, IInv, DInv, RevocationInv
<1> QED
  <2>1. ~DelegatorCrash /\ \A i \in Ids : ~Prepared(i)
    BY DEF DelegatorCrash, Prepared
  <2>2. ASSUME NEW i \in Ids, Prepare(i) \/ Delegating(i)
        PROVE  \E c \in Callers : CertUnlinked(i, c)
    BY <1>1, <2>1, <2>2 DEF Prepare, Delegating, KeyMade, Signed, SigningFails,
       ReadingFails, KeyUnlinked
  <2>3. ASSUME NEW i \in Ids, NEW c \in Callers
        PROVE  ~RevokeCredential(i, c)
    BY <1>1 DEF RevokeCredential
  <2>4. ~ExecutorActs /\ ~UNCHANGED vars
    BY <1>1, SidesApart DEF vars, delegatorVars
  <2> QED
    BY <1>2, <1>3, <2>1, <2>2, <2>3, <2>4 DEF Next, ExecutorActs

(***************************************************************************)
(* The Executor.                                                           *)
(***************************************************************************)
LEMMA EUnchanged == ASSUME EInv, UNCHANGED executorVars PROVE EInv'
  BY DEF EInv, ExecutorTypeOK, CopiesAreTracked, EndedIsUnmounted, executorVars

LEMMA MountKeeps ==
  ASSUME EInv, NEW id \in Ids,
         \/ Mount(id) \/ SshfsMissing(id) \/ Checked(id) \/ CredentialsWritten(id)
         \/ WritingFails(id) \/ SshfsClosed(id) \/ Verified(id) \/ MountUndone(id)
  PROVE  EInv'
<1> USE DEF EInv
<1>1. ExecutorTypeOK'
  BY DEF ExecutorTypeOK, Mounting, Mount, SshfsMissing, Checked,
         CredentialsWritten, WritingFails, SshfsClosed, Verified, MountUndone,
         CleanUpCopies, MountTo
<1>2. CopiesAreTracked'
  <2>1. CASE Mount(id) \/ SshfsMissing(id) \/ Checked(id)
    BY <2>1 DEF ExecutorTypeOK, CopiesAreTracked, Mount, SshfsMissing, Checked, MountTo
  <2>2. CASE CredentialsWritten(id)
    BY <2>2 DEF ExecutorTypeOK, CopiesAreTracked, CredentialsWritten, MountTo
  <2>5. CASE WritingFails(id)
    BY <2>5 DEF ExecutorTypeOK, CopiesAreTracked, WritingFails, MountTo
  <2>3. CASE SshfsClosed(id)
    <3>1. mounting'[id] \in {"verify", "undo"} /\ \A i \in Ids \ {id} : mounting'[i] = mounting[i]
      BY <2>3 DEF ExecutorTypeOK, SshfsClosed, MountTo
    <3> QED BY <2>3, <3>1 DEF ExecutorTypeOK, CopiesAreTracked, SshfsClosed
  <2>4. CASE Verified(id) \/ MountUndone(id)
    BY <2>4 DEF ExecutorTypeOK, CopiesAreTracked, Verified, MountUndone,
                CleanUpCopies, MountTo
  <2> QED BY <2>1, <2>2, <2>3, <2>4, <2>5
<1>3. EndedIsUnmounted'
  BY DEF ExecutorTypeOK, EndedIsUnmounted, Mount, SshfsMissing, Checked,
         CredentialsWritten, WritingFails, SshfsClosed, Verified, MountUndone, MountTo
<1>4. eUp'
  BY DEF Mount, SshfsMissing, Checked, CredentialsWritten, WritingFails,
         SshfsClosed, Verified, MountUndone
<1> QED BY <1>1, <1>2, <1>3, <1>4

LEMMA ChildKeeps ==
  ASSUME EInv, NEW id \in Ids,
         SshfsExits(id) \/ MountTimeout(id) \/ TimeoutUnmounted(id)
  PROVE  EInv'
<1> USE DEF EInv
<1>1. ExecutorTypeOK'
  BY DEF ExecutorTypeOK, Mounting, SshfsExits, MountTimeout, TimeoutUnmounted,
         RunCommands, MountTo
<1>2. CopiesAreTracked'
  BY DEF ExecutorTypeOK, CopiesAreTracked, SshfsExits, MountTimeout,
         TimeoutUnmounted, MountTo
<1>3. EndedIsUnmounted'
  <2>1. CASE SshfsExits(id)
    BY <2>1 DEF ExecutorTypeOK, EndedIsUnmounted, SshfsExits
  <2>2. CASE MountTimeout(id)
    BY <2>2 DEF ExecutorTypeOK, EndedIsUnmounted, MountTimeout
  <2>3. CASE TimeoutUnmounted(id)
    BY <2>3 DEF ExecutorTypeOK, EndedIsUnmounted, TimeoutUnmounted,
                RunCommands, MountTo
  <2> QED BY <2>1, <2>2, <2>3
<1>4. ~eUp' => tempKeys' = {}
  BY DEF SshfsExits, MountTimeout, TimeoutUnmounted
<1> QED BY <1>1, <1>2, <1>3, <1>4

LEMMA UnmountKeeps ==
  ASSUME EInv, NEW id \in Ids, NEW c \in Callers,
         Unmount(id, c) \/ CommandsRun(id, c) \/ FilesRemoved(id, c)
  PROVE  EInv'
<1> USE DEF EInv
<1>0. /\ unmounting' \in [Ids -> [Callers ->
                            [pc : {"idle", "commands", "files"}, found : BOOLEAN]]]
      /\ \A i \in Ids : unmounting'[i]["own"] # unmounting[i]["own"] =>
           i = id /\ c = "own"
  <2> DEFINE Call == [pc : {"idle", "commands", "files"}, found : BOOLEAN]
  <2>1. PICK call \in Call : unmounting' = [unmounting EXCEPT ![id][c] = call]
    <3>1. CASE Unmount(id, c)
      <4> DEFINE call == [pc |-> "commands", found |-> id \in activeMounts]
      <4>1. unmounting' = [unmounting EXCEPT ![id][c] = call]
        BY <3>1 DEF Unmount
      <4>2. call \in Call
        OBVIOUS
      <4> QED BY <4>1, <4>2
    <3>2. CASE CommandsRun(id, c)
      <4> DEFINE call == [pc |-> "files", found |-> unmounting[id][c].found]
      <4>1. unmounting' = [unmounting EXCEPT ![id][c] = call]
        BY <3>2 DEF CommandsRun
      <4>2. call \in Call
        BY DEF ExecutorTypeOK
      <4> QED BY <4>1, <4>2
    <3>3. CASE FilesRemoved(id, c)
      BY <3>3 DEF FilesRemoved, NotUnmounting
    <3> QED BY <3>1, <3>2, <3>3
  <2> QED BY <2>1 DEF ExecutorTypeOK, Callers
<1>1. ExecutorTypeOK'
  <2>1. CASE Unmount(id, c)
    BY <1>0, <2>1 DEF ExecutorTypeOK, Mounting, Unmount, MountTo
  <2>2. CASE CommandsRun(id, c)
    BY <1>0, <2>2 DEF ExecutorTypeOK, CommandsRun, RunCommands
  <2>3. CASE FilesRemoved(id, c)
    BY <1>0, <2>3 DEF ExecutorTypeOK, FilesRemoved, CleanUpCopies
  <2> QED BY <2>1, <2>2, <2>3
<1>2. CopiesAreTracked'
  BY DEF ExecutorTypeOK, CopiesAreTracked, Unmount, CommandsRun, FilesRemoved,
         CleanUpCopies, MountTo
<1>3. EndedIsUnmounted'
  <2>1. CASE Unmount(id, c)
    <3>1. c = "own" => unmounting'[id]["own"].pc = "commands"
      BY <2>1 DEF Unmount, ExecutorTypeOK, Callers
    <3> QED BY <1>0, <2>1, <3>1 DEF ExecutorTypeOK, EndedIsUnmounted, Unmount, MountTo
  <2>2. CASE CommandsRun(id, c)
    BY <1>0, <2>2 DEF ExecutorTypeOK, EndedIsUnmounted, CommandsRun, RunCommands
  <2>3. CASE FilesRemoved(id, c)
    BY <1>0, <2>3 DEF ExecutorTypeOK, EndedIsUnmounted, FilesRemoved
  <2> QED BY <2>1, <2>2, <2>3
<1>4. eUp'
  BY DEF Unmount, CommandsRun, FilesRemoved
<1> QED BY <1>1, <1>2, <1>3, <1>4

LEMMA ExecutorLifeKeeps ==
  ASSUME EInv, ExecutorCrash \/ ExecutorStarts
  PROVE  EInv'
<1> USE DEF EInv
<1>1. CASE ExecutorCrash
  <2>1. ExecutorTypeOK'
    BY <1>1 DEF ExecutorTypeOK, Mounting, NotUnmounting, ExecutorCrash
  <2> QED BY <1>1, <2>1 DEF CopiesAreTracked, EndedIsUnmounted, ExecutorCrash
<1>2. CASE ExecutorStarts
  <2>1. ExecutorTypeOK'
    BY <1>2 DEF ExecutorTypeOK, NotUnmounting, ExecutorStarts
  <2>2. EndedIsUnmounted'
    BY <1>2 DEF EndedIsUnmounted, ExecutorStarts, Callers
  <2> QED BY <1>2, <2>1, <2>2 DEF CopiesAreTracked, ExecutorStarts
<1> QED BY <1>1, <1>2

LEMMA ExecutorKeeps ==
  ASSUME EInv, NEW id \in Ids,
         \/ Mount(id) \/ Executing(id) \/ MountTimeout(id)
         \/ ExecutorCrash \/ ExecutorStarts
         \/ \E c \in Callers : Unmount(id, c)
  PROVE  EInv'
  BY MountKeeps, ChildKeeps, UnmountKeeps, ExecutorLifeKeeps DEF Executing

(***************************************************************************)
(* Both.                                                                   *)
(***************************************************************************)
LEMMA NextInv == IInv /\ [Next]_vars => IInv'
<1> SUFFICES ASSUME IInv, [Next]_vars PROVE IInv'
  OBVIOUS
<1> USE DEF IInv
<1>1. CASE \/ DelegatorCrash \/ LoadAll
           \/ \E id \in Ids : Prepare(id) \/ Delegating(id)
           \/ \E id \in Ids, c \in Callers : RevokeCredential(id, c)
  <2>1. UNCHANGED executorVars
    BY <1>1 DEF DelegatorCrash, LoadAll, Prepare, Delegating, KeyMade, Signed,
                SigningFails, Prepared, ReadingFails, KeyUnlinked, CertUnlinked, RevokeCredential
  <2>2. DInv'
    BY <1>1, DelegatorKeeps, DelegatorLifeKeeps
  <2> QED BY <2>1, <2>2, EUnchanged
<1>2. CASE ExecutorActs
  <2>1. UNCHANGED delegatorVars
    BY <1>2, SidesApart
  <2>2. EInv'
    BY <1>2, ExecutorKeeps, ExecutorLifeKeeps DEF ExecutorActs
  <2> QED BY <2>1, <2>2, DUnchanged
<1>3. CASE UNCHANGED vars
  BY <1>3, DUnchanged, EUnchanged DEF vars
<1> QED BY <1>1, <1>2, <1>3 DEF Next, ExecutorActs

\* The invariants of both sides, whatever overlaps and wherever they crash.
THEOREM SshfsInvariant == Spec => []IInv
  BY InitInv, NextInv, PTL DEF Spec

\* Every variable keeps to its type.
THEOREM TypeCorrect == Spec => []TypeOK
  BY SshfsInvariant, InvTyped, PTL

\* A key with its certificate in keyDir is one CredentialManager knows, so
\* that revokeCredential() will find it (credential-manager.ts), unless
\* reading or unlinking a file of it has failed.
THEOREM UsableKnown == Spec => []UsableIsKnown
<1>1. IInv => UsableIsKnown
  BY DEF IInv, DInv
<1> QED BY SshfsInvariant, <1>1, PTL

\* revokeCredential() leaves neither file, also when two callers revoke; what
\* stays is a file whose unlink failed.
THEOREM RevokedGone == Spec => RevokedIsGone
<1>1. IInv /\ [Next]_vars =>
        [\A id \in credentials \ credentials' :
           dUp' => id \notin keys' \cup certs' \/ id \in lostKeys']_vars
  BY RevocationRemoves
<1> QED BY SshfsInvariant, <1>1, PTL DEF Spec, RevokedIsGone

\* Copies of a credential belong to a mount that is made or remembered
\* (sshfs-client.ts): no order of timer, child, end and cancellation forgets
\* one, only a write or an unlink of it that failed.
THEOREM CopiesTracked == Spec => []CopiesAreTracked
<1>1. IInv => CopiesAreTracked
  BY DEF IInv, EInv
<1> QED BY SshfsInvariant, <1>1, PTL

\* The end of a task leaves no mount in its directory but one that no command
\* of the last unmount() could remove.
THEOREM EndedUnmounted == Spec => []EndedIsUnmounted
<1>1. IInv => EndedIsUnmounted
  BY DEF IInv, EInv
<1> QED BY SshfsInvariant, <1>1, PTL
=============================================================================
