------------------------------ MODULE GitTransport ------------------------------
(***************************************************************************)
(* The git transport (packages/transport-git): the Delegator commits a     *)
(* delegation's workspace to a repository of its own and pushes it, with   *)
(* --force, to the branch main of one remote; the Executor clones main,    *)
(* works on a task branch and pushes that; the Delegator fetches the task  *)
(* branch and merges it when the snapshot is applied.                      *)
(*                                                                         *)
(* All delegations share main, and between any two git commands others     *)
(* run: an Executor may well clone the workspace of another delegation.    *)
(* A delegation resumed after a crash prepares and runs a second time,     *)
(* while snapshots of its first run may be pending and, at the Executor,   *)
(* the first run may still execute, in the same directory.                 *)
(*                                                                         *)
(* An action is one git command that another side can see, with the local  *)
(* ones around it.                                                         *)
(***************************************************************************)
EXTENDS Naturals

CONSTANTS
  Ids,      \* delegations
  MaxRuns,  \* bound: a delegation is started and resumed this often
  None

Runs == 1..MaxRuns

\* The commit a preparation makes has no parent: it is the root of all that
\* is done on it.
Roots == Ids \X Runs

\* A work directory is a clone of a root, made by a run, and a task branch
\* holds commits of one clone.  Which commit of it is not distinguished: two
\* runs in one directory commit to the same history.
Clones == [root : Roots, clone : Runs]

ASSUME GitAssumption == MaxRuns \in Nat \ {0} /\ None \notin Roots \cup Clones

VARIABLES
  \* The Delegator.
  run,        \* how often a delegation was started
  preparing,  \* where prepare() waits
  repos,      \* activeRepos: the root in the delegation's repository
  branchOf,   \* of them, those whose taskBranch is remembered
  pending,    \* snapshots received and neither applied nor discarded
  applying,   \* the snapshots an applySnapshot() is at work on
  applied,    \* snapshots applied, with the commit merged and its base
  \* The remote.
  main, branches,
  \* The Executor.
  clones,     \* what a delegation's work directory holds
  setups,     \* activeSetups: the base commit of a START message
  executing,  \* where executeTask() of each run waits
  capturing   \* the setup captureSnapshot() of a run read

delegatorVars == <<run, preparing, repos, branchOf, pending, applying, applied>>
executorVars == <<clones, setups, executing, capturing>>
vars == <<delegatorVars, main, branches, executorVars>>

Snapshots == [id : Ids, run : Runs, commit : Clones]

TypeOK ==
  /\ run \in [Ids -> 0..MaxRuns]
  /\ preparing \in [Ids -> {"idle", "push", "started"}]
  /\ repos \in [Ids -> Roots \cup {None}]
  /\ branchOf \subseteq {id \in Ids : repos[id] # None}
  /\ pending \subseteq Snapshots
  /\ applying \subseteq Snapshots \X Clones
  /\ applied \subseteq [snapshot : Snapshots, commit : Clones, base : Roots]
  /\ main \in Roots \cup {None}
  /\ branches \in [Ids -> Clones \cup {None}]
  /\ clones \in [Ids -> Clones \cup {None}]
  /\ setups \in [Ids -> Roots \cup {None}]
  /\ executing \in [Ids -> [Runs -> {"idle", "setup", "task", "push", "diff", "over"}]]
  /\ capturing \in [Ids -> [Runs -> Roots \cup {None}]]

Init ==
  /\ run = [id \in Ids |-> 0]
  /\ preparing = [id \in Ids |-> "idle"]
  /\ repos = [id \in Ids |-> None]
  /\ branchOf = {} /\ pending = {} /\ applying = {} /\ applied = {}
  /\ main = None
  /\ branches = [id \in Ids |-> None]
  /\ clones = [id \in Ids |-> None]
  /\ setups = [id \in Ids |-> None]
  /\ executing = [id \in Ids |-> [r \in Runs |-> "idle"]]
  /\ capturing = [id \in Ids |-> [r \in Runs |-> None]]

(***************************************************************************)
(* The Delegator.                                                          *)
(***************************************************************************)
\* A delegation is started, or resumed after a crash.  The Executor detaches
\* what it had of it and accepts; the old work directory stays.
Invite(id) ==
  /\ preparing[id] = "idle" /\ run[id] < MaxRuns
  /\ preparing' = [preparing EXCEPT ![id] = "push"]
  /\ run' = [run EXCEPT ![id] = @ + 1]
  /\ setups' = [setups EXCEPT ![id] = None]
  /\ UNCHANGED <<repos, branchOf, pending, applying, applied, main, branches,
                 clones, executing, capturing>>

\* prepare(): a new repository with one commit, that is force-pushed to main.
\* START takes the base commit to the Executor.
Pushed(id) ==
  /\ preparing[id] = "push"
  /\ main' = <<id, run[id]>>
  /\ repos' = [repos EXCEPT ![id] = main']
  /\ branchOf' = branchOf \ {id}
  /\ preparing' = [preparing EXCEPT ![id] = "started"]
  /\ executing' = [executing EXCEPT ![id][run[id]] = "setup"]
  /\ UNCHANGED <<run, pending, applying, applied, branches, clones, setups,
                 capturing>>

PrepareFails(id) ==
  /\ preparing[id] = "push"
  /\ preparing' = [preparing EXCEPT ![id] = "started"]
  /\ UNCHANGED <<run, repos, branchOf, pending, applying, applied, main,
                 branches, executorVars>>

\* The first await of applySnapshot(): the branch is fetched by its name.
Fetch(s) ==
  /\ s \in pending
  /\ repos[s.id] # None /\ branches[s.id] # None
  /\ applying' = applying \cup {<<s, branches[s.id]>>}
  /\ UNCHANGED <<run, preparing, repos, branchOf, pending, applied, main,
                 branches, executorVars>>

\* applySnapshot() throws, for want of the repository or the branch, or git
\* fails: the exception is swallowed and the snapshot marked as applied.
FetchFails(s) ==
  /\ s \in pending /\ pending' = pending \ {s}
  /\ UNCHANGED <<run, preparing, repos, branchOf, applying, applied, main,
                 branches, executorVars>>

Applied(s, commit) ==
  /\ applied' = applied \cup {[snapshot |-> s, commit |-> commit, base |-> repos[s.id]]}
  /\ branchOf' = branchOf \cup {s.id}

\* Mutant: merge --allow-unrelated-histories.
MergeAnything(s, commit) ==
  /\ <<s, commit>> \in applying /\ applying' = applying \ {<<s, commit>>}
  /\ repos[s.id] # None /\ pending' = pending \ {s} /\ Applied(s, commit)
  /\ UNCHANGED <<run, preparing, repos, main, branches, executorVars>>

\* git refuses to merge a history with another root; what is merged is copied
\* to the sources and the task branch remembered.  A merge that was refused or
\* fails is swallowed, too.
Merge(s, commit) ==
  /\ <<s, commit>> \in applying /\ applying' = applying \ {<<s, commit>>}
  /\ pending' = pending \ {s}
  /\ \/ repos[s.id] = commit.root /\ Applied(s, commit)
     \/ UNCHANGED <<applied, branchOf>>
  /\ UNCHANGED <<run, preparing, repos, main, branches, executorVars>>

Discard(s) ==
  /\ s \in pending /\ pending' = pending \ {s}
  /\ UNCHANGED <<run, preparing, repos, branchOf, applying, applied, main,
                 branches, executorVars>>

\* Mutant: only the branch is deleted, the repository stays in the map.
ReleaseBranch(id) ==
  /\ repos[id] # None /\ \A r \in Runs : executing[id][r] \in {"idle", "over"}
  /\ repos' = [repos EXCEPT ![id] = None]
  /\ branches' = IF id \in branchOf THEN [branches EXCEPT ![id] = None] ELSE branches
  /\ UNCHANGED <<run, preparing, branchOf, pending, applying, applied, main,
                 executorVars>>

\* After the retention of a delegation that has ended, with its snapshots.
\* The remote branch goes if it was ever applied.
Release(id) ==
  /\ repos[id] # None /\ \A r \in Runs : executing[id][r] \in {"idle", "over"}
  /\ repos' = [repos EXCEPT ![id] = None]
  /\ branchOf' = branchOf \ {id}
  /\ branches' = IF id \in branchOf THEN [branches EXCEPT ![id] = None] ELSE branches
  /\ pending' = {s \in pending : s.id # id}
  /\ run' = [run EXCEPT ![id] = MaxRuns]
  /\ UNCHANGED <<preparing, applying, applied, main, executorVars>>

\* A crash and the next start: the map is not stored, and initialize()
\* removes the repositories.
DelegatorRestart ==
  /\ repos' = [id \in Ids |-> None] /\ branchOf' = {} /\ applying' = {}
  /\ preparing' = [id \in Ids |-> "idle"]
  /\ UNCHANGED <<run, pending, applied, main, branches, executorVars>>

(***************************************************************************)
(* The Executor.                                                           *)
(***************************************************************************)
ExecuteTo(id, r, pc) == executing' = [executing EXCEPT ![id][r] = pc]

\* setup(): main is cloned, whatever it is by now, into an empty directory: a
\* run that finds the clone of an earlier one fails.
Clone(id, r) ==
  /\ executing[id][r] = "setup" /\ clones[id] = None /\ main # None
  /\ clones' = [clones EXCEPT ![id] = [root |-> main, clone |-> r]]
  /\ setups' = [setups EXCEPT ![id] = <<id, r>>]
  /\ ExecuteTo(id, r, "task")
  /\ UNCHANGED <<delegatorVars, main, branches, capturing>>

CloneFails(id, r) ==
  /\ executing[id][r] = "setup" /\ clones[id] # None /\ ExecuteTo(id, r, "over")
  /\ setups' = [setups EXCEPT ![id] = None]
  /\ UNCHANGED <<delegatorVars, main, branches, clones, capturing>>

\* captureSnapshot() once the task ran: a cancellation or a new INVITE may
\* have removed its setup, and a later run made another one.
Capture(id, r) ==
  /\ executing[id][r] = "task"
  /\ IF setups[id] = None \/ clones[id] = None
     THEN ExecuteTo(id, r, "over") /\ UNCHANGED capturing
     ELSE ExecuteTo(id, r, "push") /\ capturing' = [capturing EXCEPT ![id][r] = setups[id]]
  /\ UNCHANGED <<delegatorVars, main, branches, clones, setups>>

\* The end of executeTask(), by an error or after the last event.
Ends(id, r) ==
  /\ ExecuteTo(id, r, "over")
  /\ setups' = [setups EXCEPT ![id] = None]

\* Mutant: push --force.
PushForced(id, r) ==
  /\ executing[id][r] = "push" /\ clones[id] # None
  /\ branches' = [branches EXCEPT ![id] = clones[id]] /\ ExecuteTo(id, r, "diff")
  /\ UNCHANGED <<delegatorVars, main, clones, setups, capturing>>

\* A push is refused unless the branch is new or of the same clone.
Push(id, r) ==
  /\ executing[id][r] = "push" /\ clones[id] # None
  /\ IF branches[id] \in {None, clones[id]}
     THEN /\ branches' = [branches EXCEPT ![id] = clones[id]]
          /\ ExecuteTo(id, r, "diff") /\ UNCHANGED setups
     ELSE Ends(id, r) /\ UNCHANGED branches
  /\ UNCHANGED <<delegatorVars, main, clones, capturing>>

\* The snapshot event reaches the Delegator that started this run.
Emitted(id, r) ==
  pending' = IF preparing[id] = "started" /\ run[id] = r
             THEN pending \cup {[id |-> id, run |-> r, commit |-> clones[id]]}
             ELSE pending

\* Mutant: the changed files are not computed.
CapturedUndiffed(id, r) ==
  /\ executing[id][r] = "diff" /\ clones[id] # None
  /\ Emitted(id, r) /\ Ends(id, r)
  /\ UNCHANGED <<run, preparing, repos, branchOf, applying, applied, main,
                 branches, clones, capturing>>

\* diff fails if the clone does not have the base commit.
Captured(id, r) ==
  /\ executing[id][r] = "diff" /\ clones[id] # None
  /\ IF capturing[id][r] = clones[id].root THEN Emitted(id, r) ELSE UNCHANGED pending
  /\ Ends(id, r)
  /\ UNCHANGED <<run, preparing, repos, branchOf, applying, applied, main,
                 branches, clones, capturing>>

\* A cancellation detaches while the task goes on.
Detach(id) ==
  /\ setups[id] # None /\ setups' = [setups EXCEPT ![id] = None]
  /\ UNCHANGED <<delegatorVars, main, branches, clones, executing, capturing>>

\* The Executor's sweep releases what has ended there, with the directory.
\* The retention it waits for is taken to be longer than a capture.
Sweep(id) ==
  /\ clones[id] # None /\ \A r \in Runs : executing[id][r] \notin {"push", "diff"}
  /\ clones' = [clones EXCEPT ![id] = None] /\ setups' = [setups EXCEPT ![id] = None]
  /\ UNCHANGED <<delegatorVars, main, branches, executing, capturing>>

\* A crash, and the release of everything found on disk.
ExecutorRestart ==
  /\ clones' = [id \in Ids |-> None] /\ setups' = [id \in Ids |-> None]
  /\ executing' = [id \in Ids |-> [r \in Runs |->
                     IF executing[id][r] = "idle" THEN "idle" ELSE "over"]]
  /\ UNCHANGED <<delegatorVars, main, branches, capturing>>

(***************************************************************************)
(* The specification.                                                      *)
(***************************************************************************)
Preparation(id) ==
  Invite(id) \/ Pushed(id) \/ PrepareFails(id) \/ Release(id)

Execution(id, r) ==
  \/ Clone(id, r) \/ CloneFails(id, r) \/ Capture(id, r) \/ Push(id, r)
  \/ Captured(id, r)

Next ==
  \/ \E id \in Ids : Preparation(id) \/ Detach(id) \/ Sweep(id)
  \/ \E s \in pending : Fetch(s) \/ FetchFails(s) \/ Discard(s)
  \/ \E a \in applying : Merge(a[1], a[2])
  \/ \E id \in Ids, r \in Runs : Execution(id, r)
  \/ DelegatorRestart \/ ExecutorRestart

Spec == Init /\ [][Next]_vars

(***************************************************************************)
(* Properties.                                                             *)
(***************************************************************************)
\* A snapshot holds work on the workspace its run was started with, although
\* the Executor may have cloned another delegation's and two runs may have
\* worked in one directory: the diff with the base commit is all that tells.
SnapshotIsOwn == \A s \in pending : s.commit.root = <<s.id, s.run>>

\* Until it is applied or discarded, the branch a snapshot names holds the
\* work it was taken of: a snapshot is a name, and a later run of the
\* delegation, from another clone, pushes to the same one.
PendingIsIntact == \A s \in pending : branches[s.id] = s.commit

\* What reaches the sources is the work the snapshot was taken of, done on the
\* workspace the Delegator prepared last.
AppliedIsOwn ==
  \A a \in applied : a.commit = a.snapshot.commit /\ a.base = <<a.snapshot.id, a.snapshot.run>>
=============================================================================
