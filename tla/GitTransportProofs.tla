-------------------------- MODULE GitTransportProofs --------------------------
(***************************************************************************)
(* Proofs about GitTransport, for any number of delegations that share the *)
(* remote and any number of runs of each: types, and that snapshots hold,  *)
(* keep and apply the work of their own run.                               *)
(***************************************************************************)
EXTENDS GitTransport, TLAPS

\* Once a run was started, main is no earlier run's of its delegation.
StartedRuns ==
  /\ \A id \in Ids : preparing[id] = "push" => run[id] # 0
  /\ \A id \in Ids, r \in Runs : executing[id][r] # "idle" =>
       /\ r <= run[id]
       /\ \A k \in Runs : k < r => main # <<id, k>>

\* Setups are of the delegation's own runs.
OwnSetups ==
  /\ \A id \in Ids : setups[id] # None =>
       \E k \in Runs : k <= run[id] /\ setups[id] = <<id, k>>
  /\ \A id \in Ids, r \in Runs : capturing[id][r] # None =>
       \E k \in Runs : k <= run[id] /\ capturing[id][r] = <<id, k>>

\* A run that cloned works in no directory of an earlier run.
OwnClones ==
  \A id \in Ids, r \in Runs :
    executing[id][r] \in {"task", "push", "diff"} /\ clones[id] # None =>
      \A k \in Runs : k < r => clones[id].root # <<id, k>>

\* From its push to its snapshot event a run's branch and clone agree.
PushedBranch ==
  \A id \in Ids, r \in Runs :
    executing[id][r] = "diff" => clones[id] # None /\ branches[id] = clones[id]

\* What was fetched is what the snapshot was taken of.
FetchedIsOwn ==
  \A s \in Snapshots, c \in Clones : <<s, c>> \in applying =>
    c = s.commit /\ c.root = <<s.id, s.run>>

IInv ==
  /\ TypeOK
  /\ StartedRuns /\ OwnSetups /\ OwnClones /\ PushedBranch /\ FetchedIsOwn
  /\ SnapshotIsOwn /\ PendingIsIntact /\ AppliedIsOwn

LEMMA InitInv == Init => IInv
<1> SUFFICES ASSUME Init PROVE IInv
  OBVIOUS
<1> USE GitAssumption DEF Init
<1>1. TypeOK
  BY DEF TypeOK
<1>2. StartedRuns /\ OwnSetups /\ OwnClones /\ PushedBranch
  BY DEF StartedRuns, OwnSetups, OwnClones, PushedBranch
<1>3. FetchedIsOwn /\ SnapshotIsOwn /\ PendingIsIntact /\ AppliedIsOwn
  BY DEF FetchedIsOwn, SnapshotIsOwn, PendingIsIntact, AppliedIsOwn
<1> QED BY <1>1, <1>2, <1>3 DEF IInv

(***************************************************************************)
(* The Delegator.                                                          *)
(***************************************************************************)
LEMMA InviteKeeps == ASSUME IInv, NEW id \in Ids, Invite(id) PROVE IInv'
<1> USE GitAssumption DEF IInv, Invite, executorVars
<1>1. /\ run' \in [Ids -> 0..MaxRuns] /\ preparing' \in [Ids -> {"idle", "push", "started"}]
      /\ setups' \in [Ids -> Roots \cup {None}]
      /\ run'[id] = run[id] + 1 /\ \A i \in Ids : run[i] <= run'[i]
      /\ \A i \in Ids \ {id} : run'[i] = run[i] /\ preparing'[i] = preparing[i]
      /\ \A i \in Ids : setups'[i] = None \/ setups'[i] = setups[i]
      /\ \A i \in Ids : run[i] \in Nat /\ run'[i] \in Nat
  BY DEF TypeOK
<1>2. TypeOK'
  BY <1>1 DEF TypeOK
<1>3. StartedRuns'
  BY <1>1 DEF StartedRuns, Runs
<1>4. OwnSetups'
  <2>1. \A i \in Ids, k \in Runs : k <= run[i] => k <= run'[i]
    BY <1>1 DEF Runs
  <2> QED BY <1>1, <2>1 DEF OwnSetups
<1>5. OwnClones' /\ PushedBranch' /\ FetchedIsOwn'
  BY DEF OwnClones, PushedBranch, FetchedIsOwn
<1>6. SnapshotIsOwn' /\ PendingIsIntact' /\ AppliedIsOwn'
  BY DEF SnapshotIsOwn, PendingIsIntact, AppliedIsOwn
<1> QED BY <1>2, <1>3, <1>4, <1>5, <1>6

LEMMA PushedKeeps == ASSUME IInv, NEW id \in Ids, Pushed(id) PROVE IInv'
<1> USE GitAssumption DEF IInv, Pushed
<1>1. run[id] \in Runs
  BY DEF TypeOK, StartedRuns, Runs
<1>2. main' \in Roots /\ repos' \in [Ids -> Roots \cup {None}] /\ repos'[id] # None
  BY <1>1 DEF TypeOK, Roots
<1>3. \A i \in Ids, r \in Runs :
        executing'[i][r] = IF i = id /\ r = run[id] THEN "setup" ELSE executing[i][r]
  BY <1>1 DEF TypeOK
<1>4. executing' \in [Ids -> [Runs -> {"idle", "setup", "task", "push", "diff", "over"}]]
  BY <1>1 DEF TypeOK
<1>5. TypeOK'
  <2>1. branchOf' \subseteq {i \in Ids : repos'[i] # None}
    BY <1>2 DEF TypeOK
  <2>2. preparing' \in [Ids -> {"idle", "push", "started"}]
    BY DEF TypeOK
  <2> QED BY <1>2, <1>4, <2>1, <2>2 DEF TypeOK
<1>6. StartedRuns'
  <2>1. \A i \in Ids : preparing'[i] = "push" => run'[i] # 0
    BY DEF TypeOK, StartedRuns
  <2>2. ASSUME NEW i \in Ids, NEW r \in Runs, executing'[i][r] # "idle"
        PROVE  r <= run'[i] /\ \A k \in Runs : k < r => main' # <<i, k>>
    BY <1>1, <1>3, <2>2 DEF StartedRuns, Runs
  <2> QED BY <2>1, <2>2 DEF StartedRuns
<1>7. OwnSetups'
  BY DEF OwnSetups
<1>8. OwnClones' /\ PushedBranch'
  BY <1>3 DEF OwnClones, PushedBranch
<1>9. FetchedIsOwn' /\ SnapshotIsOwn' /\ PendingIsIntact' /\ AppliedIsOwn'
  BY DEF FetchedIsOwn, SnapshotIsOwn, PendingIsIntact, AppliedIsOwn
<1> QED BY <1>5, <1>6, <1>7, <1>8, <1>9

LEMMA PrepareFailsKeeps == ASSUME IInv, NEW id \in Ids, PrepareFails(id) PROVE IInv'
<1> USE DEF IInv, PrepareFails, executorVars
<1>1. TypeOK'
  BY DEF TypeOK
<1>2. StartedRuns'
  BY DEF StartedRuns, TypeOK
<1>3. OwnSetups' /\ OwnClones' /\ PushedBranch' /\ FetchedIsOwn'
  BY DEF OwnSetups, OwnClones, PushedBranch, FetchedIsOwn
<1>4. SnapshotIsOwn' /\ PendingIsIntact' /\ AppliedIsOwn'
  BY DEF SnapshotIsOwn, PendingIsIntact, AppliedIsOwn
<1> QED BY <1>1, <1>2, <1>3, <1>4

LEMMA FetchKeeps == ASSUME IInv, NEW s \in pending, Fetch(s) PROVE IInv'
<1> USE DEF IInv, Fetch, executorVars
<1>1. s \in Snapshots /\ s.id \in Ids
  BY DEF TypeOK, Snapshots
<1>2. branches[s.id] = s.commit /\ s.commit \in Clones /\ s.commit.root = <<s.id, s.run>>
  BY <1>1 DEF PendingIsIntact, SnapshotIsOwn, Snapshots
<1>3. TypeOK'
  BY <1>1, <1>2 DEF TypeOK
<1>4. FetchedIsOwn'
  BY <1>2 DEF FetchedIsOwn
<1>5. StartedRuns' /\ OwnSetups' /\ OwnClones' /\ PushedBranch'
  BY DEF StartedRuns, OwnSetups, OwnClones, PushedBranch
<1>6. SnapshotIsOwn' /\ PendingIsIntact' /\ AppliedIsOwn'
  BY DEF SnapshotIsOwn, PendingIsIntact, AppliedIsOwn
<1> QED BY <1>3, <1>4, <1>5, <1>6

LEMMA MergeKeeps ==
  ASSUME IInv, NEW s \in Snapshots, NEW commit \in Clones, Merge(s, commit)
  PROVE  IInv'
<1> USE GitAssumption DEF IInv, Merge, executorVars
<1>1. s.id \in Ids /\ commit = s.commit /\ commit.root = <<s.id, s.run>>
  BY DEF FetchedIsOwn, Snapshots
<1>2. /\ applying' \subseteq applying /\ pending' \subseteq pending
      /\ UNCHANGED <<run, preparing, repos, main, branches, clones, setups,
                     executing, capturing>>
  BY DEF Applied
<1>3. /\ applied' \subseteq [snapshot : Snapshots, commit : Clones, base : Roots]
      /\ branchOf' \subseteq {id \in Ids : repos[id] # None}
      /\ AppliedIsOwn'
  <2>1. CASE repos[s.id] = commit.root /\ Applied(s, commit)
    <3> DEFINE a == [snapshot |-> s, commit |-> commit, base |-> repos[s.id]]
    <3>1. commit.root \in Roots
      BY DEF Clones
    <3>2. a \in [snapshot : Snapshots, commit : Clones, base : Roots]
      BY <2>1, <3>1
    <3>3. applied' = applied \cup {a} /\ branchOf' = branchOf \cup {s.id}
      BY <2>1 DEF Applied
    <3>4. a.commit = a.snapshot.commit /\ a.base = <<a.snapshot.id, a.snapshot.run>>
      BY <1>1, <2>1
    <3> HIDE DEF a
    <3>5. AppliedIsOwn'
      BY <3>3, <3>4 DEF AppliedIsOwn
    <3> QED BY <1>1, <2>1, <3>1, <3>2, <3>3, <3>5 DEF TypeOK
  <2>2. CASE UNCHANGED <<applied, branchOf>>
    BY <2>2 DEF TypeOK, AppliedIsOwn
  <2> QED BY <2>1, <2>2
<1>4. TypeOK'
  BY <1>2, <1>3 DEF TypeOK
<1>5. StartedRuns' /\ OwnSetups' /\ OwnClones' /\ PushedBranch'
  BY <1>2 DEF StartedRuns, OwnSetups, OwnClones, PushedBranch
<1>6. SnapshotIsOwn' /\ PendingIsIntact' /\ FetchedIsOwn'
  BY <1>2 DEF SnapshotIsOwn, PendingIsIntact, FetchedIsOwn
<1> QED BY <1>3, <1>4, <1>5, <1>6

LEMMA DiscardKeeps ==
  ASSUME IInv, NEW s \in pending, FetchFails(s) \/ Discard(s)
  PROVE  IInv'
<1> USE DEF IInv, FetchFails, Discard, executorVars
<1>1. TypeOK'
  BY DEF TypeOK
<1>2. StartedRuns' /\ OwnSetups' /\ OwnClones' /\ PushedBranch' /\ FetchedIsOwn'
  BY DEF StartedRuns, OwnSetups, OwnClones, PushedBranch, FetchedIsOwn
<1>3. SnapshotIsOwn' /\ PendingIsIntact' /\ AppliedIsOwn'
  BY DEF SnapshotIsOwn, PendingIsIntact, AppliedIsOwn
<1> QED BY <1>1, <1>2, <1>3

LEMMA ReleaseKeeps == ASSUME IInv, NEW id \in Ids, Release(id) PROVE IInv'
<1> USE GitAssumption DEF IInv, Release, executorVars
<1>1. /\ run' \in [Ids -> 0..MaxRuns] /\ \A i \in Ids : run'[i] \in {run[i], MaxRuns}
      /\ run'[id] = MaxRuns
  BY DEF TypeOK
<1>2. TypeOK'
  BY <1>1 DEF TypeOK
<1>3. \A i \in Ids, k \in Runs : k <= run[i] => k <= run'[i]
  BY <1>1 DEF TypeOK, Runs
<1>4. StartedRuns' /\ OwnSetups'
  <2>1. MaxRuns # 0
    BY DEF Runs
  <2>2. StartedRuns'
    BY <1>1, <1>3, <2>1 DEF StartedRuns
  <2>3. OwnSetups'
    BY <1>3 DEF OwnSetups
  <2> QED BY <2>2, <2>3
<1>5. \A i \in Ids \ {id} : branches'[i] = branches[i]
  BY DEF TypeOK
<1>6. OwnClones' /\ PushedBranch' /\ FetchedIsOwn'
  BY <1>5 DEF OwnClones, PushedBranch, FetchedIsOwn
<1>7. SnapshotIsOwn' /\ PendingIsIntact' /\ AppliedIsOwn'
  BY <1>5 DEF SnapshotIsOwn, PendingIsIntact, AppliedIsOwn, TypeOK, Snapshots
<1> QED BY <1>2, <1>4, <1>6, <1>7

LEMMA DelegatorRestartKeeps == ASSUME IInv, DelegatorRestart PROVE IInv'
<1> USE DEF IInv, DelegatorRestart, executorVars
<1>1. TypeOK'
  BY DEF TypeOK
<1>2. StartedRuns' /\ OwnSetups' /\ OwnClones' /\ PushedBranch' /\ FetchedIsOwn'
  BY DEF StartedRuns, OwnSetups, OwnClones, PushedBranch, FetchedIsOwn
<1>3. SnapshotIsOwn' /\ PendingIsIntact' /\ AppliedIsOwn'
  BY DEF SnapshotIsOwn, PendingIsIntact, AppliedIsOwn
<1> QED BY <1>1, <1>2, <1>3

(***************************************************************************)
(* The Executor.                                                           *)
(***************************************************************************)
\* What a step of a run does to the places of the runs.
LEMMA PlaceTyped ==
  ASSUME TypeOK, NEW id \in Ids, NEW r \in Runs,
         NEW place \in {"idle", "setup", "task", "push", "diff", "over"},
         ExecuteTo(id, r, place)
  PROVE  /\ executing' \in [Ids -> [Runs -> {"idle", "setup", "task", "push", "diff", "over"}]]
         /\ \A i \in Ids, k \in Runs :
              executing'[i][k] = IF i = id /\ k = r THEN place ELSE executing[i][k]
  BY DEF TypeOK, ExecuteTo

LEMMA CloneKeeps ==
  ASSUME IInv, NEW id \in Ids, NEW r \in Runs, Clone(id, r) PROVE IInv'
<1> USE GitAssumption DEF IInv, Clone, delegatorVars
<1>1. /\ executing' \in [Ids -> [Runs -> {"idle", "setup", "task", "push", "diff", "over"}]]
      /\ \A i \in Ids, k \in Runs :
           executing'[i][k] = IF i = id /\ k = r THEN "task" ELSE executing[i][k]
  BY PlaceTyped
<1>2. main \in Roots /\ <<id, r>> \in Roots
  BY DEF TypeOK, Roots
<1>3. /\ clones' \in [Ids -> Clones \cup {None}] /\ setups' \in [Ids -> Roots \cup {None}]
      /\ clones'[id].root = main /\ setups'[id] = <<id, r>>
      /\ \A i \in Ids \ {id} : clones'[i] = clones[i] /\ setups'[i] = setups[i]
  BY <1>2 DEF TypeOK, Clones
<1>4. TypeOK'
  BY <1>1, <1>3 DEF TypeOK
<1>5. StartedRuns'
  BY <1>1 DEF StartedRuns
<1>6. OwnSetups'
  <2>1. r <= run[id]
    BY DEF StartedRuns
  <2> QED BY <1>3, <2>1 DEF OwnSetups
<1>7. OwnClones'
  <2>1. ASSUME NEW k \in Runs, executing'[id][k] # "idle"
        PROVE  \A l \in Runs : l < k => main # <<id, l>>
    BY <1>1, <2>1 DEF StartedRuns
  <2>2. ASSUME NEW i \in Ids \ {id}, NEW k \in Runs,
               executing'[i][k] \in {"task", "push", "diff"}, clones'[i] # None
        PROVE  \A l \in Runs : l < k => clones'[i].root # <<i, l>>
    BY <1>1, <1>3, <2>2 DEF OwnClones
  <2>3. ASSUME NEW k \in Runs, executing'[id][k] \in {"task", "push", "diff"}
        PROVE  \A l \in Runs : l < k => clones'[id].root # <<id, l>>
    BY <1>3, <2>1, <2>3
  <2> QED BY <2>2, <2>3 DEF OwnClones
<1>8. PushedBranch'
  BY <1>1, <1>3 DEF PushedBranch
<1>9. FetchedIsOwn' /\ SnapshotIsOwn' /\ PendingIsIntact' /\ AppliedIsOwn'
  BY DEF FetchedIsOwn, SnapshotIsOwn, PendingIsIntact, AppliedIsOwn
<1> QED BY <1>4, <1>5, <1>6, <1>7, <1>8, <1>9

\* A step of a run that clones, pushes and reports nothing.
LEMMA RunKeeps ==
  ASSUME IInv, NEW id \in Ids, NEW r \in Runs, NEW place \in {"push", "over"},
         ExecuteTo(id, r, place), executing[id][r] # "idle",
         place = "push" => executing[id][r] = "task",
         UNCHANGED <<delegatorVars, main, branches, clones>>,
         setups' \in {setups, [setups EXCEPT ![id] = None]},
         capturing' \in {capturing, [capturing EXCEPT ![id][r] = setups[id]]}
  PROVE  IInv'
<1> USE DEF IInv, delegatorVars
<1>1. /\ executing' \in [Ids -> [Runs -> {"idle", "setup", "task", "push", "diff", "over"}]]
      /\ \A i \in Ids, k \in Runs :
           executing'[i][k] = IF i = id /\ k = r THEN place ELSE executing[i][k]
  BY PlaceTyped
<1>2. /\ setups' \in [Ids -> Roots \cup {None}]
      /\ \A i \in Ids : setups'[i] \in {setups[i], None}
      /\ capturing' \in [Ids -> [Runs -> Roots \cup {None}]]
      /\ \A i \in Ids, k \in Runs : capturing'[i][k] \in {capturing[i][k], setups[i]}
  <2>1. /\ setups' \in [Ids -> Roots \cup {None}]
        /\ \A i \in Ids : setups'[i] \in {setups[i], None}
    BY DEF TypeOK
  <2>2. CASE UNCHANGED capturing
    BY <2>1, <2>2 DEF TypeOK
  <2>3. CASE capturing' = [capturing EXCEPT ![id][r] = setups[id]]
    BY <2>1, <2>3 DEF TypeOK
  <2> QED BY <2>2, <2>3
<1>3. TypeOK'
  BY <1>1, <1>2 DEF TypeOK
<1>4. StartedRuns'
  BY <1>1 DEF StartedRuns
<1>5. OwnSetups'
  BY <1>2 DEF OwnSetups
<1>6. OwnClones' /\ PushedBranch'
  BY <1>1 DEF OwnClones, PushedBranch
<1>7. FetchedIsOwn' /\ SnapshotIsOwn' /\ PendingIsIntact' /\ AppliedIsOwn'
  BY DEF FetchedIsOwn, SnapshotIsOwn, PendingIsIntact, AppliedIsOwn
<1> QED BY <1>3, <1>4, <1>5, <1>6, <1>7

LEMMA PushKeeps ==
  ASSUME IInv, NEW id \in Ids, NEW r \in Runs, Push(id, r) PROVE IInv'
<1> USE GitAssumption DEF IInv, Push, delegatorVars
<1>1. CASE branches[id] \in {None, clones[id]}
  <2>1. /\ executing' \in [Ids -> [Runs -> {"idle", "setup", "task", "push", "diff", "over"}]]
        /\ \A i \in Ids, k \in Runs :
             executing'[i][k] = IF i = id /\ k = r THEN "diff" ELSE executing[i][k]
    BY <1>1, PlaceTyped
  <2>2. /\ branches' \in [Ids -> Clones \cup {None}] /\ branches'[id] = clones[id]
        /\ \A i \in Ids \ {id} : branches'[i] = branches[i]
    BY <1>1 DEF TypeOK
  <2>3. TypeOK'
    BY <1>1, <2>1, <2>2 DEF TypeOK
  <2>4. StartedRuns' /\ OwnClones'
    BY <2>1 DEF StartedRuns, OwnClones
  <2>5. PushedBranch'
    BY <2>1, <2>2 DEF PushedBranch
  <2>6. PendingIsIntact'
    <3>1. \A s \in pending : s.id \in Ids /\ s.commit # None
      BY DEF TypeOK, Snapshots
    <3> QED BY <1>1, <2>2, <3>1 DEF PendingIsIntact
  <2>7. OwnSetups' /\ FetchedIsOwn' /\ SnapshotIsOwn' /\ AppliedIsOwn'
    BY <1>1 DEF OwnSetups, FetchedIsOwn, SnapshotIsOwn, AppliedIsOwn
  <2> QED BY <2>3, <2>4, <2>5, <2>6, <2>7
<1>2. CASE branches[id] \notin {None, clones[id]}
  BY <1>2, RunKeeps DEF Ends
<1> QED BY <1>1, <1>2

LEMMA CapturedKeeps ==
  ASSUME IInv, NEW id \in Ids, NEW r \in Runs, Captured(id, r) PROVE IInv'
<1> USE GitAssumption DEF IInv, Captured, Ends
<1> DEFINE s == [id |-> id, run |-> r, commit |-> clones[id]]
<1>1. /\ executing' \in [Ids -> [Runs -> {"idle", "setup", "task", "push", "diff", "over"}]]
      /\ \A i \in Ids, k \in Runs :
           executing'[i][k] = IF i = id /\ k = r THEN "over" ELSE executing[i][k]
  BY PlaceTyped
<1>2. pending' \subseteq pending \cup {s}
  BY DEF Emitted
<1>3. s \in Snapshots /\ branches[id] = clones[id]
  BY DEF TypeOK, PushedBranch, Snapshots
<1>4. TypeOK'
  BY <1>1, <1>2, <1>3 DEF TypeOK
<1>5. StartedRuns' /\ OwnClones' /\ PushedBranch'
  BY <1>1 DEF StartedRuns, OwnClones, PushedBranch
<1>6. OwnSetups'
  BY DEF OwnSetups, TypeOK
<1>7. PendingIsIntact'
  BY <1>2, <1>3 DEF PendingIsIntact
<1>8. SnapshotIsOwn'
  <2>1. CASE pending' = pending
    BY <2>1 DEF SnapshotIsOwn
  <2>2. CASE pending' # pending
    <3>1. run[id] = r /\ capturing[id][r] = clones[id].root
      BY <2>2 DEF Emitted
    <3>2. clones[id].root \in Roots
      BY DEF TypeOK, Clones
    <3>3. PICK k \in Runs : k <= run[id] /\ capturing[id][r] = <<id, k>>
      BY <3>1, <3>2 DEF OwnSetups
    <3>4. ~(k < r)
      BY <3>1, <3>3 DEF OwnClones
    <3>5. k = r
      BY <3>1, <3>3, <3>4 DEF Runs
    <3>6. s.commit.root = <<s.id, s.run>>
      BY <3>1, <3>3, <3>5
    <3> HIDE DEF s
    <3> QED BY <1>2, <3>6 DEF SnapshotIsOwn
  <2> QED BY <2>1, <2>2
<1>9. FetchedIsOwn' /\ AppliedIsOwn'
  BY DEF FetchedIsOwn, AppliedIsOwn
<1> QED BY <1>4, <1>5, <1>6, <1>7, <1>8, <1>9

\* The Executor forgets: a cancellation, its sweep, a restart.
LEMMA ForgetKeeps ==
  ASSUME IInv, NEW id \in Ids, Detach(id) \/ Sweep(id) \/ ExecutorRestart
  PROVE  IInv'
<1> USE GitAssumption DEF IInv, delegatorVars
<1>1. /\ UNCHANGED <<delegatorVars, main, branches, capturing>>
      /\ setups' \in [Ids -> Roots \cup {None}]
      /\ clones' \in [Ids -> Clones \cup {None}]
      /\ \A i \in Ids : setups'[i] \in {setups[i], None}
      /\ \A i \in Ids : clones'[i] \in {clones[i], None}
  BY DEF Detach, Sweep, ExecutorRestart, TypeOK
<1>2. /\ executing' \in [Ids -> [Runs -> {"idle", "setup", "task", "push", "diff", "over"}]]
      /\ \A i \in Ids, k \in Runs :
           /\ executing[i][k] = "idle" => executing'[i][k] = "idle"
           /\ executing'[i][k] \in {executing[i][k], "over"}
           /\ executing'[i][k] = "diff" => clones'[i] = clones[i]
  <2>1. CASE Detach(id)
    BY <2>1 DEF Detach, TypeOK
  <2>2. CASE Sweep(id)
    BY <2>2 DEF Sweep, TypeOK
  <2>3. CASE ExecutorRestart
    BY <2>3 DEF ExecutorRestart, TypeOK
  <2> QED BY <2>1, <2>2, <2>3
<1>3. TypeOK'
  BY <1>1, <1>2 DEF TypeOK
<1>4. StartedRuns'
  BY <1>1, <1>2 DEF StartedRuns
<1>5. OwnSetups'
  BY <1>1 DEF OwnSetups
<1>6. OwnClones' /\ PushedBranch'
  <2>1. ASSUME NEW i \in Ids, NEW k \in Runs,
               executing'[i][k] \in {"task", "push", "diff"}, clones'[i] # None
        PROVE  /\ executing[i][k] = executing'[i][k] /\ clones[i] # None
               /\ clones'[i] = clones[i]
    BY <1>1, <1>2, <2>1
  <2>2. OwnClones'
    BY <2>1 DEF OwnClones
  <2>3. PushedBranch'
    BY <1>1, <1>2 DEF PushedBranch
  <2> QED BY <2>2, <2>3
<1>7. FetchedIsOwn' /\ SnapshotIsOwn' /\ PendingIsIntact' /\ AppliedIsOwn'
  BY <1>1 DEF FetchedIsOwn, SnapshotIsOwn, PendingIsIntact, AppliedIsOwn
<1> QED BY <1>3, <1>4, <1>5, <1>6, <1>7

(***************************************************************************)
(* Both.                                                                   *)
(***************************************************************************)
LEMMA NextInv == IInv /\ [Next]_vars => IInv'
<1> SUFFICES ASSUME IInv, [Next]_vars PROVE IInv'
  OBVIOUS
<1>1. ASSUME NEW id \in Ids, Preparation(id) \/ Detach(id) \/ Sweep(id)
      PROVE  IInv'
  BY <1>1, InviteKeeps, PushedKeeps, PrepareFailsKeeps, ReleaseKeeps,
     ForgetKeeps DEF Preparation
<1>2. ASSUME NEW s \in pending, Fetch(s) \/ FetchFails(s) \/ Discard(s)
      PROVE  IInv'
  BY <1>2, FetchKeeps, DiscardKeeps
<1>3. ASSUME NEW a \in applying, Merge(a[1], a[2])
      PROVE  IInv'
  <2>1. a[1] \in Snapshots /\ a[2] \in Clones
    BY DEF IInv, TypeOK
  <2> QED BY <1>3, <2>1, MergeKeeps
<1>4. ASSUME NEW id \in Ids, NEW r \in Runs, Execution(id, r)
      PROVE  IInv'
  <2>1. CASE CloneFails(id, r)
    BY <2>1, RunKeeps DEF CloneFails
  <2>2. CASE Capture(id, r)
    BY <2>2, RunKeeps DEF Capture
  <2> QED BY <1>4, <2>1, <2>2, CloneKeeps, PushKeeps, CapturedKeeps DEF Execution
<1>5. CASE DelegatorRestart
  BY <1>5, DelegatorRestartKeeps
<1>6. CASE ExecutorRestart
  <2>1. CASE Ids = {}
    BY <1>6, <2>1 DEF IInv, ExecutorRestart, delegatorVars, TypeOK, StartedRuns,
       OwnSetups, OwnClones, PushedBranch, FetchedIsOwn, SnapshotIsOwn,
       PendingIsIntact, AppliedIsOwn
  <2>2. CASE Ids # {}
    BY <1>6, <2>2, ForgetKeeps
  <2> QED BY <2>1, <2>2
<1>7. CASE UNCHANGED vars
  BY <1>7 DEF vars, delegatorVars, executorVars, IInv, TypeOK, StartedRuns,
     OwnSetups, OwnClones, PushedBranch, FetchedIsOwn, SnapshotIsOwn,
     PendingIsIntact, AppliedIsOwn
<1> QED BY <1>1, <1>2, <1>3, <1>4, <1>5, <1>6, <1>7 DEF Next

\* The invariant of the transport, over any number of resumptions.
THEOREM GitInvariant == Spec => []IInv
  BY InitInv, NextInv, PTL DEF Spec

\* Every variable keeps to its type; a remembered task branch has a repository.
THEOREM TypeCorrect == Spec => []TypeOK
<1>1. IInv => TypeOK
  BY DEF IInv
<1> QED BY GitInvariant, <1>1, PTL

\* captureSnapshot()'s diff with the base commit of START is enough: no
\* snapshot holds another delegation's or another run's workspace.
THEOREM SnapshotsAreOwn == Spec => []SnapshotIsOwn
<1>1. IInv => SnapshotIsOwn
  BY DEF IInv
<1> QED BY GitInvariant, <1>1, PTL

\* A pending snapshot's branch is not overwritten (push without --force).
THEOREM PendingStaysIntact == Spec => []PendingIsIntact
<1>1. IInv => PendingIsIntact
  BY DEF IInv
<1> QED BY GitInvariant, <1>1, PTL

\* applySnapshot() merges the snapshot's own work, on its own base.
THEOREM AppliedAreOwn == Spec => []AppliedIsOwn
<1>1. IInv => AppliedIsOwn
  BY DEF IInv
<1> QED BY GitInvariant, <1>1, PTL
=============================================================================
