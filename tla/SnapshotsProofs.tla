--------------------------- MODULE SnapshotsProofs ---------------------------
(***************************************************************************)
(* Proofs about Snapshots, for any snapshots, files, number of requests in *)
(* hand and restarts: types, that what is listed as pending can be loaded, *)
(* and that the applications clean up after each other.                    *)
(***************************************************************************)
EXTENDS Snapshots, TLAPS

(***************************************************************************)
(* The inductive invariant.  Temporary data whose last removal did not     *)
(* fail has a function in its applySnapshot() whose finally block is still *)
(* to come: the archive one that has not unlinked, the directory one that  *)
(* has not removed.                                                        *)
(***************************************************************************)
ArchivePcs == {"extract", "replace", "copy", "unlink"}
DirectoryPcs == {"replace", "copy", "unlink", "remove"}
TempHeld ==
  up => /\ archive # Nothing =>
             archiveKept \/ \E c \in Slots : calls[c].pc \in ArchivePcs
        /\ extracted # Empty =>
             directoryKept \/ \E c \in Slots : calls[c].pc \in DirectoryPcs

\* A function at work on a snapshot has one.  Only a delegation in the map
\* has entries.  The first start has number 1.
Named == {"store", "load", "delete"} \cup Applying
SlotsNamed ==
  \A c \in Slots : calls[c].pc \in Named => calls[c].snapshot \in Snapshots
UnknownHasNone == ~known => snapshots = NoStatus
Started == starts >= 1
SnapshotsInv ==
  /\ TypeOK /\ SlotsNamed /\ UnknownHasNone /\ Started
  /\ TempHeld /\ PendingIsStored

(***************************************************************************)
(* A function that suspends somewhere else changes its own slot only.      *)
(***************************************************************************)
Moves(c, pc, s) ==
  /\ calls' \in [Slots -> Contexts]
  /\ calls'[c].pc = pc /\ calls'[c].snapshot = s
  /\ \A d \in Slots : d # c => calls'[d] = calls[d]

LEMMA IdleTyped ==
  /\ NoStatus \in [Snapshots -> Statuses]
  /\ Idle \in Contexts /\ Idle.pc = "idle" /\ Idle.snapshot = Nothing
  /\ [Idle EXCEPT !.pc = "ended"] \in Contexts
  /\ [Idle EXCEPT !.pc = "ended"].pc = "ended"
  BY DEF NoStatus, Statuses, Idle, Call, Contexts, Pcs, Applying

LEMMA SpawnMoves ==
  ASSUME TypeOK, NEW c \in Slots, NEW pc \in Pcs, NEW s \in Snapshots \cup {Nothing},
         NEW content \in [Snapshots -> Statuses], Spawn(c, pc, s, content)
  PROVE  Moves(c, pc, s)
  <1>1. /\ Call(pc, s, {}, FALSE, content) \in Contexts
        /\ Call(pc, s, {}, FALSE, content).pc = pc
        /\ Call(pc, s, {}, FALSE, content).snapshot = s
    BY DEF Call, Contexts
  <1> QED BY <1>1 DEF TypeOK, Spawn, Moves

LEMMA AwaitMoves ==
  ASSUME TypeOK, NEW c \in Slots, NEW pc \in Pcs, Await(c, pc)
  PROVE  Moves(c, pc, calls[c].snapshot)
  BY DEF TypeOK, Await, Moves, Contexts

LEMMA ChangeMoves ==
  ASSUME TypeOK, NEW c \in Slots, NEW pc \in Pcs, NEW left \in SUBSET Files,
         calls' = [calls EXCEPT ![c] = [@ EXCEPT !.pc = pc, !.left = left]]
  PROVE  Moves(c, pc, calls[c].snapshot)
  <1> DEFINE next == [calls[c] EXCEPT !.pc = pc, !.left = left]
  <1>1. next \in Contexts /\ next.pc = pc /\ next.snapshot = calls[c].snapshot
    BY DEF TypeOK, Contexts
  <1>2. calls' = [calls EXCEPT ![c] = next]
    OBVIOUS
  <1> HIDE DEF next
  <1> QED BY <1>1, <1>2 DEF TypeOK, Moves

LEMMA FailureMoves ==
  ASSUME TypeOK, NEW c \in Slots, NEW pc \in Pcs,
         calls' = [calls EXCEPT ![c] =
                     [@ EXCEPT !.pc = pc, !.failed = TRUE, !.left = {}]]
  PROVE  Moves(c, pc, calls[c].snapshot)
  <1> DEFINE next == [calls[c] EXCEPT !.pc = pc, !.failed = TRUE, !.left = {}]
  <1>1. next \in Contexts /\ next.pc = pc /\ next.snapshot = calls[c].snapshot
    BY DEF TypeOK, Contexts
  <1>2. calls' = [calls EXCEPT ![c] = next]
    OBVIOUS
  <1> HIDE DEF next
  <1> QED BY <1>1, <1>2 DEF TypeOK, Moves

LEMMA ReturnMoves ==
  ASSUME TypeOK, NEW c \in Slots, Return(c)
  PROVE  Moves(c, "idle", Nothing)
  BY IdleTyped DEF TypeOK, Return, Moves

LEMMA ThrowMoves ==
  ASSUME TypeOK, NEW c \in Slots, Throw(c)
  PROVE  \E pc \in {"idle", "ended"}, s \in Snapshots \cup {Nothing} : Moves(c, pc, s)
  <1> DEFINE next == IF c = Consumer THEN [Idle EXCEPT !.pc = "ended"] ELSE Idle
  <1>1. next \in Contexts /\ next.pc \in {"idle", "ended"}
    BY IdleTyped
  <1>2. calls' = [calls EXCEPT ![c] = next]
    BY DEF Throw
  <1> HIDE DEF next
  <1>3. calls' \in [Slots -> Contexts] /\ calls'[c] = next
        /\ \A d \in Slots : d # c => calls'[d] = calls[d]
    BY <1>1, <1>2 DEF TypeOK
  <1>4. next.snapshot \in Snapshots \cup {Nothing}
    BY <1>1 DEF Contexts
  <1> QED BY <1>1, <1>3, <1>4 DEF Moves

LEMMA MarkMoves ==
  ASSUME TypeOK, UnknownHasNone, NEW c \in Slots, NEW s \in Snapshots,
         NEW status \in Statuses, MarkAndSave(c, s, status)
  PROVE  /\ \E pc \in {"idle", "persist"}, u \in Snapshots \cup {Nothing} : Moves(c, pc, u)
         /\ known' = known /\ snapshots' \in [Snapshots -> Statuses]
         /\ snapshots'[s] \in {status, "none"}
         /\ \A t \in Snapshots : t # s => snapshots'[t] = snapshots[t]
         /\ ~known' => snapshots' = NoStatus
  <1>1. CASE known
    <2>1. snapshots' = [snapshots EXCEPT ![s] = status] /\ known'
      BY <1>1 DEF MarkAndSave
    <2>2. snapshots' \in [Snapshots -> Statuses]
      BY <2>1 DEF TypeOK
    <2>3. Moves(c, "persist", s)
      BY <1>1, <2>2, SpawnMoves DEF MarkAndSave, Pcs
    <2> QED BY <1>1, <2>1, <2>2, <2>3 DEF TypeOK, MarkAndSave
  <1>2. CASE ~known
    <2>1. Moves(c, "idle", Nothing) /\ snapshots' = snapshots /\ known' = known
      BY <1>2, ReturnMoves DEF MarkAndSave
    <2> QED BY <1>2, <2>1 DEF TypeOK, UnknownHasNone, NoStatus
  <1> QED BY <1>1, <1>2

(***************************************************************************)
(* What a move of one slot keeps.                                          *)
(***************************************************************************)
LEMMA NamedKept ==
  ASSUME SlotsNamed, NEW c \in Slots, NEW pc, NEW s, Moves(c, pc, s),
         pc \in Named => s \in Snapshots
  PROVE  SlotsNamed'
  BY DEF SlotsNamed, Moves

LEMMA HeldKept ==
  ASSUME TempHeld, up, NEW c \in Slots, NEW pc, NEW s, Moves(c, pc, s),
         UNCHANGED temp,
         calls[c].pc \in ArchivePcs => pc \in ArchivePcs,
         calls[c].pc \in DirectoryPcs => pc \in DirectoryPcs
  PROVE  TempHeld'
  <1>1. ASSUME archive # Nothing, ~archiveKept
        PROVE  \E d \in Slots : calls'[d].pc \in ArchivePcs
    <2>1. PICK d \in Slots : calls[d].pc \in ArchivePcs
      BY <1>1 DEF TempHeld
    <2> QED BY <2>1 DEF Moves
  <1>2. ASSUME extracted # Empty, ~directoryKept
        PROVE  \E d \in Slots : calls'[d].pc \in DirectoryPcs
    <2>1. PICK d \in Slots : calls[d].pc \in DirectoryPcs
      BY <1>2 DEF TempHeld
    <2> QED BY <2>1 DEF Moves
  <1> QED BY <1>1, <1>2 DEF TempHeld, temp, Empty

LEMMA PendingKept ==
  ASSUME PendingIsStored, NEW c \in Slots, NEW pc, NEW s, Moves(c, pc, s),
         calls[c].pc # "forget", starts' = starts,
         stored \cup halfDeleted \subseteq stored' \cup halfDeleted',
         \A t \in Snapshots : snapshots'[t] = "pending" =>
           snapshots[t] = "pending" \/ t \in stored'
  PROVE  PendingIsStored'
  <1>1. calls'[Timer].pc # "forget" => calls[Timer].pc # "forget"
    BY DEF Moves, Slots
  <1> QED BY <1>1 DEF PendingIsStored

\* The fragments of the finally block and of a start.
LEMMA UnlinkTyped ==
  ASSUME TypeOK, UnlinkArchive
  PROVE  /\ archive' \in Snapshots \cup {Nothing} /\ archiveKept' \in BOOLEAN
         /\ archive' # Nothing => archiveKept'
  BY DEF TypeOK, UnlinkArchive

LEMMA RemoveTyped ==
  ASSUME TypeOK, RemoveDirectory
  PROVE  /\ extracted' \in [Files -> Snapshots \cup {Nothing}]
         /\ directoryKept' \in BOOLEAN
         /\ extracted' # Empty => directoryKept'
  <1>1. Empty \in [Files -> Snapshots \cup {Nothing}]
    BY DEF Empty
  <1>2. Remnants(extracted) \subseteq [Files -> Snapshots \cup {Nothing}]
    BY DEF TypeOK, Remnants
  <1> QED BY <1>1, <1>2 DEF RemoveDirectory

(***************************************************************************)
(* The initial state and the steps.                                        *)
(***************************************************************************)
LEMMA InitInv == Init => SnapshotsInv
  <1> SUFFICES ASSUME Init PROVE SnapshotsInv
    OBVIOUS
  <1>1. TypeOK
    BY IdleTyped DEF Init, TypeOK, Empty
  <1>2. PendingIsStored
    BY DEF Init, PendingIsStored, NoStatus
  <1>3. SlotsNamed
    BY IdleTyped DEF Init, SlotsNamed, Named, Applying
  <1>4. Started /\ UnknownHasNone /\ TempHeld
    BY DEF Init, Started, UnknownHasNone, TempHeld
  <1> QED BY <1>1, <1>2, <1>3, <1>4 DEF SnapshotsInv

\* The points reached outside applySnapshot() hold nothing temporary.
LEMMA PcsApart ==
  /\ {"idle", "ended", "store", "load", "delete", "persist", "sweep", "forget"}
       \subseteq Pcs
  /\ Applying \subseteq Pcs
  /\ ArchivePcs \subseteq Applying /\ DirectoryPcs \subseteq Applying
  /\ {"idle", "ended", "persist", "sweep", "forget"} \cap Named = {}
  BY DEF Pcs, Applying, ArchivePcs, DirectoryPcs, Named

LEMMA ReceiveStep ==
  ASSUME SnapshotsInv, NEW s \in Snapshots, Receive(s)
  PROVE  SnapshotsInv'
<1> USE DEF SnapshotsInv, Receive, At, process, files, store, temp, record
<1> Consumer \in Slots
  BY DEF Slots
<1>1. CASE policy = "discard"
  <2>1. MarkAndSave(Consumer, s, "discarded") /\ "discarded" \in Statuses
    BY <1>1 DEF Statuses
  <2>2. PICK pc \in {"idle", "persist"}, u \in Snapshots \cup {Nothing} :
          Moves(Consumer, pc, u)
    BY <2>1, MarkMoves
  <2>3. /\ known' = known /\ snapshots' \in [Snapshots -> Statuses]
        /\ \A t \in Snapshots : snapshots'[t] = "pending" => snapshots[t] = "pending"
        /\ UnknownHasNone'
    BY <2>1, MarkMoves DEF UnknownHasNone
  <2>4. TypeOK'
    BY <2>2, <2>3 DEF TypeOK, Moves
  <2>5. SlotsNamed'
    BY <2>2, NamedKept DEF Named, Applying
  <2>6. TempHeld'
    BY <2>2, HeldKept DEF ArchivePcs, DirectoryPcs
  <2>7. PendingIsStored'
    BY <2>2, <2>3, PendingKept
  <2> QED BY <2>3, <2>4, <2>5, <2>6, <2>7 DEF Started
<1>2. CASE policy # "discard"
  <2>1. PICK pc \in {"write", "store"} : Spawn(Consumer, pc, s, NoStatus)
    BY <1>2
  <2>2. UNCHANGED record
    BY <1>2
  <2>3. Moves(Consumer, pc, s)
    BY <2>1, SpawnMoves, IdleTyped DEF Pcs, Applying
  <2>4. TypeOK'
    BY <2>2, <2>3 DEF TypeOK, Moves
  <2>5. SlotsNamed'
    BY <2>3, NamedKept
  <2>6. TempHeld'
    BY <2>3, HeldKept DEF ArchivePcs, DirectoryPcs
  <2>7. PendingIsStored'
    BY <2>2, <2>3, PendingKept
  <2> QED BY <2>2, <2>4, <2>5, <2>6, <2>7 DEF Started, UnknownHasNone
<1> QED BY <1>1, <1>2

\* The requests suspend and change nothing yet.
LEMMA RequestStep ==
  ASSUME SnapshotsInv, NEW c \in Requests, NEW s \in Snapshots,
         Apply(c, s) \/ Discard(c, s)
  PROVE  SnapshotsInv'
<1> USE DEF SnapshotsInv, Apply, Discard, At, process, files, store, temp, record
<1> c \in Slots
  BY DEF Slots
<1>1. PICK pc \in {"load", "delete"} : Spawn(c, pc, s, NoStatus)
  OBVIOUS
<1>2. Moves(c, pc, s)
  BY <1>1, SpawnMoves, IdleTyped DEF Pcs
<1>3. TypeOK'
  BY <1>2 DEF TypeOK, Moves
<1>4. SlotsNamed'
  BY <1>2, NamedKept
<1>5. TempHeld'
  BY <1>2, HeldKept DEF ArchivePcs, DirectoryPcs
<1>6. PendingIsStored'
  BY <1>2, PendingKept
<1> QED BY <1>3, <1>4, <1>5, <1>6 DEF Started, UnknownHasNone

LEMMA StoredStep ==
  ASSUME SnapshotsInv, NEW c \in Slots, Stored(c) \/ StoreFails(c)
  PROVE  SnapshotsInv'
<1> USE DEF SnapshotsInv, Stored, StoreFails, At, process, temp, record
<1> DEFINE s == calls[c].snapshot
<1>1. s \in Snapshots
  BY DEF SlotsNamed, Named
<1>2. CASE Stored(c)
  <2>1. MarkAndSave(c, s, "pending") /\ "pending" \in Statuses
    BY <1>2 DEF Statuses
  <2>2. PICK pc \in {"idle", "persist"}, u \in Snapshots \cup {Nothing} :
          Moves(c, pc, u)
    BY <1>1, <2>1, MarkMoves
  <2>3. /\ known' = known /\ snapshots' \in [Snapshots -> Statuses]
        /\ \A t \in Snapshots : t # s => snapshots'[t] = snapshots[t]
        /\ UnknownHasNone'
    BY <1>1, <2>1, MarkMoves DEF UnknownHasNone
  <2>4. TypeOK'
    BY <1>1, <1>2, <2>2, <2>3 DEF TypeOK, Moves
  <2>5. SlotsNamed'
    BY <2>2, NamedKept DEF Named, Applying
  <2>6. TempHeld'
    BY <1>2, <2>2, HeldKept DEF ArchivePcs, DirectoryPcs
  <2>7. PendingIsStored'
    BY <1>2, <2>2, <2>3, PendingKept
  <2> QED BY <1>2, <2>3, <2>4, <2>5, <2>6, <2>7 DEF Started
<1>3. CASE StoreFails(c)
  <2>1. PICK pc \in {"idle", "ended"}, u \in Snapshots \cup {Nothing} : Moves(c, pc, u)
    BY <1>3, ThrowMoves
  <2>2. stored \subseteq stored' /\ stored' \in SUBSET Snapshots
    BY <1>1, <1>3 DEF TypeOK
  <2>3. TypeOK'
    BY <1>3, <2>1, <2>2 DEF TypeOK, Moves
  <2>4. SlotsNamed'
    BY <2>1, NamedKept DEF Named, Applying
  <2>5. TempHeld'
    BY <1>3, <2>1, HeldKept DEF ArchivePcs, DirectoryPcs
  <2>6. PendingIsStored'
    BY <1>3, <2>1, <2>2, PendingKept
  <2> QED BY <1>3, <2>3, <2>4, <2>5, <2>6 DEF Started, UnknownHasNone
<1> QED BY <1>2, <1>3

LEMMA LoadStep ==
  ASSUME SnapshotsInv, NEW c \in Slots, Loaded(c) \/ LoadFails(c)
  PROVE  SnapshotsInv'
<1> USE DEF SnapshotsInv, Loaded, LoadFails, At, process, files, store, temp, record
<1>1. PICK pc \in {"write", "idle", "ended"}, s \in Snapshots \cup {Nothing} :
        Moves(c, pc, s) /\ (pc = "write" => s \in Snapshots)
  <2>1. CASE Loaded(c)
    <3>1. Moves(c, "write", calls[c].snapshot)
      BY <2>1, AwaitMoves DEF Pcs, Applying
    <3>2. calls[c].snapshot \in Snapshots
      BY <2>1 DEF SlotsNamed, Named
    <3> QED BY <3>1, <3>2
  <2>2. CASE LoadFails(c)
    BY <2>2, ThrowMoves
  <2> QED BY <2>1, <2>2
<1>2. TypeOK'
  BY <1>1 DEF TypeOK, Moves
<1>3. SlotsNamed'
  BY <1>1, NamedKept DEF Named, Applying
<1>4. TempHeld'
  BY <1>1, HeldKept DEF ArchivePcs, DirectoryPcs
<1>5. PendingIsStored'
  BY <1>1, PendingKept
<1> QED BY <1>2, <1>3, <1>4, <1>5 DEF Started, UnknownHasNone

\* The entry of the deleted file is no longer pending.
LEMMA DeletedStep ==
  ASSUME SnapshotsInv, NEW c \in Slots, Deleted(c)
  PROVE  SnapshotsInv'
<1> USE DEF SnapshotsInv, Deleted, At, process, temp, record
<1> DEFINE s == calls[c].snapshot
<1>1. s \in Snapshots
  BY DEF SlotsNamed, Named
<1>2. MarkAndSave(c, s, "discarded") /\ "discarded" \in Statuses
  BY DEF Statuses
<1>3. PICK pc \in {"idle", "persist"}, u \in Snapshots \cup {Nothing} : Moves(c, pc, u)
  BY <1>1, <1>2, MarkMoves
<1>4. /\ known' = known /\ snapshots' \in [Snapshots -> Statuses]
      /\ snapshots'[s] # "pending"
      /\ \A t \in Snapshots : t # s => snapshots'[t] = snapshots[t]
      /\ UnknownHasNone'
  <2>1. /\ known' = known /\ snapshots' \in [Snapshots -> Statuses]
        /\ snapshots'[s] \in {"discarded", "none"}
        /\ \A t \in Snapshots : t # s => snapshots'[t] = snapshots[t]
        /\ ~known' => snapshots' = NoStatus
    BY <1>1, <1>2, MarkMoves
  <2> QED BY <2>1 DEF UnknownHasNone
<1>5. TypeOK'
  BY <1>1, <1>3, <1>4 DEF TypeOK, Moves
<1>6. SlotsNamed'
  BY <1>3, NamedKept DEF Named, Applying
<1>7. TempHeld'
  BY <1>3, HeldKept DEF ArchivePcs, DirectoryPcs
<1>8. PendingIsStored'
  <2> SUFFICES ASSUME NEW t \in Snapshots, snapshots'[t] = "pending", starts' = 1,
                      calls'[Timer].pc # "forget"
               PROVE  t \in stored' \cup halfDeleted'
    BY DEF PendingIsStored
  <2>1. t # s /\ snapshots[t] = "pending"
    BY <1>4
  <2>2. calls[Timer].pc # "forget"
    BY <1>3 DEF Moves, Slots
  <2> QED BY <2>1, <2>2 DEF PendingIsStored
<1> QED BY <1>4, <1>5, <1>6, <1>7, <1>8 DEF Started

\* ... or, if its removal failed, one that a failed discard() has touched.
LEMMA DeleteFailsStep ==
  ASSUME SnapshotsInv, NEW c \in Slots, DeleteFails(c)
  PROVE  SnapshotsInv'
<1> USE DEF SnapshotsInv, DeleteFails, At, process, temp, record, store
<1> DEFINE s == calls[c].snapshot
<1>1. s \in Snapshots
  BY DEF SlotsNamed, Named
<1>2. PICK pc \in {"idle", "ended"}, u \in Snapshots \cup {Nothing} : Moves(c, pc, u)
  BY ThrowMoves
<1>3. /\ stored' \in SUBSET Snapshots /\ halfDeleted' \in SUBSET Snapshots
      /\ stored \cup halfDeleted \subseteq stored' \cup halfDeleted'
  BY <1>1 DEF TypeOK
<1>4. TypeOK'
  BY <1>2, <1>3 DEF TypeOK, Moves
<1>5. SlotsNamed'
  BY <1>2, NamedKept DEF Named, Applying
<1>6. TempHeld'
  BY <1>2, HeldKept DEF ArchivePcs, DirectoryPcs
<1>7. PendingIsStored'
  BY <1>2, <1>3, PendingKept
<1> QED BY <1>4, <1>5, <1>6, <1>7 DEF Started, UnknownHasNone

LEMMA PersistStep ==
  ASSUME SnapshotsInv, NEW c \in Slots, Persisted(c) \/ PersistFails(c)
  PROVE  SnapshotsInv'
<1> USE DEF SnapshotsInv, Persisted, PersistFails, At, process, files, store, temp, record
<1>1. PICK pc \in {"idle", "ended"}, s \in Snapshots \cup {Nothing} : Moves(c, pc, s)
  <2>1. CASE Persisted(c)
    BY <2>1, ReturnMoves
  <2>2. CASE PersistFails(c)
    BY <2>2, ThrowMoves
  <2> QED BY <2>1, <2>2
<1>2. saved' \in BOOLEAN /\ recorded' \in [Snapshots -> Statuses]
  <2>1. calls[c].content \in [Snapshots -> Statuses]
    BY DEF TypeOK, Contexts
  <2> QED BY <2>1 DEF TypeOK
<1>3. TypeOK'
  BY <1>1, <1>2 DEF TypeOK, Moves
<1>4. SlotsNamed'
  BY <1>1, NamedKept DEF Named, Applying
<1>5. TempHeld'
  BY <1>1, HeldKept DEF ArchivePcs, DirectoryPcs
<1>6. PendingIsStored'
  BY <1>1, PendingKept
<1> QED BY <1>3, <1>4, <1>5, <1>6 DEF Started, UnknownHasNone

(***************************************************************************)
(* applySnapshot(): the steps that touch the temporary files.              *)
(***************************************************************************)
LEMMA WrittenStep ==
  ASSUME SnapshotsInv, NEW c \in Slots, Written(c)
  PROVE  SnapshotsInv'
<1> USE DEF SnapshotsInv, Written, At, process, files, store, record
<1>1. calls[c].snapshot \in Snapshots
  BY DEF SlotsNamed, Named, Applying
<1>2. Moves(c, "extract", calls[c].snapshot)
  BY AwaitMoves DEF Pcs, Applying
<1>3. TypeOK'
  BY <1>1, <1>2 DEF TypeOK, Moves
<1>4. SlotsNamed'
  BY <1>1, <1>2, NamedKept
<1>5. TempHeld'
  <2>1. calls'[c].pc \in ArchivePcs
    BY <1>2 DEF Moves, ArchivePcs
  <2>2. ASSUME extracted # Empty, ~directoryKept
        PROVE  \E d \in Slots : calls'[d].pc \in DirectoryPcs
    <3>1. PICK d \in Slots : calls[d].pc \in DirectoryPcs
      BY <2>2 DEF TempHeld
    <3>2. d # c
      BY <3>1 DEF DirectoryPcs
    <3> QED BY <1>2, <3>1, <3>2 DEF Moves
  <2> QED BY <2>1, <2>2 DEF TempHeld, Empty
<1>6. PendingIsStored'
  BY <1>2, PendingKept
<1> QED BY <1>3, <1>4, <1>5, <1>6 DEF Started, UnknownHasNone

LEMMA ExtractedStep ==
  ASSUME SnapshotsInv, NEW c \in Slots, Extracted(c)
  PROVE  SnapshotsInv'
<1> USE DEF SnapshotsInv, Extracted, At, process, files, store, record
<1>1. Moves(c, "replace", calls[c].snapshot)
  BY AwaitMoves DEF Pcs, Applying
<1>2. TypeOK'
  BY <1>1 DEF TypeOK, Moves, Overwritten
<1>3. SlotsNamed'
  BY <1>1, NamedKept DEF SlotsNamed, Named, Applying
<1>4. TempHeld'
  BY <1>1 DEF TempHeld, Moves, ArchivePcs, DirectoryPcs
<1>5. PendingIsStored'
  BY <1>1, PendingKept
<1> QED BY <1>2, <1>3, <1>4, <1>5 DEF Started, UnknownHasNone

\* Replacing and copying: the directory and the archive stay as they are.
LEMMA CopyStep ==
  ASSUME SnapshotsInv, NEW c \in Slots, Replaced(c) \/ \E f \in Files : Copied(c, f)
  PROVE  SnapshotsInv'
<1> USE DEF SnapshotsInv, Replaced, Copied, At, process, files, store, temp, record
<1>1. calls[c].pc \in {"replace", "copy"} /\ calls[c].snapshot \in Snapshots
  BY DEF SlotsNamed, Named, Applying
<1>2. PICK pc \in {"copy", "unlink"} : Moves(c, pc, calls[c].snapshot)
  <2>1. CASE Replaced(c) /\ extracted = Empty
    BY <2>1, AwaitMoves DEF Pcs, Applying
  <2>2. CASE Replaced(c) /\ extracted # Empty
    <3>1. {f2 \in Files : extracted[f2] # Nothing} \in SUBSET Files
      OBVIOUS
    <3> QED BY <2>2, <3>1, ChangeMoves DEF Pcs, Applying
  <2>3. ASSUME NEW f \in Files, Copied(c, f)
        PROVE  \E pc \in {"copy", "unlink"} : Moves(c, pc, calls[c].snapshot)
    <3> DEFINE pc == IF calls[c].left = {f} THEN "unlink" ELSE "copy"
               left == calls[c].left \ {f}
    <3>1. left \in SUBSET Files
      BY DEF TypeOK, Contexts
    <3>2. calls' = [calls EXCEPT ![c] = [calls[c] EXCEPT !.pc = pc, !.left = left]]
      BY <2>3
    <3>3. pc \in Pcs /\ pc \in {"copy", "unlink"}
      BY DEF Pcs, Applying
    <3> HIDE DEF pc, left
    <3> QED BY <3>1, <3>2, <3>3, ChangeMoves
  <2> QED BY <2>1, <2>2, <2>3
<1>3. workspace' \in [Files -> Snapshots \cup {Original, Nothing}]
  BY DEF TypeOK, Empty
<1>4. TypeOK'
  BY <1>2, <1>3 DEF TypeOK, Moves
<1>5. SlotsNamed'
  BY <1>1, <1>2, NamedKept
<1>6. TempHeld'
  BY <1>1, <1>2, HeldKept DEF ArchivePcs, DirectoryPcs
<1>7. PendingIsStored'
  BY <1>1, <1>2, PendingKept
<1> QED BY <1>4, <1>5, <1>6, <1>7 DEF Started, UnknownHasNone

\* An exception goes to the finally block.
LEMMA ApplyFailsStep ==
  ASSUME SnapshotsInv, NEW c \in Slots, ApplyFails(c)
  PROVE  SnapshotsInv'
<1> USE DEF SnapshotsInv, ApplyFails, process, files, store, record
<1>1. /\ calls[c].pc \in {"write", "extract", "replace", "copy"}
      /\ calls[c].snapshot \in Snapshots
  BY DEF SlotsNamed, Named, Applying, Interrupted
<1>2. Moves(c, "unlink", calls[c].snapshot)
  <2>1. "unlink" \in Pcs /\ {} \in SUBSET Files
    BY DEF Pcs, Applying
  <2> QED BY <2>1, FailureMoves
<1>3. /\ archive' \in Snapshots \cup {Nothing}
      /\ extracted' \in [Files -> Snapshots \cup {Nothing}]
      /\ workspace' \in [Files -> Snapshots \cup {Original, Nothing}]
  <2>1. Interrupted(calls[c].pc, calls[c].snapshot) /\ TypeOK
    OBVIOUS
  <2>2. Remnants(workspace) \subseteq [Files -> Snapshots \cup {Original, Nothing}]
    BY <2>1 DEF TypeOK, Remnants
  <2>3. archive # Nothing =>
          \A names : Overwritten(names) \in [Files -> Snapshots \cup {Nothing}]
    BY <2>1 DEF TypeOK, Overwritten
  <2>4. CASE calls[c].pc = "write"
    BY <1>1, <2>1, <2>4 DEF Interrupted, TypeOK
  <2>5. CASE calls[c].pc = "extract"
    BY <2>1, <2>3, <2>5 DEF Interrupted, TypeOK
  <2>6. CASE calls[c].pc = "replace"
    BY <2>1, <2>2, <2>6 DEF Interrupted, TypeOK
  <2>7. CASE calls[c].pc = "copy"
    BY <2>1, <2>7 DEF Interrupted, TypeOK
  <2> QED BY <1>1, <2>4, <2>5, <2>6, <2>7
<1>4. TypeOK'
  BY <1>2, <1>3 DEF TypeOK, Moves
<1>5. SlotsNamed'
  BY <1>1, <1>2, NamedKept
<1>6. TempHeld'
  <2>1. calls'[c].pc \in ArchivePcs /\ calls'[c].pc \in DirectoryPcs
    BY <1>2 DEF Moves, ArchivePcs, DirectoryPcs
  <2> QED BY <2>1 DEF TempHeld
<1>7. PendingIsStored'
  BY <1>1, <1>2, PendingKept
<1> QED BY <1>4, <1>5, <1>6, <1>7 DEF Started, UnknownHasNone

LEMMA UnlinkedStep ==
  ASSUME SnapshotsInv, NEW c \in Slots, Unlinked(c)
  PROVE  SnapshotsInv'
<1> USE DEF SnapshotsInv, Unlinked, At, process, files, store, record
<1>1. Moves(c, "remove", calls[c].snapshot) /\ calls[c].snapshot \in Snapshots
  BY AwaitMoves DEF Pcs, Applying, SlotsNamed, Named
<1>2. TypeOK'
  BY <1>1, UnlinkTyped DEF TypeOK, Moves
<1>3. SlotsNamed'
  BY <1>1, NamedKept
<1>4. TempHeld'
  BY <1>1, UnlinkTyped DEF TempHeld, Moves, DirectoryPcs
<1>5. PendingIsStored'
  BY <1>1, PendingKept
<1> QED BY <1>2, <1>3, <1>4, <1>5 DEF Started, UnknownHasNone

\* The last step of an application: the slot gives up its claim, and the
\* directory is empty.
LEMMA RemovedStep ==
  ASSUME SnapshotsInv, NEW c \in Slots, Removed(c)
  PROVE  SnapshotsInv'
<1> USE DEF SnapshotsInv, Removed, At, process, files, store
<1> DEFINE s == calls[c].snapshot
<1>1. s \in Snapshots
  BY DEF SlotsNamed, Named, Applying
<1>2. MarkAndSave(c, s, "applied") /\ "applied" \in Statuses
  BY DEF Statuses
<1>3. PICK pc \in {"idle", "persist"}, u \in Snapshots \cup {Nothing} : Moves(c, pc, u)
  BY <1>1, <1>2, MarkMoves
<1>4. /\ known' = known /\ snapshots' \in [Snapshots -> Statuses]
      /\ \A t \in Snapshots : snapshots'[t] = "pending" => snapshots[t] = "pending"
      /\ UnknownHasNone'
  <2>1. /\ known' = known /\ snapshots' \in [Snapshots -> Statuses]
        /\ snapshots'[s] \in {"applied", "none"}
        /\ \A t \in Snapshots : t # s => snapshots'[t] = snapshots[t]
        /\ ~known' => snapshots' = NoStatus
    BY <1>1, <1>2, MarkMoves
  <2> QED BY <2>1 DEF UnknownHasNone
<1>5. TypeOK'
  BY <1>3, <1>4, RemoveTyped DEF TypeOK, Moves
<1>6. SlotsNamed'
  BY <1>3, NamedKept DEF Named, Applying
<1>7. TempHeld'
  <2>1. ASSUME archive # Nothing, ~archiveKept
        PROVE  \E d \in Slots : calls'[d].pc \in ArchivePcs
    <3>1. PICK d \in Slots : calls[d].pc \in ArchivePcs
      BY <2>1 DEF TempHeld
    <3>2. d # c
      BY <3>1 DEF ArchivePcs
    <3> QED BY <1>3, <3>1, <3>2 DEF Moves
  <2> QED BY <2>1, RemoveTyped DEF TempHeld, Empty
<1>8. PendingIsStored'
  BY <1>3, <1>4, PendingKept
<1> QED BY <1>4, <1>5, <1>6, <1>7, <1>8 DEF Started

(***************************************************************************)
(* The sweep, a crash and a start.                                         *)
(***************************************************************************)
LEMMA SweepStep ==
  ASSUME SnapshotsInv, SweepExpired \/ SweepSnapshots \/ SweepFile
  PROVE  SnapshotsInv'
<1> USE DEF SnapshotsInv, At, process, temp
<1> Timer \in Slots
  BY DEF Slots
<1>1. CASE SweepExpired
  <2> USE <1>1 DEF SweepExpired, record, files, store
  <2>1. Moves(Timer, "sweep", Nothing)
    BY SpawnMoves, IdleTyped DEF Pcs
  <2>2. TypeOK'
    BY <2>1 DEF TypeOK, Moves
  <2>3. SlotsNamed' /\ TempHeld' /\ PendingIsStored'
    BY <2>1, NamedKept, HeldKept, PendingKept DEF Named, Applying, ArchivePcs,
       DirectoryPcs
  <2> QED BY <2>2, <2>3 DEF Started, UnknownHasNone
<1>2. CASE SweepSnapshots
  <2> USE <1>2 DEF SweepSnapshots, record
  <2>1. Moves(Timer, "forget", calls[Timer].snapshot)
    BY AwaitMoves DEF Pcs
  <2>2. TypeOK'
    BY <2>1 DEF TypeOK, Moves
  <2>3. SlotsNamed' /\ TempHeld'
    BY <2>1, NamedKept, HeldKept DEF Named, Applying, ArchivePcs, DirectoryPcs
  <2>4. PendingIsStored'
    BY <2>1 DEF Moves, PendingIsStored
  <2> QED BY <2>2, <2>3, <2>4 DEF Started, UnknownHasNone
<1>3. CASE SweepFile
  <2> USE <1>3 DEF SweepFile, store
  <2>1. Moves(Timer, "idle", Nothing)
    BY ReturnMoves
  <2>2. TypeOK'
    BY <2>1, IdleTyped DEF TypeOK, Moves, DeleteFile
  <2>3. SlotsNamed' /\ TempHeld'
    BY <2>1, NamedKept, HeldKept DEF Named, Applying, ArchivePcs, DirectoryPcs
  <2>4. PendingIsStored'
    BY DEF PendingIsStored, NoStatus
  <2> QED BY <2>2, <2>3, <2>4 DEF Started, UnknownHasNone
<1> QED BY <1>1, <1>2, <1>3

LEMMA CrashStep ==
  ASSUME SnapshotsInv, Crash \/ SweepFails
  PROVE  SnapshotsInv'
<1> USE DEF SnapshotsInv, Crash, SweepFails, Die, At, store, temp
<1>1. TypeOK'
  BY IdleTyped DEF TypeOK
<1>2. SlotsNamed'
  BY IdleTyped DEF SlotsNamed, Named, Applying
<1>3. PendingIsStored'
  BY DEF PendingIsStored, NoStatus
<1> QED BY <1>1, <1>2, <1>3 DEF UnknownHasNone, Started, TempHeld

\* Later starts do not promise what is pending: the file may be of a
\* delegation saved before its last discard.
LEMMA InitializeStep ==
  ASSUME SnapshotsInv, Initialize
  PROVE  SnapshotsInv'
<1> USE DEF SnapshotsInv, Initialize, record
<1>0. NoStatus \in [Snapshots -> Statuses]
  BY IdleTyped
<1>1. /\ known' \in BOOLEAN /\ saved' \in BOOLEAN /\ stored' \in SUBSET Snapshots
      /\ recorded' \in [Snapshots -> Statuses]
      /\ snapshots' \in [Snapshots -> Statuses] /\ UnknownHasNone'
  <2>1. CASE UNCHANGED record /\ DeleteFile
    BY <1>0, <2>1 DEF TypeOK, UnknownHasNone, DeleteFile, Leftovers
  <2>2. CASE UNCHANGED <<saved, recorded>> /\ known' = saved /\ saved
    BY <2>2 DEF TypeOK, UnknownHasNone
  <2>3. CASE UNCHANGED <<saved, recorded>> /\ known' = saved /\ ~saved
    BY <2>3, IdleTyped DEF TypeOK, UnknownHasNone, Leftovers
  <2> QED BY <2>1, <2>2, <2>3
<1>2. starts' \in Nat /\ starts' > 1
  BY DEF TypeOK, Started
<1>3. /\ archive' \in Snapshots \cup {Nothing} /\ archiveKept' \in BOOLEAN
      /\ extracted' \in [Files -> Snapshots \cup {Nothing}]
      /\ directoryKept' \in BOOLEAN
  BY UnlinkTyped, RemoveTyped
<1>4. TypeOK'
  BY <1>1, <1>2, <1>3 DEF TypeOK
<1>5. SlotsNamed'
  BY DEF SlotsNamed
<1>6. TempHeld'
  BY UnlinkTyped, RemoveTyped DEF TempHeld, Empty
<1>7. PendingIsStored' /\ Started'
  BY <1>2 DEF PendingIsStored, Started, TypeOK
<1> QED BY <1>1, <1>4, <1>5, <1>6, <1>7

LEMMA NextInv ==
  ASSUME SnapshotsInv, [Next]_vars
  PROVE  SnapshotsInv'
<1>1. ASSUME NEW s \in Snapshots, Receive(s) PROVE SnapshotsInv'
  BY <1>1, ReceiveStep
<1>2. ASSUME NEW c \in Requests, NEW s \in Snapshots, Apply(c, s) \/ Discard(c, s)
      PROVE  SnapshotsInv'
  BY <1>2, RequestStep
<1>3. ASSUME NEW c \in Requests \cup {Consumer},
             \/ Stored(c) \/ StoreFails(c) \/ Loaded(c) \/ LoadFails(c) \/ Deleted(c)
             \/ DeleteFails(c) \/ Persisted(c) \/ PersistFails(c)
      PROVE  SnapshotsInv'
  BY <1>3, StoredStep, LoadStep, DeletedStep, DeleteFailsStep, PersistStep DEF Slots
<1>4. ASSUME NEW c \in Requests \cup {Consumer}, Transport(c)
      PROVE  SnapshotsInv'
  <2>1. c \in Slots
    BY DEF Slots
  <2>2. CASE Replaced(c) \/ \E f \in Files : Copied(c, f)
    BY <2>1, <2>2, CopyStep
  <2> QED BY <1>4, <2>1, <2>2, WrittenStep, ExtractedStep, ApplyFailsStep,
             UnlinkedStep, RemovedStep DEF Transport
<1>5. CASE SweepExpired \/ SweepSnapshots \/ SweepFile
  BY <1>5, SweepStep
<1>6. CASE Crash \/ SweepFails
  BY <1>6, CrashStep
<1>7. CASE Initialize
  BY <1>7, InitializeStep
<1>8. CASE UNCHANGED vars
  BY <1>8 DEF vars, process, record, files, store, temp, SnapshotsInv, TypeOK, SlotsNamed,
     UnknownHasNone, Started, TempHeld, PendingIsStored
<1> QED BY <1>1, <1>2, <1>3, <1>4, <1>5, <1>6, <1>7, <1>8 DEF Next

(***************************************************************************)
(* The theorems.                                                           *)
(***************************************************************************)
\* SnapshotsInv is an invariant.
THEOREM SnapshotsInvariant == Spec => []SnapshotsInv
<1>1. Init => SnapshotsInv
  BY InitInv
<1>2. SnapshotsInv /\ [Next]_vars => SnapshotsInv'
  BY NextInv
<1> QED BY <1>1, <1>2, PTL DEF Spec

\* The variables of the snapshot manager and the transport keep their types.
THEOREM TypeCorrect == Spec => []TypeOK
<1>1. SnapshotsInv => TypeOK
  BY DEF SnapshotsInv
<1> QED BY <1>1, SnapshotsInvariant, PTL

\* However many requests apply and discard at a time, a snapshot listed as
\* pending in the first run of the daemon has its file, unless a discard() whose
\* rm() rejected took it.
THEOREM PendingLoadable == Spec => []PendingIsStored
<1>1. SnapshotsInv => PendingIsStored
  BY DEF SnapshotsInv
<1> QED BY <1>1, SnapshotsInvariant, PTL

\* However many applications overlap, fail or are cut off by a crash, when none
\* is in progress the transport's temporary directory holds only what a failed
\* removal left there.
THEOREM TemporaryGone == Spec => []NothingLeft
<1>1. SnapshotsInv => NothingLeft
  BY DEF SnapshotsInv, TempHeld, NothingLeft, ArchivePcs, DirectoryPcs, Applying
<1> QED BY <1>1, SnapshotsInvariant, PTL


(***************************************************************************)
(* One request in hand at a time.  Then one application is in progress:    *)
(* the consumer applies under "auto", when nothing is stored for a request *)
(* to apply.                                                               *)
(***************************************************************************)
OneRequest == \A q, r \in Requests : q = r

Roles ==
  /\ calls[Timer].pc \in {"idle", "sweep", "forget"}
  /\ calls[Consumer].pc # "load" /\ \A r \in Requests : calls[r].pc # "store"
  /\ policy = "auto" => /\ stored = {} /\ calls[Consumer].pc # "store"
                        /\ \A r \in Requests : calls[r].pc \notin Applying
  /\ policy # "auto" => calls[Consumer].pc \notin Applying
DownIsIdle == ~up => \A c \in Slots : calls[c].pc = "idle"

\* How far an application has come that nothing went wrong in: the archive is
\* its own, the directory holds its snapshot and nothing of the user's, and so
\* does the workspace but for the files left to copy.  Other snapshots' files
\* are there only if the directory's last removal failed.
Holds(directory, s, left, kept) ==
  \A f \in Files :
    IF f \in Contents[s] THEN f \in left \/ directory[f] = s
    ELSE directory[f] = Nothing \/ (kept /\ directory[f] \in Snapshots)
OnItsWay(c) ==
  LET s == calls[c].snapshot IN
  ~calls[c].failed =>
    /\ calls[c].pc = "extract" => archive = s
    /\ calls[c].pc \in {"replace", "copy"} => Holds(extracted, s, {}, directoryKept)
    /\ calls[c].pc = "copy" => Holds(workspace, s, calls[c].left, directoryKept)
    /\ calls[c].pc \in {"unlink", "remove"} => Holds(workspace, s, {}, directoryKept)
ApplicationInv == Roles /\ DownIsIdle /\ \A c \in Slots : OnItsWay(c)

LEMMA OneApplies ==
  ASSUME Roles, OneRequest, NEW c \in Slots, NEW d \in Slots,
         calls[c].pc \in Applying, calls[d].pc \in Applying
  PROVE  c = d
<1>1. c # Timer /\ d # Timer
  BY DEF Roles, Applying
<1> QED BY <1>1 DEF Roles, OneRequest, Slots

\* The directory an application extracts into is empty, or its removal failed.
LEMMA EmptyDirectory ==
  ASSUME SnapshotsInv, Roles, OneRequest, up, NEW c \in Slots,
         calls[c].pc \in {"write", "extract"}
  PROVE  extracted = Empty \/ directoryKept
<1> SUFFICES ASSUME extracted # Empty, ~directoryKept PROVE FALSE
  OBVIOUS
<1>1. PICK d \in Slots : calls[d].pc \in DirectoryPcs
  BY DEF SnapshotsInv, TempHeld
<1>2. d = c
  BY <1>1, OneApplies DEF Applying, DirectoryPcs
<1> QED BY <1>1, <1>2 DEF DirectoryPcs

\* A slot that moves outside of an application, or to its beginning.
LEMMA WaysKept ==
  ASSUME ApplicationInv, NEW c \in Slots, NEW pc, NEW s, Moves(c, pc, s),
         pc \notin Applying \ {"write"}, UNCHANGED <<temp, workspace>>
  PROVE  \A d \in Slots : OnItsWay(d)'
<1> SUFFICES ASSUME NEW d \in Slots PROVE OnItsWay(d)'
  OBVIOUS
<1>1. CASE d = c
  BY <1>1 DEF Moves, OnItsWay, Applying
<1>2. CASE d # c
  BY <1>2 DEF Moves, OnItsWay, ApplicationInv, Holds, temp
<1> QED BY <1>1, <1>2

\* ... or inside it, where no other one is.
LEMMA WayKept ==
  ASSUME ApplicationInv, OneRequest, NEW c \in Slots, calls[c].pc \in Applying,
         NEW pc, NEW s, Moves(c, pc, s), OnItsWay(c)'
  PROVE  \A d \in Slots : OnItsWay(d)'
<1> SUFFICES ASSUME NEW d \in Slots, d # c PROVE OnItsWay(d)'
  OBVIOUS
<1>1. calls'[d] = calls[d] /\ calls[d].pc \notin Applying
  BY OneApplies DEF Moves, ApplicationInv
<1> QED BY <1>1 DEF OnItsWay, Applying

LEMMA RolesKept ==
  ASSUME Roles, NEW c \in Requests \cup {Consumer}, NEW pc, NEW s, Moves(c, pc, s),
         policy' = policy, policy = "auto" => stored' = {},
         pc = "store" => c = Consumer /\ policy # "auto",
         pc = "load" => c \in Requests,
         pc \in Applying =>
           calls[c].pc \in Applying \/ (c = Consumer <=> policy = "auto")
  PROVE  Roles'
<1>1. Consumer # Timer /\ Consumer \notin Requests /\ Timer \notin Requests
  BY ConstantsAssumption
<1>2. /\ calls'[c].pc = pc /\ c # Timer
      /\ \A d \in Slots : d # c => calls'[d] = calls[d]
  BY <1>1 DEF Moves
<1>3. calls'[Timer] = calls[Timer]
  BY <1>2 DEF Slots
<1>4. CASE c = Consumer
  <2>1. \A r \in Requests : calls'[r] = calls[r]
    BY <1>1, <1>2, <1>4 DEF Slots
  <2> QED BY <1>1, <1>2, <1>3, <1>4, <2>1 DEF Roles
<1>5. CASE c \in Requests
  <2>1. calls'[Consumer] = calls[Consumer]
    BY <1>1, <1>2, <1>5 DEF Slots
  <2>2. \A r \in Requests : r # c => calls'[r] = calls[r]
    BY <1>2 DEF Slots
  <2> QED BY <1>1, <1>2, <1>3, <1>5, <2>1, <2>2 DEF Roles
<1> QED BY <1>4, <1>5

\* Outside of applySnapshot().
LEMMA AroundStep ==
  ASSUME SnapshotsInv, ApplicationInv, NEW c \in Requests \cup {Consumer},
         \/ \E s \in Snapshots : c = Consumer /\ Receive(s)
         \/ \E s \in Snapshots : c \in Requests /\ (Apply(c, s) \/ Discard(c, s))
         \/ Stored(c) \/ StoreFails(c) \/ Loaded(c) \/ LoadFails(c) \/ Deleted(c)
         \/ DeleteFails(c) \/ Persisted(c) \/ PersistFails(c)
  PROVE  ApplicationInv'
<1> c \in Slots
  BY DEF Slots
<1>1. up /\ up' /\ policy' = policy /\ UNCHANGED <<temp, workspace>>
  BY DEF Receive, Apply, Discard, Stored, StoreFails, Loaded, LoadFails, Deleted,
     DeleteFails, Persisted, PersistFails, process, At
<1>2. \E pc \in {"idle", "ended", "store", "load", "delete", "persist", "write"} :
        \E s \in Snapshots \cup {Nothing} :
          /\ Moves(c, pc, s)
          /\ policy = "auto" => stored' = {}
          /\ pc = "store" => c = Consumer /\ policy # "auto"
          /\ pc = "load" => c \in Requests
          /\ pc = "write" => (c = Consumer <=> policy = "auto")
  <2>1. /\ TypeOK /\ UnknownHasNone /\ SlotsNamed /\ Roles
        /\ Consumer \notin Requests
    BY ConstantsAssumption DEF SnapshotsInv, ApplicationInv
  <2>2. policy = "auto" => stored = {}
    BY <2>1 DEF Roles
  <2>3. CASE \E s \in Snapshots : c = Consumer /\ Receive(s)
    <3>1. PICK s \in Snapshots : c = Consumer /\ Receive(s)
      BY <2>3
    <3>2. stored' = stored
      BY <3>1 DEF Receive, files, store
    <3>3. CASE policy = "auto"
      <4>1. Moves(c, "write", s)
        BY <2>1, <3>1, <3>3, SpawnMoves, IdleTyped DEF Receive, Pcs, Applying
      <4> QED BY <2>2, <3>1, <3>2, <3>3, <4>1
    <3>4. CASE policy = "staged"
      <4>1. Moves(c, "store", s)
        BY <2>1, <3>1, <3>4, SpawnMoves, IdleTyped DEF Receive, Pcs
      <4> QED BY <3>1, <3>4, <4>1
    <3>5. CASE policy = "discard"
      <4>1. MarkAndSave(c, s, "discarded") /\ "discarded" \in Statuses
        BY <3>1, <3>5 DEF Receive, Statuses
      <4>2. PICK pc \in {"idle", "persist"}, u \in Snapshots \cup {Nothing} : Moves(c, pc, u)
        BY <2>1, <4>1, MarkMoves
      <4> QED BY <3>5, <4>2
    <3> QED BY <2>1, <3>3, <3>4, <3>5 DEF TypeOK
  <2>4. CASE \E s \in Snapshots : c \in Requests /\ (Apply(c, s) \/ Discard(c, s))
    <3>1. PICK s \in Snapshots : c \in Requests /\ (Apply(c, s) \/ Discard(c, s))
      BY <2>4
    <3>2. PICK pc \in {"load", "delete"} : Spawn(c, pc, s, NoStatus)
      BY <3>1 DEF Apply, Discard
    <3>3. Moves(c, pc, s) /\ stored' = stored
      BY <2>1, <3>1, <3>2, SpawnMoves, IdleTyped DEF Pcs, Apply, Discard, files, store
    <3> QED BY <2>2, <3>1, <3>3
  <2>5. CASE Stored(c) \/ StoreFails(c)
    <3>1. c = Consumer /\ policy # "auto" /\ calls[c].snapshot \in Snapshots
      BY <2>1, <2>5 DEF Stored, StoreFails, At, Roles, SlotsNamed, Named
    <3>2. PICK pc \in {"idle", "persist", "ended"}, u \in Snapshots \cup {Nothing} :
            Moves(c, pc, u)
      <4>1. CASE Stored(c)
        <5>1. MarkAndSave(c, calls[c].snapshot, "pending") /\ "pending" \in Statuses
          BY <4>1 DEF Stored, Statuses
        <5> QED BY <2>1, <3>1, <5>1, MarkMoves
      <4>2. CASE StoreFails(c)
        BY <2>1, <4>2, ThrowMoves DEF StoreFails
      <4> QED BY <2>5, <4>1, <4>2
    <3> QED BY <3>1, <3>2
  <2>6. CASE Loaded(c)
    <3>1. policy # "auto" /\ c # Consumer
      BY <2>1, <2>2, <2>6 DEF Loaded, At, Roles
    <3>2. Moves(c, "write", calls[c].snapshot)
      BY <2>1, <2>6, AwaitMoves DEF Loaded, Pcs, Applying
    <3>3. calls[c].snapshot \in Snapshots
      BY <2>1, <2>6 DEF Loaded, At, SlotsNamed, Named
    <3> QED BY <3>1, <3>2, <3>3
  <2>7. CASE Deleted(c)
    <3>1. calls[c].snapshot \in Snapshots /\ "discarded" \in Statuses
          /\ MarkAndSave(c, calls[c].snapshot, "discarded")
          /\ stored' = stored \ {calls[c].snapshot}
      BY <2>1, <2>7 DEF Deleted, At, SlotsNamed, Named, Statuses
    <3>2. PICK pc \in {"idle", "persist"}, u \in Snapshots \cup {Nothing} : Moves(c, pc, u)
      BY <2>1, <3>1, MarkMoves
    <3> QED BY <2>2, <3>1, <3>2
  <2>8. CASE LoadFails(c) \/ DeleteFails(c) \/ Persisted(c) \/ PersistFails(c)
    <3>1. PICK pc \in {"idle", "ended"}, u \in Snapshots \cup {Nothing} : Moves(c, pc, u)
      BY <2>1, <2>8, ThrowMoves, ReturnMoves DEF LoadFails, DeleteFails, Persisted,
         PersistFails
    <3>2. stored' \subseteq stored
      BY <2>8 DEF LoadFails, DeleteFails, Persisted, PersistFails, files, store
    <3> QED BY <2>2, <3>1, <3>2
  <2> QED BY <2>3, <2>4, <2>5, <2>6, <2>7, <2>8
<1>3. PICK pc \in {"idle", "ended", "store", "load", "delete", "persist", "write"} :
        \E s \in Snapshots \cup {Nothing} :
          /\ Moves(c, pc, s)
          /\ policy = "auto" => stored' = {}
          /\ pc = "store" => c = Consumer /\ policy # "auto"
          /\ pc = "load" => c \in Requests
          /\ pc = "write" => (c = Consumer <=> policy = "auto")
  BY <1>2
<1>4. PICK s \in Snapshots \cup {Nothing} :
          /\ Moves(c, pc, s)
          /\ policy = "auto" => stored' = {}
          /\ pc = "store" => c = Consumer /\ policy # "auto"
          /\ pc = "load" => c \in Requests
          /\ pc = "write" => (c = Consumer <=> policy = "auto")
  BY <1>3
<1>5. pc \notin Applying \ {"write"}
  BY DEF Applying
<1>6. Roles'
  BY <1>1, <1>4, <1>5, RolesKept DEF ApplicationInv
<1>7. \A d \in Slots : OnItsWay(d)'
  BY <1>1, <1>4, <1>5, WaysKept
<1> QED BY <1>1, <1>6, <1>7 DEF ApplicationInv, DownIsIdle

\* Inside of applySnapshot(), step by step.
LEMMA InsideStep ==
  ASSUME SnapshotsInv, ApplicationInv, OneRequest, NEW c \in Requests \cup {Consumer},
         Transport(c)
  PROVE  ApplicationInv'
<1> DEFINE s == calls[c].snapshot
<1>1. /\ c \in Slots /\ TypeOK /\ Roles /\ OnItsWay(c) /\ UnknownHasNone
      /\ policy = "auto" => stored = {}
  BY DEF Slots, SnapshotsInv, ApplicationInv, Roles
<1>2. /\ up /\ up' /\ policy' = policy /\ calls[c].pc \in Applying
      /\ policy = "auto" => stored' = {}
  <2>1. UNCHANGED <<process, files>> /\ up
    BY DEF Transport, Written, Extracted, Replaced, ApplyFails, Unlinked, Removed, Copied, At
  <2>2. calls[c].pc \in Applying
    BY DEF Transport, Written, Extracted, Replaced, ApplyFails, Interrupted, Unlinked,
       Removed, Copied, At, Applying
  <2> QED BY <1>1, <2>1, <2>2 DEF process, files, store
<1>3. s \in Snapshots /\ s # Nothing /\ Contents[s] \subseteq Files /\ Contents[s] # {}
  BY <1>1, <1>2, ConstantsAssumption DEF SnapshotsInv, SlotsNamed, Named
<1>4. ASSUME NEW pc \in Applying \cup {"idle", "persist"}, NEW u, Moves(c, pc, u),
             OnItsWay(c)'
      PROVE  ApplicationInv'
  <2>1. Roles'
    BY <1>1, <1>2, <1>4, RolesKept DEF Applying
  <2>2. \A d \in Slots : OnItsWay(d)'
    BY <1>1, <1>2, <1>4, WayKept
  <2> QED BY <1>2, <2>1, <2>2 DEF ApplicationInv, DownIsIdle
<1>5. ASSUME NEW pc \in Applying, Await(c, pc)
      PROVE  Moves(c, pc, s) /\ calls'[c].failed = calls[c].failed
             /\ calls'[c].snapshot = s
  <2>1. Moves(c, pc, s)
    BY <1>1, <1>5, AwaitMoves DEF Pcs
  <2> QED BY <1>1, <1>5, <2>1 DEF Await, TypeOK, Contexts, Moves
<1>6. CASE Written(c)
  <2>1. Moves(c, "extract", s) /\ calls'[c].snapshot = s /\ archive' = s
    BY <1>5, <1>6 DEF Written, Applying
  <2>2. OnItsWay(c)'
    BY <2>1 DEF OnItsWay, Moves
  <2> QED BY <1>4, <2>1, <2>2 DEF Applying
<1>7. CASE Extracted(c)
  <2>1. /\ Moves(c, "replace", s) /\ calls'[c].failed = calls[c].failed
        /\ calls'[c].snapshot = s
    BY <1>5, <1>7 DEF Extracted, Applying
  <2>2. extracted = Empty \/ directoryKept
    BY <1>1, <1>2, <1>7, EmptyDirectory DEF Extracted, At
  <2>3. ASSUME ~calls[c].failed
        PROVE  Holds(extracted', s, {}, directoryKept')
    <3>1. /\ archive = s /\ extracted' = Overwritten(Contents[s])
          /\ directoryKept' = directoryKept
      BY <1>1, <1>7, <2>3 DEF Extracted, At, OnItsWay
    <3>2. \A f \in Files \ Contents[s] :
            \/ extracted[f] = Nothing
            \/ directoryKept /\ extracted[f] \in Snapshots
      BY <1>1, <2>2 DEF Empty, TypeOK
    <3> QED BY <3>1, <3>2 DEF Holds, Overwritten
  <2>4. OnItsWay(c)'
    BY <2>1, <2>3 DEF OnItsWay, Moves
  <2> QED BY <1>4, <2>1, <2>4 DEF Applying
<1>8. CASE Replaced(c)
  <2>1. CASE extracted = Empty
    <3>1. calls[c].failed
      BY <1>1, <1>3, <1>8, <2>1 DEF Replaced, At, OnItsWay, Holds, Empty
    <3>2. Moves(c, "unlink", s) /\ calls'[c].failed = calls[c].failed
      BY <1>5, <1>8, <2>1 DEF Replaced, Applying
    <3> QED BY <1>4, <3>1, <3>2 DEF OnItsWay, Applying
  <2>2. CASE extracted # Empty
    <3> DEFINE left == {f \in Files : extracted[f] # Nothing}
    <3>1. /\ calls' = [calls EXCEPT ![c] = [@ EXCEPT !.pc = "copy", !.left = left]]
          /\ workspace' = Empty /\ extracted' = extracted /\ calls[c].pc = "replace"
          /\ directoryKept' = directoryKept
      BY <1>8, <2>2 DEF Replaced, At, temp
    <3>2. Moves(c, "copy", s)
      BY <1>1, <3>1, ChangeMoves DEF Pcs, Applying
    <3>3. /\ calls'[c].failed = calls[c].failed /\ calls'[c].snapshot = s
          /\ calls'[c].left = left /\ calls'[c].pc = "copy"
      BY <1>1, <3>1 DEF TypeOK, Contexts
    <3>4. ASSUME ~calls[c].failed
          PROVE  /\ Holds(extracted', s, {}, directoryKept')
                 /\ Holds(workspace', s, left, directoryKept')
      <4>1. Holds(extracted, s, {}, directoryKept) /\ Contents[s] \subseteq left
        BY <1>1, <1>3, <3>1, <3>4 DEF OnItsWay, Holds
      <4> QED BY <3>1, <4>1 DEF Holds, Empty
    <3>5. OnItsWay(c)'
      <4> HIDE DEF left
      <4> QED BY <3>3, <3>4 DEF OnItsWay, Holds
    <3> QED BY <1>4, <3>2, <3>5 DEF Applying
  <2> QED BY <2>1, <2>2
<1>9. ASSUME NEW f \in Files, Copied(c, f) PROVE ApplicationInv'
  <2> DEFINE left == calls[c].left \ {f}
             pc == IF calls[c].left = {f} THEN "unlink" ELSE "copy"
  <2>1. /\ calls' = [calls EXCEPT ![c] = [calls[c] EXCEPT !.pc = pc, !.left = left]]
        /\ workspace' = [workspace EXCEPT ![f] = extracted[f]] /\ extracted' = extracted
        /\ calls[c].pc = "copy" /\ f \in calls[c].left
        /\ directoryKept' = directoryKept
    BY <1>9 DEF Copied, At, temp
  <2>2. left \in SUBSET Files /\ pc \in {"unlink", "copy"} /\ (pc = "unlink" <=> left = {})
    BY <1>1, <2>1 DEF TypeOK, Contexts
  <2>3. Moves(c, pc, s)
    <3> HIDE DEF left, pc
    <3> QED BY <1>1, <2>1, <2>2, ChangeMoves DEF Pcs, Applying
  <2>4. /\ calls'[c].failed = calls[c].failed /\ calls'[c].snapshot = s
        /\ calls'[c].left = left /\ calls'[c].pc = pc
    <3> HIDE DEF left, pc
    <3> QED BY <1>1, <2>1 DEF TypeOK, Contexts
  <2>5. ASSUME ~calls[c].failed
        PROVE  /\ Holds(extracted', s, {}, directoryKept')
               /\ Holds(workspace', s, left, directoryKept')
    <3>1. /\ Holds(extracted, s, {}, directoryKept)
          /\ Holds(workspace, s, calls[c].left, directoryKept)
      BY <1>1, <2>1, <2>5 DEF OnItsWay
    <3>2. workspace'[f] = extracted[f] /\ \A g \in Files \ {f} : workspace'[g] = workspace[g]
      BY <1>1, <2>1 DEF TypeOK
    <3> QED BY <2>1, <3>1, <3>2 DEF Holds
  <2>6. OnItsWay(c)'
    <3> HIDE DEF left, pc
    <3> QED BY <2>2, <2>4, <2>5 DEF OnItsWay
  <2> QED BY <1>4, <2>2, <2>3, <2>6 DEF Applying
<1>10. CASE ApplyFails(c)
  <2>1. Moves(c, "unlink", s)
    <3>1. "unlink" \in Pcs
      BY DEF Pcs, Applying
    <3> QED BY <1>1, <1>10, <3>1, FailureMoves DEF ApplyFails
  <2>2. calls'[c].failed
    BY <1>1, <1>10 DEF ApplyFails, TypeOK, Contexts
  <2> QED BY <1>4, <2>1, <2>2 DEF OnItsWay, Applying
<1>11. CASE Unlinked(c)
  <2>1. /\ Moves(c, "remove", s) /\ calls'[c].failed = calls[c].failed
        /\ calls'[c].snapshot = s
    BY <1>5, <1>11 DEF Unlinked, Applying
  <2>2. OnItsWay(c)'
    BY <1>1, <1>11, <2>1 DEF Unlinked, At, OnItsWay, Moves, Holds
  <2> QED BY <1>4, <2>1, <2>2 DEF Applying
<1>12. CASE Removed(c)
  <2>1. MarkAndSave(c, s, "applied") /\ "applied" \in Statuses
    BY <1>12 DEF Removed, Statuses
  <2>2. PICK pc \in {"idle", "persist"}, u \in Snapshots \cup {Nothing} : Moves(c, pc, u)
    BY <1>1, <1>3, <2>1, MarkMoves
  <2>3. OnItsWay(c)'
    BY <2>2 DEF OnItsWay, Moves
  <2> QED BY <1>4, <2>2, <2>3
<1> QED BY <1>6, <1>7, <1>8, <1>9, <1>10, <1>11, <1>12 DEF Transport

LEMMA SweptAndRestarted ==
  ASSUME SnapshotsInv, ApplicationInv,
         SweepExpired \/ SweepSnapshots \/ SweepFile \/ SweepFails \/ Crash \/ Initialize
  PROVE  ApplicationInv'
<1>1. /\ Timer \in Slots /\ Consumer \in Slots /\ Requests \subseteq Slots /\ TypeOK
      /\ Timer # Consumer /\ Timer \notin Requests
  BY ConstantsAssumption DEF Slots, SnapshotsInv
<1>2. CASE SweepExpired \/ SweepSnapshots \/ SweepFile
  <2>1. /\ up /\ up' /\ policy' = policy /\ UNCHANGED <<temp, workspace>>
        /\ stored' \subseteq stored
    BY <1>2 DEF SweepExpired, SweepSnapshots, SweepFile, At, process, files,
       store
  <2>2. PICK pc \in {"idle", "sweep", "forget"}, s \in Snapshots \cup {Nothing} :
          Moves(Timer, pc, s)
    <3>1. CASE SweepExpired
      BY <1>1, <3>1, SpawnMoves, IdleTyped DEF SweepExpired, Pcs
    <3>2. CASE SweepSnapshots
      <4>1. Moves(Timer, "forget", calls[Timer].snapshot)
        BY <1>1, <3>2, AwaitMoves DEF SweepSnapshots, Pcs
      <4> QED BY <1>1, <4>1 DEF TypeOK, Contexts
    <3>3. CASE SweepFile
      BY <1>1, <3>3, ReturnMoves DEF SweepFile
    <3> QED BY <1>2, <3>1, <3>2, <3>3
  <2>3. pc \notin Applying
    BY DEF Applying
  <2>4. \A d \in Slots : OnItsWay(d)'
    BY <1>1, <2>1, <2>2, <2>3, WaysKept
  <2>5. Roles'
    BY <1>1, <2>1, <2>2 DEF ApplicationInv, Roles, Moves
  <2> QED BY <2>1, <2>4, <2>5 DEF ApplicationInv, DownIsIdle
<1>3. CASE Crash \/ SweepFails
  <2>1. /\ \A c \in Slots : calls'[c].pc = "idle"
        /\ policy' = policy /\ stored' \subseteq stored
    BY <1>3, IdleTyped DEF Crash, SweepFails, Die
  <2>2. Roles' /\ DownIsIdle'
    BY <1>1, <2>1 DEF ApplicationInv, Roles, DownIsIdle, Applying
  <2> QED BY <2>1, <2>2 DEF ApplicationInv, OnItsWay
<1>4. CASE Initialize
  <2>1. /\ \A c \in Slots : calls'[c].pc = "idle"
        /\ policy' = policy /\ stored' \subseteq stored
    BY <1>4 DEF Initialize, Leftovers, ApplicationInv, DownIsIdle
  <2>2. Roles' /\ DownIsIdle'
    BY <1>1, <2>1 DEF ApplicationInv, Roles, DownIsIdle, Applying
  <2> QED BY <2>1, <2>2 DEF ApplicationInv, OnItsWay
<1> QED BY <1>2, <1>3, <1>4

LEMMA ApplicationKept ==
  ASSUME SnapshotsInv, ApplicationInv, OneRequest, [Next]_vars
  PROVE  ApplicationInv'
<1>1. ASSUME NEW s \in Snapshots, Receive(s) PROVE ApplicationInv'
  BY <1>1, AroundStep
<1>2. ASSUME NEW c \in Requests, NEW s \in Snapshots, Apply(c, s) \/ Discard(c, s)
      PROVE  ApplicationInv'
  BY <1>2, AroundStep
<1>3. ASSUME NEW c \in Requests \cup {Consumer},
             \/ Stored(c) \/ StoreFails(c) \/ Loaded(c) \/ LoadFails(c) \/ Deleted(c)
             \/ DeleteFails(c) \/ Transport(c) \/ Persisted(c) \/ PersistFails(c)
      PROVE  ApplicationInv'
  BY <1>3, AroundStep, InsideStep
<1>4. CASE SweepExpired \/ SweepSnapshots \/ SweepFile \/ SweepFails \/ Crash \/ Initialize
  BY <1>4, SweptAndRestarted
<1>5. CASE UNCHANGED vars
  BY <1>5 DEF vars, process, record, files, store, temp, ApplicationInv, Roles, DownIsIdle,
     OnItsWay, Holds
<1> QED BY <1>1, <1>2, <1>3, <1>4, <1>5 DEF Next

\* With one request in hand at a time an application has the archive, the
\* directory and the workspace to itself.
THEOREM ApplicationInvariant ==
  ASSUME OneRequest
  PROVE  Spec => []ApplicationInv
<1>1. Init => ApplicationInv
  <2> SUFFICES ASSUME Init PROVE ApplicationInv
    OBVIOUS
  <2>1. \A c \in Slots : calls[c].pc = "idle"
    BY IdleTyped DEF Init
  <2> QED BY <2>1 DEF Init, ApplicationInv, Roles, DownIsIdle, OnItsWay, Slots, Applying
<1>2. SnapshotsInv /\ ApplicationInv /\ [Next]_vars => ApplicationInv'
  BY ApplicationKept
<1> QED BY <1>1, <1>2, SnapshotsInvariant, PTL DEF Spec

\* With one request in hand at a time, what is recorded as applied without an
\* exception is the workspace, whole and without a file of the user's, for any
\* snapshots and files and after any crash; and it is alone there unless a
\* removal of the extraction directory has failed.
THEOREM AppliedWhole ==
  ASSUME OneRequest
  PROVE  Spec => AppliedIsWhole
<1>1. ApplicationInv =>
        [\A c \in Slots, s \in Snapshots :
           Marks(c, s) /\ ~calls[c].failed => WholeIn(s)]_vars
  BY DEF ApplicationInv, OnItsWay, Marks, Holds, WholeIn
<1> QED BY <1>1, ApplicationInvariant, PTL DEF AppliedIsWhole
=============================================================================
