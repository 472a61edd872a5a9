------------------------ MODULE ExecutorServiceProofs ------------------------
(***************************************************************************)
(* Proofs about ExecutorService, for every set of ids, every number of     *)
(* calls in flight and every choice of its constants.                      *)
(***************************************************************************)
EXTENDS ExecutorService, TLAPS

(***************************************************************************)
(* The transition table.                                                   *)
(***************************************************************************)
\* An accepted event leaves a state that is not terminal, for another one.
LEMMA AcceptedTransition ==
  ASSUME NEW s \in AssignmentStates \cup {"absent"}, s # "absent",
         NEW e \in AssignmentEvents, NEW t \in AssignmentNext(s, e)
  PROVE  t \in AssignmentStates /\ t # s /\ ~IsTerminalAssignment(s)
  BY DEF AssignmentStates, AssignmentEvents, AssignmentNext,
         AssignmentTarget, AssignmentTransitions, IsTerminalAssignment

(***************************************************************************)
(* The records.                                                            *)
(***************************************************************************)
LEMMA AssignmentTyped ==
  ASSUME NEW s \in AssignmentStates, NEW b \in Nat, NEW r \in Nat
  PROVE  Assignment(s, b, r) \in Records
  BY DEF Assignment, Records

LEMMA CallTyped ==
  ASSUME NEW pc \in Pcs, NEW id \in Ids \cup {NoId}, NEW e \in Nat,
         NEW b \in Nat, NEW r \in Records
  PROVE  Call(pc, id, e, b, r) \in Contexts
  BY DEF Call, Contexts

LEMMA EmptyTyped ==
  /\ NoRecord \in Records /\ NoStream \in Streams /\ Idle \in Contexts
  <1>1. NoRecord \in Records
    BY DEF NoRecord, Assignment, Records
  <1>2. NoStream \in Streams
    BY DEF NoStream, Streams
  <1>3. Idle \in Contexts
    BY <1>1, CallTyped DEF Idle, Pcs
  <1> QED BY <1>1, <1>2, <1>3

LEMMA RecordFields ==
  ASSUME NEW r \in Records
  PROVE  /\ r.born \in Nat /\ r.result \in Nat
         /\ r.state \in AssignmentStates \cup {"absent"}
  BY DEF Records

LEMMA ContextFields ==
  ASSUME NEW k \in Contexts
  PROVE  /\ k.pc \in Pcs /\ k.id \in Ids \cup {NoId} /\ k.emitter \in Nat
         /\ k.born \in Nat /\ k.content \in Records
  BY DEF Contexts

LEMMA InitTypeOK == Init => TypeOK
  BY EmptyTyped DEF Init, TypeOK, Attachments

(***************************************************************************)
(* The fragments keep their variables typed.                               *)
(***************************************************************************)
LEMMA ReturnTyped ==
  ASSUME TypeOK, NEW c \in Calls, Return(c)
  PROVE  calls' \in [Calls -> Contexts]
  BY EmptyTyped DEF TypeOK, Return

LEMMA AwaitTyped ==
  ASSUME TypeOK, NEW c \in Calls, NEW pc \in Pcs, Await(c, pc)
  PROVE  calls' \in [Calls -> Contexts]
  BY ContextFields, CallTyped DEF TypeOK, Await

LEMMA SpawnTyped ==
  ASSUME TypeOK, NEW c \in Calls, NEW pc \in Pcs, NEW id \in Ids,
         Spawn(c, pc, id)
  PROVE  calls' \in [Calls -> Contexts]
  BY EmptyTyped, RecordFields, CallTyped DEF TypeOK, Spawn

LEMMA AwaitSaveTyped ==
  ASSUME TypeOK, NEW c \in Calls, NEW pc \in Pcs, NEW id \in Ids,
         assignments' \in [Ids -> Records], AwaitSave(c, pc, id)
  PROVE  calls' \in [Calls -> Contexts]
  BY ContextFields, CallTyped DEF TypeOK, AwaitSave

MapsTyped ==
  /\ assignments \in [Ids -> Records]
  /\ stateMachines \in [Ids -> AssignmentStates \cup {"absent"}]
  /\ eventEmitters \in [Ids -> Nat] /\ minted \in [Ids -> Nat]

LEMMA ForgetTyped ==
  ASSUME TypeOK, NEW id \in Ids, Forget(id), UNCHANGED minted
  PROVE  MapsTyped'
  BY EmptyTyped DEF TypeOK, Forget, MapsTyped

LEMMA RegisterTyped ==
  ASSUME TypeOK, NEW id \in Ids, NEW r \in Records, Register(id, r)
  PROVE  MapsTyped'
  BY DEF TypeOK, Register, MapsTyped, AssignmentStates

LEMMA TransitionTyped ==
  ASSUME TypeOK, NEW id \in Ids, NEW e \in AssignmentEvents, NEW r \in Nat,
         Accepts(id, e), Transition(id, e, r),
         UNCHANGED <<eventEmitters, minted>>, StateMachineBacked
  PROVE  MapsTyped'
  <1>1. PICK t \in AssignmentNext(stateMachines[id], e) :
          /\ stateMachines' = [stateMachines EXCEPT ![id] = t]
          /\ assignments' =
               [assignments EXCEPT ![id] = Assignment(t, @.born, r)]
    BY DEF Transition
  <1>2. t \in AssignmentStates
    BY AcceptedTransition DEF TypeOK, Accepts, StateMachineBacked, Known
  <1>3. Assignment(t, assignments[id].born, r) \in Records
    BY <1>2, AssignmentTyped, RecordFields DEF TypeOK
  <1> QED BY <1>1, <1>2, <1>3 DEF TypeOK, MapsTyped

LEMMA EmitTyped ==
  ASSUME TypeOK, NEW id \in Ids, NEW e \in Nat,
         NEW kind \in {"done", "error"}, Emit(id, e, kind)
  PROVE  stream' \in [Ids -> Streams]
  <1>1. [on |-> 0, heard |-> kind] \in Streams
    BY DEF Streams
  <1> QED BY <1>1 DEF TypeOK, Emit

LEMMA DieTyped ==
  ASSUME TypeOK, NEW last \in [Ids -> Streams], Die(last),
         disk' \in [Ids -> Records], UNCHANGED <<workDirs, attached>>
  PROVE  TypeOK'
  <1>1. [on |-> 0, heard |-> "lost"] \in Streams
    BY DEF Streams
  <1> QED BY <1>1, EmptyTyped DEF TypeOK, Die

LEMMA LandedTyped ==
  ASSUME TypeOK, NEW c \in Calls, calls[c].id \in Ids, disk' \in Landed(c)
  PROVE  disk' \in [Ids -> Records]
  <1>1. calls[c].content \in Records
    BY ContextFields DEF TypeOK
  <1> QED BY <1>1 DEF TypeOK, Landed

LEMMA LetGoTyped ==
  ASSUME TypeOK, NEW id \in Ids, LetGo(id)
  PROVE  /\ attached' \in [Ids -> Attachments] /\ attached'[id] # "yes"
         /\ attached[id] = "no" => attached'[id] = "no"
         /\ \A x \in Ids : x # id => attached'[x] = attached[x]
  BY DEF TypeOK, LetGo, AfterRelease, Attachments

LEMMA RemoveFileTyped ==
  ASSUME TypeOK, NEW id \in Ids, RemoveFile(id)
  PROVE  /\ disk' \in [Ids -> Records] /\ disk'[id] \in {disk[id], NoRecord}
         /\ \A x \in Ids : x # id => disk'[x] = disk[x]
  BY EmptyTyped DEF TypeOK, RemoveFile

LEMMA RemoveDirTyped ==
  ASSUME TypeOK, NEW id, RemoveDir(id)
  PROVE  workDirs' \in SUBSET Ids
  BY DEF TypeOK, RemoveDir

LEMMA LoadEffect ==
  ASSUME TypeOK, Load
  PROVE  /\ assignments' = disk /\ attached' = attached
         /\ stateMachines' = [id \in Ids |-> disk[id].state]
         /\ minted' \in [Ids -> Nat] /\ eventEmitters' \in [Ids -> Nat]
         /\ \A id \in Saved : ~IsTerminalAssignment(disk[id].state) =>
              eventEmitters'[id] # 0
         /\ workDirs' \in SUBSET Ids
<1> DEFINE live == {id \in Saved : ~IsTerminalAssignment(disk[id].state)}
<1>1. /\ assignments' = disk /\ attached' = attached
      /\ stateMachines' = [id \in Ids |-> disk[id].state]
      /\ minted' = [id \in Ids |-> IF id \in live THEN minted[id] + 1 ELSE minted[id]]
      /\ eventEmitters' = [id \in Ids |-> IF id \in live THEN minted'[id] ELSE 0]
  BY DEF Load
<1>2. workDirs' \in SUBSET Ids
  BY DEF Load, Leftovers, TypeOK
<1>3. live \subseteq Ids /\ \A id \in live : minted'[id] = minted[id] + 1
  BY <1>1 DEF Saved
<1> HIDE DEF live
<1>4. minted' \in [Ids -> Nat]
  BY <1>1 DEF TypeOK
<1>5. eventEmitters' \in [Ids -> Nat] /\ \A id \in live : eventEmitters'[id] # 0
  BY <1>1, <1>3, <1>4 DEF TypeOK
<1> QED BY <1>1, <1>2, <1>4, <1>5 DEF live

LEMMA CleanUpEffect ==
  ASSUME TypeOK, CleanUp
  PROVE  /\ UNCHANGED <<maps, minted>> /\ workDirs' \in SUBSET Ids
         /\ attached' \in [Ids -> Attachments]
         /\ \A id \in Ids : attached[id] = "no" => attached'[id] = "no"
  BY DEF CleanUp, AfterRelease, Leftovers, TypeOK

LEMMA InitializeFiles ==
  ASSUME TypeOK, Initialize
  PROVE  /\ disk' \in [Ids -> Records]
         /\ \A id \in Ids : disk'[id] \in {disk[id], NoRecord}
  BY EmptyTyped DEF Initialize, TypeOK

(***************************************************************************)
(* Type correctness of the actions.  A request starts at an idle slot, a   *)
(* continuation at one that names its id.                                  *)
(***************************************************************************)
LEMMA SlotId ==
  ASSUME TypeOK, SlotsNamed, NEW c \in Calls, calls[c].pc # "idle"
  PROVE  calls[c].id \in Ids /\ calls[c].emitter \in Nat /\ calls[c].born \in Nat
  BY ContextFields DEF TypeOK, SlotsNamed

LEMMA PcsListed ==
  /\ {"idle", "admission", "discard", "redetach", "detach", "detachCancel",
      "unlink", "sweepTransport", "sweepWorkspace", "sweepFile"} \subseteq Pcs
  /\ PersistPoints \subseteq Pcs /\ Working \subseteq Pcs
  /\ {"persistInvite", "persistReinvite", "persistStart", "persistDone",
      "persistFailure", "persistCancel", "persistError"} \subseteq Pcs
  /\ {"prepare", "setup", "execute", "capture"} \subseteq Pcs
  BY DEF Pcs, PersistPoints, Working

LEMMA RequestTyped ==
  ASSUME ExecutorInv, NEW c \in Calls, NEW id \in Ids, Request(c, id)
  PROVE  TypeOK'
<1> USE DEF ExecutorInv, process, maps, storage
<1>1. CASE HandleInvite(c, id)
  <2>1. calls' \in [Calls -> Contexts]
    BY <1>1, SpawnTyped, PcsListed DEF HandleInvite
  <2> QED BY <1>1, <2>1, EmptyTyped DEF TypeOK, HandleInvite
<1>2. CASE HandleStart(c, id)
  <2>1. MapsTyped'
    BY <1>2, TransitionTyped, RecordFields
       DEF TypeOK, HandleStart, AssignmentEvents
  <2>2. calls' \in [Calls -> Contexts]
    BY <1>2, <2>1, AwaitSaveTyped, PcsListed DEF HandleStart, MapsTyped
  <2> QED BY <1>2, <2>1, <2>2 DEF TypeOK, MapsTyped, HandleStart
<1>3. CASE HandleError(c, id)
  <2>1. MapsTyped'
    BY <1>3, TransitionTyped, RecordFields
       DEF TypeOK, HandleError, AssignmentEvents
  <2>2. calls' \in [Calls -> Contexts]
    BY <1>3, <2>1, AwaitSaveTyped, PcsListed DEF HandleError, MapsTyped
  <2> QED BY <1>3, <2>1, <2>2 DEF TypeOK, MapsTyped, HandleError
<1>4. CASE CancelDelegation(c, id)
  <2>1. MapsTyped'
    BY <1>4, TransitionTyped, RecordFields
       DEF TypeOK, CancelDelegation, AssignmentEvents
  <2>2. calls' \in [Calls -> Contexts]
    BY <1>4, <2>1, AwaitSaveTyped, PcsListed DEF CancelDelegation, MapsTyped
  <2>3. stream' \in [Ids -> Streams]
    BY <1>4, EmitTyped DEF CancelDelegation, TypeOK
  <2> QED BY <1>4, <2>1, <2>2, <2>3 DEF TypeOK, MapsTyped, CancelDelegation
<1>5. CASE AcknowledgeResult(c, id)
  <2>1. MapsTyped'
    BY <1>5, ForgetTyped DEF AcknowledgeResult
  <2>2. calls' \in [Calls -> Contexts]
    BY <1>5, SpawnTyped, PcsListed DEF AcknowledgeResult
  <2> QED BY <1>5, <2>1, <2>2 DEF TypeOK, MapsTyped, AcknowledgeResult
<1>6. CASE SweepExpired(c, id)
  <2>1. calls' \in [Calls -> Contexts]
    BY <1>6, SpawnTyped, PcsListed DEF SweepExpired
  <2> QED BY <1>6, <2>1 DEF TypeOK, SweepExpired
<1> QED BY <1>1, <1>2, <1>3, <1>4, <1>5, <1>6 DEF Request

\* A task that ends: its emitter, its transition, its save or its death.
LEMMA CatchTyped ==
  ASSUME ExecutorInv, NEW c \in Calls, calls[c].pc # "idle", Catch(c),
         UNCHANGED storage
  PROVE  TypeOK'
<1> DEFINE id == calls[c].id
<1>1. id \in Ids /\ calls[c].emitter \in Nat
  BY SlotId DEF ExecutorInv
<1>2. CASE /\ Accepts(id, "TASK_FAIL")
           /\ Emit(id, calls[c].emitter, "error")
           /\ Transition(id, "TASK_FAIL", assignments[id].result)
           /\ AwaitSave(c, "persistFailure", id)
           /\ UNCHANGED <<process, eventEmitters, minted>>
  <2>1. MapsTyped'
    BY <1>1, <1>2, TransitionTyped, RecordFields
       DEF ExecutorInv, TypeOK, AssignmentEvents
  <2>2. calls' \in [Calls -> Contexts]
    BY <1>1, <1>2, <2>1, AwaitSaveTyped, PcsListed DEF ExecutorInv, MapsTyped
  <2>3. stream' \in [Ids -> Streams]
    BY <1>1, <1>2, EmitTyped DEF ExecutorInv
  <2> QED BY <1>2, <2>1, <2>2, <2>3
          DEF ExecutorInv, TypeOK, MapsTyped, process, storage
<1>3. CASE ~Accepts(id, "TASK_FAIL")
  <2>1. PICK last \in [Ids -> Streams] : Die(last)
    BY <1>1, <1>3 DEF Catch, ExecutorInv, TypeOK, Streams
  <2> QED BY <2>1, DieTyped DEF ExecutorInv, TypeOK, storage
<1> QED BY <1>2, <1>3 DEF Catch

LEMMA SettleTyped ==
  ASSUME ExecutorInv, NEW c \in Calls, Settle(c)
  PROVE  TypeOK'
<1> DEFINE id == calls[c].id
<1> USE DEF ExecutorInv, process, maps, storage
<1>0. calls[c].pc # "idle" =>
        id \in Ids /\ calls[c].emitter \in Nat /\ calls[c].born \in Nat
  BY SlotId
<1>1. CASE AdmissionRefused(c)
  BY <1>1, ReturnTyped DEF TypeOK, AdmissionRefused
<1>2. CASE AdmissionPassed(c)
  <2>1. id \in Ids
    BY <1>0, <1>2 DEF AdmissionPassed, At
  <2>2. Assignment("pending", minted[id] + 1, 0) \in Records
    BY <2>1, AssignmentTyped DEF TypeOK, AssignmentStates
  <2>3. MapsTyped'
    BY <1>2, <2>1, <2>2, RegisterTyped DEF AdmissionPassed
  <2>4. calls' \in [Calls -> Contexts]
    BY <1>2, <2>1, <2>3, AwaitSaveTyped, PcsListed
       DEF AdmissionPassed, MapsTyped
  <2> QED BY <1>2, <2>3, <2>4 DEF TypeOK, MapsTyped, AdmissionPassed
<1>3. CASE InviteDiscarded(c)
  <2>1. calls' \in [Calls -> Contexts]
    BY <1>3, ReturnTyped DEF InviteDiscarded
  <2>2. workDirs' \in SUBSET Ids /\ disk' \in [Ids -> Records]
    BY <1>0, <1>3, RemoveFileTyped, RemoveDirTyped DEF InviteDiscarded, At
  <2> QED BY <1>3, <2>1, <2>2 DEF TypeOK, InviteDiscarded
<1>4. CASE Redetached(c)
  <2>1. id \in Ids
    BY <1>0, <1>4 DEF Redetached, At
  <2>2. assignments[id] \in Records /\ Reopened(assignments[id]) \in Records
    BY <2>1, RecordFields, AssignmentTyped
       DEF TypeOK, Reopened, AssignmentStates
  <2>3. MapsTyped'
    BY <1>4, <2>1, <2>2, RegisterTyped DEF Redetached
  <2>4. calls' \in [Calls -> Contexts]
    BY <1>4, <2>1, <2>3, AwaitSaveTyped, PcsListed DEF Redetached, MapsTyped
  <2>5. attached' \in [Ids -> Attachments]
    BY <1>4, <2>1, LetGoTyped DEF Redetached
  <2> QED BY <1>4, <2>3, <2>4, <2>5 DEF TypeOK, MapsTyped, Redetached
<1>5. CASE AnswerPersisted(c)
  <2>1. disk' \in [Ids -> Records] /\ calls' \in [Calls -> Contexts]
    BY <1>0, <1>5, LandedTyped, ReturnTyped DEF AnswerPersisted
  <2> QED BY <1>5, <2>1 DEF TypeOK, AnswerPersisted
<1>6. CASE StartPersisted(c)
  <2>1. id \in Ids
    BY <1>0, <1>6 DEF StartPersisted, At
  <2>2. disk' \in [Ids -> Records]
    BY <1>6, <2>1, LandedTyped DEF StartPersisted
  <2>3. CASE ~Known(id)
    BY <1>6, <2>2, <2>3, DieTyped DEF StartPersisted, TypeOK
  <2>4. CASE Known(id)
    <3>1. Call("prepare", id, eventEmitters[id], assignments[id].born, NoRecord)
            \in Contexts
      BY <2>1, CallTyped, RecordFields, EmptyTyped, PcsListed DEF TypeOK
    <3> QED BY <1>6, <2>2, <2>4, <3>1 DEF StartPersisted, TypeOK
  <2> QED BY <2>3, <2>4
<1>7. CASE Prepared(c)
  BY <1>0, <1>7, AwaitTyped, PcsListed DEF TypeOK, Prepared, At
<1>8. CASE SetUp(c)
  BY <1>0, <1>8, AwaitTyped, PcsListed DEF TypeOK, SetUp, At, Attachments
<1>9. CASE Executed(c)
  BY <1>9, AwaitTyped, PcsListed DEF TypeOK, Executed
<1>10. CASE Captured(c)
  <2>1. id \in Ids /\ ResultOf(c) \in Nat /\ calls[c].emitter \in Nat
    BY <1>0, <1>10, RecordFields DEF Captured, At, ResultOf, TypeOK
  <2>2. CASE Accepts(id, "TASK_COMPLETE")
    <3>1. MapsTyped'
      BY <1>10, <2>1, <2>2, TransitionTyped DEF Captured, AssignmentEvents
    <3>2. calls' \in [Calls -> Contexts]
      BY <1>10, <2>1, <2>2, <3>1, AwaitSaveTyped, PcsListed
         DEF Captured, MapsTyped
    <3>3. stream' \in [Ids -> Streams]
      BY <1>10, <2>1, <2>2, EmitTyped DEF Captured
    <3> QED BY <1>10, <2>2, <3>1, <3>2, <3>3 DEF TypeOK, MapsTyped, Captured
  <2>3. CASE ~Accepts(id, "TASK_COMPLETE")
    <3>1. PICK last \in [Ids -> Streams] : Die(last)
      BY <1>10, <2>1, <2>3 DEF Captured, TypeOK, Streams
    <3> QED BY <1>10, <3>1, DieTyped DEF Captured, TypeOK
  <2> QED BY <2>2, <2>3
<1>11. CASE TaskFails(c)
  BY <1>11, CatchTyped DEF TaskFails, Working
<1>12. CASE TaskPersisted(c)
  <2>1. disk' \in [Ids -> Records] /\ calls' \in [Calls -> Contexts]
    BY <1>0, <1>12, LandedTyped, AwaitTyped, PcsListed DEF TaskPersisted
  <2> QED BY <1>12, <2>1 DEF TypeOK, TaskPersisted
<1>13. CASE Detached(c)
  <2>1. attached' \in [Ids -> Attachments]
    BY <1>0, <1>13, LetGoTyped DEF Detached
  <2> QED BY <1>13, <2>1, ReturnTyped DEF TypeOK, Detached
<1>14. CASE CancelPersisted(c)
  <2>1. disk' \in [Ids -> Records] /\ calls' \in [Calls -> Contexts]
    BY <1>0, <1>14, LandedTyped, AwaitTyped, PcsListed
       DEF CancelPersisted, At
  <2> QED BY <1>14, <2>1 DEF TypeOK, CancelPersisted
<1>15. CASE PersistFails(c)
  <2>1. calls[c].pc # "idle" /\ id \in Ids
    BY <1>0, <1>15 DEF PersistFails, PersistPoints
  <2>2. CASE calls[c].pc = "persistDone"
    BY <1>15, <2>1, <2>2, CatchTyped DEF PersistFails
  <2>3. CASE calls[c].pc = "persistFailure"
    BY <1>15, <2>3, DieTyped DEF PersistFails, TypeOK
  <2>4. CASE calls[c].pc = "persistInvite"
    <3>1. MapsTyped' /\ calls' \in [Calls -> Contexts]
      BY <1>15, <2>1, <2>4, ForgetTyped, AwaitTyped, PcsListed
         DEF PersistFails
    <3> QED BY <1>15, <2>4, <3>1 DEF TypeOK, MapsTyped, PersistFails
  <2>5. CASE Return(c) /\ UNCHANGED <<process, maps, minted, stream>>
    BY <1>15, <2>5, ReturnTyped DEF TypeOK, PersistFails
  <2> QED BY <1>15, <2>2, <2>3, <2>4, <2>5 DEF PersistFails, PersistPoints
<1>16. CASE Unlinked(c)
  <2>1. disk' \in [Ids -> Records]
    BY <1>0, <1>16, RemoveFileTyped DEF Unlinked, At
  <2> QED BY <1>16, <2>1, ReturnTyped DEF TypeOK, Unlinked
<1>17. CASE SweepTransport(c)
  <2>1. attached' \in [Ids -> Attachments]
    BY <1>0, <1>17, LetGoTyped DEF SweepTransport, At
  <2> QED BY <1>17, <2>1, AwaitTyped, PcsListed DEF TypeOK, SweepTransport
<1>18. CASE SweepWorkspace(c)
  <2>1. workDirs' \in SUBSET Ids
    BY <1>18, RemoveDirTyped DEF SweepWorkspace
  <2> QED BY <1>18, <2>1, AwaitTyped, PcsListed DEF TypeOK, SweepWorkspace
<1>19. CASE SweepFile(c)
  <2>1. MapsTyped' /\ disk' \in [Ids -> Records]
    BY <1>0, <1>19, ForgetTyped, RemoveFileTyped DEF SweepFile, At
  <2> QED BY <1>19, <2>1, ReturnTyped DEF TypeOK, MapsTyped, SweepFile
<1> QED BY <1>1, <1>2, <1>3, <1>4, <1>5, <1>6, <1>7, <1>8, <1>9, <1>10,
           <1>11, <1>12, <1>13, <1>14, <1>15, <1>16, <1>17, <1>18, <1>19
        DEF Settle

LEMMA NextTyped ==
  ASSUME ExecutorInv, [Next]_vars
  PROVE  TypeOK'
<1> USE DEF ExecutorInv
<1>1. CASE \E c \in Calls, id \in Ids : Request(c, id)
  BY <1>1, RequestTyped
<1>2. CASE \E c \in Calls : Settle(c)
  BY <1>2, SettleTyped
<1>3. ASSUME NEW id \in Ids, SubscribeTask(id) \/ Unsubscribe(id)
      PROVE  TypeOK'
  <2>1. \A kind \in {"nothing", "done", "error", "lost"}, e \in Nat :
          [on |-> e, heard |-> kind] \in Streams
    BY DEF Streams
  <2>2. stream' \in [Ids -> Streams]
    BY <1>3, <2>1 DEF SubscribeTask, Unsubscribe, TypeOK
  <2> QED BY <1>3, <2>2 DEF SubscribeTask, Unsubscribe, TypeOK, process, maps, storage
<1>4. CASE Crash
  BY <1>4, DieTyped DEF Crash, TypeOK, storage
<1>5. CASE Initialize
  <2>1. starts' \in Nat /\ disk' \in [Ids -> Records]
    BY <1>5, InitializeFiles DEF Initialize, TypeOK
  <2>2. /\ MapsTyped' /\ workDirs' \in SUBSET Ids
        /\ attached' \in [Ids -> Attachments]
    <3>1. CASE CleanUp
      BY <3>1, CleanUpEffect DEF TypeOK, MapsTyped, maps
    <3>2. CASE Load
      BY <3>2, LoadEffect, RecordFields DEF TypeOK, MapsTyped
    <3> QED BY <1>5, <3>1, <3>2 DEF Initialize
  <2> QED BY <1>5, <2>1, <2>2 DEF Initialize, TypeOK, MapsTyped
<1>6. CASE UNCHANGED vars
  BY <1>6 DEF vars, process, maps, storage, TypeOK
<1> QED BY <1>1, <1>2, <1>3, <1>4, <1>5, <1>6 DEF Next

(***************************************************************************)
(* The invariant.  One slot changes in a step; the record of an id keeps   *)
(* its identity unless the INVITE that waited for admission makes it.      *)
(***************************************************************************)
InvitePcs == {"admission", "persistInvite", "discard", "redetach",
              "persistReinvite"}

SlotsInv ==
  /\ SlotsNamed /\ DownIsEmpty
  /\ InvitesExclusive /\ AdmissionIsNew /\ RedetachHoldsObject

LEMMA SlotStep ==
  ASSUME ExecutorInv, TypeOK', NEW c \in Calls, NEW k \in Contexts,
         calls' = [calls EXCEPT ![c] = k], up, up',
         k.pc # "idle" => k.id \in Ids,
         k.pc \in InvitePcs => /\ calls[c].pc \in InvitePcs
                               /\ k.id = calls[c].id,
         k.pc \notin {"admission", "redetach"},
         \A id \in Ids : Known(id)' =>
           \/ Known(id) /\ assignments'[id].born = assignments[id].born
           \/ id = calls[c].id /\ calls[c].pc = "admission"
  PROVE  SlotsInv'
<1> USE DEF ExecutorInv
<1>1. \A d \in Calls : calls'[d] = IF d = c THEN k ELSE calls[d]
  BY DEF TypeOK
<1>2. SlotsNamed' /\ DownIsEmpty'
  BY <1>1 DEF SlotsNamed, DownIsEmpty
<1>3. \A id \in Ids : Inviting(id)' \subseteq Inviting(id)
  BY <1>1 DEF Inviting, InFlight, InvitePcs
<1>4. InvitesExclusive'
  BY <1>3 DEF InvitesExclusive
<1>5. ASSUME NEW d \in Calls, calls'[d].pc \in {"admission", "redetach"}
      PROVE  /\ d # c /\ calls[d] = calls'[d] /\ calls[d].id \in Ids
             /\ ~(calls[d].id = calls[c].id /\ calls[c].pc = "admission")
  <2>1. d # c /\ calls[d] = calls'[d] /\ calls[d].id \in Ids
    BY <1>1, <1>5 DEF SlotsNamed
  <2>2. calls[d].id = calls[c].id /\ calls[c].pc = "admission" =>
          d \in Inviting(calls[d].id) /\ c \in Inviting(calls[d].id)
    BY <1>5, <2>1 DEF Inviting, InFlight
  <2> QED BY <2>1, <2>2 DEF InvitesExclusive
<1>6. AdmissionIsNew'
  BY <1>5 DEF AdmissionIsNew, Known
<1>7. RedetachHoldsObject'
  BY <1>5 DEF RedetachHoldsObject, Known
<1> QED BY <1>2, <1>4, <1>6, <1>7 DEF SlotsInv

LEMMA DeathEmpties ==
  ASSUME ExecutorInv, NEW last, Die(last)
  PROVE  SlotsInv' /\ StateMachineBacked'
<1>1. Idle.pc = "idle" /\ NoRecord.state = "absent"
  BY DEF Idle, Call, NoRecord, Assignment
<1>2. \A d \in Calls : calls'[d] = Idle /\ calls'[d].pc = "idle"
  BY <1>1 DEF Die
<1>3. \A id \in Ids : assignments'[id] = NoRecord /\ ~Known(id)'
  BY <1>1 DEF Die, Known
<1>4. \A id \in Ids : Inviting(id)' = {}
  BY <1>2 DEF Inviting, InFlight
<1>5. SlotsNamed' /\ DownIsEmpty' /\ InvitesExclusive'
  BY <1>2, <1>3, <1>4 DEF SlotsNamed, DownIsEmpty, InvitesExclusive
<1>6. AdmissionIsNew' /\ RedetachHoldsObject'
  BY <1>2 DEF AdmissionIsNew, RedetachHoldsObject
<1> QED BY <1>3, <1>5, <1>6 DEF SlotsInv, StateMachineBacked

(***************************************************************************)
(* What the fragments do to the records of the maps.                       *)
(***************************************************************************)
\* The records keep their identity.
SameObjects ==
  \A id \in Ids : Known(id)' =>
    Known(id) /\ assignments'[id].born = assignments[id].born

LEMMA TransitionKeeps ==
  ASSUME ExecutorInv, NEW id \in Ids, NEW e \in AssignmentEvents,
         NEW r \in Nat, Accepts(id, e), Transition(id, e, r),
         UNCHANGED eventEmitters
  PROVE  SameObjects /\ StateMachineBacked'
<1> USE DEF ExecutorInv
<1>1. PICK t \in AssignmentNext(stateMachines[id], e) :
        /\ stateMachines' = [stateMachines EXCEPT ![id] = t]
        /\ assignments' = [assignments EXCEPT ![id] = Assignment(t, @.born, r)]
  BY DEF Transition
<1>2. ~IsTerminalAssignment(stateMachines[id])
  BY AcceptedTransition DEF TypeOK, Accepts, StateMachineBacked, Known
<1>3. Assignment(t, assignments[id].born, r).state = t
  BY DEF Assignment
<1>4. Assignment(t, assignments[id].born, r).born = assignments[id].born
  BY DEF Assignment
<1>5. SameObjects
  BY <1>1, <1>4 DEF SameObjects, Known, Accepts, TypeOK
<1>6. StateMachineBacked'
  BY <1>1, <1>2, <1>3 DEF StateMachineBacked, Known, Accepts, TypeOK
<1> QED BY <1>5, <1>6

LEMMA ForgetKeeps ==
  ASSUME ExecutorInv, NEW id \in Ids, Forget(id)
  PROVE  SameObjects /\ StateMachineBacked'
<1>1. \A i \in Ids : i # id => /\ assignments'[i] = assignments[i]
                               /\ stateMachines'[i] = stateMachines[i]
                               /\ eventEmitters'[i] = eventEmitters[i]
  BY DEF Forget, ExecutorInv, TypeOK
<1>2. ~Known(id)'
  BY DEF Forget, Known, NoRecord, Assignment, ExecutorInv, TypeOK
<1> QED BY <1>1, <1>2 DEF SameObjects, StateMachineBacked, Known, ExecutorInv

LEMMA QuietKeeps ==
  ASSUME ExecutorInv, UNCHANGED maps
  PROVE  SameObjects /\ StateMachineBacked'
  BY DEF maps, SameObjects, StateMachineBacked, Known, ExecutorInv

(***************************************************************************)
(* Every step keeps the invariant.                                         *)
(***************************************************************************)
\* The slot of a request is idle, so it is no INVITE's until HandleInvite
\* makes it one.
LEMMA InviteKeeps ==
  ASSUME ExecutorInv, TypeOK', NEW c \in Calls, NEW id \in Ids,
         HandleInvite(c, id)
  PROVE  ExecutorInv'
<1> USE DEF ExecutorInv
<1>1. PICK pc \in {"admission", "redetach"} :
        /\ Spawn(c, pc, id)
        /\ pc = "admission" => ~Known(id)
  BY DEF HandleInvite
<1>2. /\ up /\ up' /\ Inviting(id) = {} /\ UNCHANGED maps
      /\ calls[c].pc = "idle"
  BY DEF HandleInvite, At, process
<1> DEFINE k == Call(pc, id, 0, assignments[id].born, NoRecord)
<1>3. k.pc = pc /\ k.id = id /\ k.born = assignments[id].born
  BY DEF Call
<1>4. \A d \in Calls : calls'[d] = IF d = c THEN k ELSE calls[d]
  BY <1>1 DEF Spawn, TypeOK
<1>5. SlotsNamed' /\ DownIsEmpty'
  BY <1>2, <1>3, <1>4 DEF SlotsNamed, DownIsEmpty
<1>6. \A i \in Ids : Inviting(i)' = IF i = id THEN {c} ELSE Inviting(i)
  <2> TAKE i \in Ids
  <2>1. CASE i = id
    BY <1>1, <1>2, <1>3, <1>4, <2>1 DEF Inviting, InFlight
  <2>2. CASE i # id
    BY <1>2, <1>3, <1>4, <2>2 DEF Inviting, InFlight
  <2> QED BY <2>1, <2>2
<1>7. InvitesExclusive'
  BY <1>6 DEF InvitesExclusive
<1>8. AdmissionIsNew' /\ RedetachHoldsObject'
  BY <1>1, <1>2, <1>3, <1>4 DEF AdmissionIsNew, RedetachHoldsObject, Known, maps
<1>9. StateMachineBacked'
  BY <1>2, QuietKeeps
<1> QED BY <1>5, <1>7, <1>8, <1>9

LEMMA RequestKeeps ==
  ASSUME ExecutorInv, NEW c \in Calls, NEW id \in Ids, Request(c, id)
  PROVE  ExecutorInv'
<1> USE DEF ExecutorInv
<1>0. TypeOK'
  BY RequestTyped
<1>1. CASE HandleInvite(c, id)
  BY <1>0, <1>1, InviteKeeps
<1>2. ASSUME ~HandleInvite(c, id)
      PROVE  /\ SameObjects /\ StateMachineBacked' /\ up /\ up'
             /\ \E pc \in Pcs \ InvitePcs :
                  calls'[c].pc = pc /\ calls'[c].id = id
                  /\ calls' = [calls EXCEPT ![c] = calls'[c]]
  <2>1. CASE HandleStart(c, id)
    <3>1. SameObjects /\ StateMachineBacked'
      BY <2>1, TransitionKeeps, RecordFields
         DEF HandleStart, TypeOK, AssignmentEvents
    <3> QED BY <2>1, <3>1, PcsListed
            DEF HandleStart, At, process, AwaitSave, Call, TypeOK, InvitePcs
  <2>2. CASE HandleError(c, id)
    <3>1. SameObjects /\ StateMachineBacked'
      BY <2>2, TransitionKeeps, RecordFields
         DEF HandleError, TypeOK, AssignmentEvents
    <3> QED BY <2>2, <3>1, PcsListed
            DEF HandleError, At, process, AwaitSave, Call, TypeOK, InvitePcs
  <2>3. CASE CancelDelegation(c, id)
    <3>1. SameObjects /\ StateMachineBacked'
      BY <2>3, TransitionKeeps, RecordFields
         DEF CancelDelegation, TypeOK, AssignmentEvents
    <3> QED BY <2>3, <3>1, PcsListed
            DEF CancelDelegation, At, process, AwaitSave, Call, TypeOK, InvitePcs
  <2>4. CASE AcknowledgeResult(c, id)
    BY <2>4, ForgetKeeps, PcsListed
       DEF AcknowledgeResult, At, process, Spawn, Call, TypeOK, InvitePcs
  <2>5. CASE SweepExpired(c, id)
    BY <2>5, QuietKeeps, PcsListed
       DEF SweepExpired, At, process, Spawn, Call, TypeOK, InvitePcs
  <2> QED BY <1>2, <2>1, <2>2, <2>3, <2>4, <2>5 DEF Request
<1>3. CASE ~HandleInvite(c, id)
  <2>1. calls'[c] \in Contexts
    BY <1>0 DEF TypeOK
  <2>2. SlotsInv'
    BY <1>0, <1>2, <1>3, <2>1, SlotStep DEF SameObjects, InvitePcs
  <2> QED BY <1>0, <1>2, <1>3, <2>2 DEF SlotsInv
<1> QED BY <1>1, <1>3

\* The slot after a continuation that does not end in the process's death.
Continues(c) ==
  /\ up /\ up' /\ calls' = [calls EXCEPT ![c] = calls'[c]]
  /\ calls'[c].pc # "idle" => calls'[c].id = calls[c].id
  /\ calls'[c].pc \in InvitePcs => calls[c].pc \in InvitePcs
  /\ calls'[c].pc \notin {"admission", "redetach"}

LEMMA ContinuesKeeps ==
  ASSUME ExecutorInv, TypeOK', NEW c \in Calls, calls[c].pc # "idle",
         Continues(c), SameObjects, StateMachineBacked'
  PROVE  ExecutorInv'
<1>1. calls'[c] \in Contexts
  BY DEF TypeOK
<1>2. Idle.pc = "idle" /\ Idle.pc \notin InvitePcs
  BY DEF Idle, Call, InvitePcs
<1>3. calls'[c].pc \in InvitePcs => calls'[c].pc # "idle"
  BY DEF InvitePcs
<1>4. SlotsInv'
  BY <1>1, <1>3, SlotId, SlotStep DEF Continues, SameObjects, ExecutorInv
<1> QED BY <1>4 DEF SlotsInv, ExecutorInv

LEMMA CatchKeeps ==
  ASSUME ExecutorInv, NEW c \in Calls, up,
         calls[c].pc \in Working \cup {"persistDone"},
         Catch(c), UNCHANGED storage
  PROVE  ExecutorInv'
<1> DEFINE id == calls[c].id
<1>0. TypeOK' /\ id \in Ids /\ calls[c].pc # "idle"
  BY CatchTyped, SlotId DEF ExecutorInv, Working
<1>1. CASE ~Accepts(id, "TASK_FAIL")
  <2>1. \E last : Die(last)
    BY <1>1 DEF Catch
  <2> QED BY <1>0, <2>1, DeathEmpties DEF ExecutorInv, SlotsInv
<1>2. CASE /\ Accepts(id, "TASK_FAIL")
           /\ Transition(id, "TASK_FAIL", assignments[id].result)
           /\ AwaitSave(c, "persistFailure", id)
           /\ UNCHANGED <<process, eventEmitters, minted>>
  <2>1. SameObjects /\ StateMachineBacked'
    BY <1>0, <1>2, TransitionKeeps, RecordFields
       DEF ExecutorInv, TypeOK, AssignmentEvents
  <2>2. Continues(c)
    BY <1>2 DEF AwaitSave, Call, Continues, process, InvitePcs,
                ExecutorInv, TypeOK
  <2> QED BY <1>0, <2>1, <2>2, ContinuesKeeps
<1> QED BY <1>1, <1>2 DEF Catch

LEMMA SettleKeeps ==
  ASSUME ExecutorInv, NEW c \in Calls, Settle(c)
  PROVE  ExecutorInv'
<1> DEFINE id == calls[c].id
<1> USE DEF ExecutorInv
<1>0. TypeOK' /\ up /\ calls[c].pc # "idle" /\ id \in Ids
  <2>1. up /\ calls[c].pc # "idle"
    BY DEF Settle, AdmissionRefused, AdmissionPassed, InviteDiscarded,
           Redetached, AnswerPersisted, StartPersisted, Prepared, SetUp,
           Executed, Captured, TaskFails, TaskPersisted, Detached,
           CancelPersisted, PersistFails, Unlinked, SweepTransport,
           SweepWorkspace, SweepFile, At, Working, PersistPoints
  <2> QED BY <2>1, SettleTyped, SlotId
<1>1. CASE AdmissionPassed(c)
  <2> DEFINE r == Assignment("pending", minted[id] + 1, 0)
  <2>1. r.state = "pending" /\ minted[id] + 1 # 0
    BY <1>0 DEF Assignment, TypeOK
  <2>2. StateMachineBacked'
    BY <1>0, <1>1, <2>1
       DEF AdmissionPassed, Register, StateMachineBacked, Known, TypeOK
  <2>3. calls'[c] \in Contexts
    BY <1>0 DEF TypeOK
  <2>4. /\ calls[c].pc = "admission" /\ up'
        /\ calls' = [calls EXCEPT ![c] = calls'[c]]
        /\ calls'[c].pc = "persistInvite" /\ calls'[c].id = id
    BY <1>0, <1>1 DEF AdmissionPassed, At, process, AwaitSave, Call, TypeOK
  <2>5. \A i \in Ids : i # id => assignments'[i] = assignments[i]
    BY <1>0, <1>1 DEF AdmissionPassed, Register, TypeOK
  <2>6. SlotsInv'
    BY <1>0, <2>3, <2>4, <2>5, SlotStep DEF InvitePcs, Known
  <2> QED BY <1>0, <2>2, <2>6 DEF SlotsInv
<1>2. CASE Redetached(c)
  <2>1. Known(id) => assignments[id].born = calls[c].born
    BY <1>2 DEF Redetached, At, RedetachHoldsObject
  <2> DEFINE r == Reopened(assignments[id])
  <2>2. r.state = "pending" /\ r.born = assignments[id].born
    BY DEF Reopened, Assignment
  <2>3. minted[id] + 1 # 0
    BY <1>0 DEF TypeOK
  <2>4. StateMachineBacked' /\ SameObjects
    BY <1>0, <1>2, <2>1, <2>2, <2>3
       DEF Redetached, Register, StateMachineBacked, SameObjects, Known, TypeOK
  <2>5. Continues(c)
    BY <1>0, <1>2 DEF Redetached, At, process, AwaitSave, Call, Continues,
                      InvitePcs, TypeOK
  <2> QED BY <1>0, <2>4, <2>5, ContinuesKeeps
<1>3. CASE StartPersisted(c)
  <2>1. CASE ~Known(id)
    BY <1>0, <1>3, <2>1, DeathEmpties DEF StartPersisted, SlotsInv
  <2>2. CASE Known(id)
    <3>1. Continues(c)
      BY <1>0, <1>3, <2>2 DEF StartPersisted, process, Call, Continues,
                              InvitePcs, TypeOK
    <3> QED BY <1>0, <1>3, <2>2, <3>1, QuietKeeps, ContinuesKeeps
            DEF StartPersisted
  <2> QED BY <2>1, <2>2
<1>4. CASE Captured(c)
  <2>1. CASE ~Accepts(id, "TASK_COMPLETE")
    <3>1. \E last : Die(last)
      BY <1>4, <2>1 DEF Captured
    <3> QED BY <1>0, <3>1, DeathEmpties DEF SlotsInv
  <2>2. CASE Accepts(id, "TASK_COMPLETE")
    <3>1. ResultOf(c) \in Nat
      BY <1>0, ContextFields, RecordFields DEF ResultOf, TypeOK
    <3>2. SameObjects /\ StateMachineBacked'
      BY <1>0, <1>4, <2>2, <3>1, TransitionKeeps
         DEF Captured, AssignmentEvents
    <3>3. AwaitSave(c, "persistDone", id) /\ UNCHANGED process
      BY <1>4, <2>2 DEF Captured
    <3>4. Continues(c)
      BY <1>0, <3>3 DEF process, AwaitSave, Call, Continues, InvitePcs, TypeOK
    <3> QED BY <1>0, <3>2, <3>4, ContinuesKeeps
  <2> QED BY <2>1, <2>2
<1>5. CASE TaskFails(c)
  BY <1>5, CatchKeeps DEF TaskFails
<1>6. CASE SweepFile(c)
  <2>1. Continues(c)
    BY <1>0, <1>6 DEF SweepFile, process, Return, Continues, Idle, Call,
                      InvitePcs, TypeOK
  <2> QED BY <1>0, <1>6, <2>1, ForgetKeeps, ContinuesKeeps DEF SweepFile
<1>7. CASE PersistFails(c)
  <2>1. CASE calls[c].pc = "persistDone"
    BY <1>0, <1>7, <2>1, CatchKeeps DEF PersistFails
  <2>2. CASE calls[c].pc = "persistFailure"
    BY <1>0, <1>7, <2>2, DeathEmpties DEF PersistFails, SlotsInv
  <2>3. CASE calls[c].pc = "persistInvite"
    <3>1. Continues(c)
      BY <1>0, <1>7, <2>3 DEF PersistFails, process, Await, Call, Continues,
                              InvitePcs, TypeOK
    <3> QED BY <1>0, <1>7, <2>3, <3>1, ForgetKeeps, ContinuesKeeps
            DEF PersistFails
  <2>4. CASE Return(c) /\ UNCHANGED <<process, maps, minted, stream>>
    <3>1. Continues(c)
      BY <1>0, <2>4 DEF process, Return, Idle, Call, Continues,
                        InvitePcs, TypeOK
    <3> QED BY <1>0, <2>4, <3>1, QuietKeeps, ContinuesKeeps
  <2> QED BY <1>7, <2>1, <2>2, <2>3, <2>4 DEF PersistFails, PersistPoints
<1>8. ASSUME /\ \/ Return(c)
                \/ \E pc \in {"setup", "execute", "capture", "detach",
                              "detachCancel", "sweepWorkspace", "sweepFile"} :
                     Await(c, pc)
             /\ UNCHANGED <<process, maps>>
      PROVE  ExecutorInv'
  <2>1. Continues(c)
    BY <1>0, <1>8 DEF process, Return, Await, Idle, Call, Continues,
                      InvitePcs, TypeOK
  <2> QED BY <1>0, <1>8, <2>1, QuietKeeps, ContinuesKeeps
<1>9. CASE \/ AdmissionRefused(c) \/ InviteDiscarded(c) \/ AnswerPersisted(c)
           \/ Detached(c) \/ Unlinked(c)
  BY <1>8, <1>9 DEF AdmissionRefused, InviteDiscarded, AnswerPersisted,
                    Detached, Unlinked
<1>10. CASE \/ Prepared(c) \/ SetUp(c) \/ Executed(c) \/ TaskPersisted(c)
            \/ CancelPersisted(c) \/ SweepTransport(c) \/ SweepWorkspace(c)
  BY <1>8, <1>10 DEF Prepared, SetUp, Executed, TaskPersisted,
                     CancelPersisted, SweepTransport, SweepWorkspace
<1> QED BY <1>1, <1>2, <1>3, <1>4, <1>5, <1>6, <1>7, <1>9, <1>10 DEF Settle

LEMMA InitInv == Init => ExecutorInv
<1> SUFFICES ASSUME Init PROVE ExecutorInv
  OBVIOUS
<1>1. NoRecord.state = "absent" /\ Idle.pc = "idle"
  BY DEF NoRecord, Assignment, Idle, Call
<1>2. \A id \in Ids : ~Known(id) /\ Inviting(id) = {}
  BY <1>1 DEF Init, Known, Inviting, InFlight
<1> QED BY <1>1, <1>2, InitTypeOK
        DEF Init, ExecutorInv, SlotsNamed, DownIsEmpty, InvitesExclusive,
            AdmissionIsNew, RedetachHoldsObject, StateMachineBacked

LEMMA InitializeKeeps ==
  ASSUME ExecutorInv, Initialize
  PROVE  SlotsInv' /\ StateMachineBacked'
<1> USE DEF ExecutorInv
<1>0. Idle.pc = "idle" /\ NoRecord.state = "absent"
  BY DEF Idle, Call, NoRecord, Assignment
<1>1. \A c \in Calls : calls[c].pc = "idle" /\ calls'[c].pc = "idle"
  BY <1>0 DEF Initialize, DownIsEmpty
<1>2. \A id \in Ids : Inviting(id)' = {}
  BY <1>1 DEF Inviting, InFlight
<1>3. SlotsInv'
  <2>1. SlotsNamed' /\ DownIsEmpty' /\ InvitesExclusive'
    BY <1>1, <1>2 DEF Initialize, SlotsNamed, DownIsEmpty, InvitesExclusive
  <2>2. AdmissionIsNew' /\ RedetachHoldsObject'
    BY <1>1 DEF AdmissionIsNew, RedetachHoldsObject
  <2> QED BY <2>1, <2>2 DEF SlotsInv
<1>4. CASE CleanUp
  BY <1>3, <1>4, QuietKeeps DEF CleanUp
<1>5. CASE Load
  <2>1. /\ assignments' = disk
        /\ stateMachines' = [id \in Ids |-> disk[id].state]
        /\ \A id \in Saved : ~IsTerminalAssignment(disk[id].state) =>
             eventEmitters'[id] # 0
    BY <1>5, LoadEffect
  <2>2. \A id \in Ids : Known(id)' => id \in Saved
    BY <1>0, <2>1 DEF Known, Saved
  <2> QED BY <1>3, <2>1, <2>2 DEF StateMachineBacked, Saved
<1> QED BY <1>4, <1>5 DEF Initialize

LEMMA NextInv == ExecutorInv /\ [Next]_vars => ExecutorInv'
<1> SUFFICES ASSUME ExecutorInv, [Next]_vars
             PROVE  ExecutorInv'
  OBVIOUS
<1>0. TypeOK'
  BY NextTyped
<1>1. CASE \E c \in Calls, id \in Ids : Request(c, id)
  BY <1>1, RequestKeeps
<1>2. CASE \E c \in Calls : Settle(c)
  BY <1>2, SettleKeeps
<1>3. CASE Crash
  BY <1>0, <1>3, DeathEmpties DEF Crash, ExecutorInv, SlotsInv
<1>4. CASE Initialize
  BY <1>0, <1>4, InitializeKeeps DEF ExecutorInv, SlotsInv
<1>5. CASE UNCHANGED vars \/ \E id \in Ids : SubscribeTask(id) \/ Unsubscribe(id)
  <2>1. UNCHANGED <<up, calls, maps>>
    BY <1>5 DEF vars, process, maps, SubscribeTask, Unsubscribe
  <2>2. SlotsInv'
    BY <2>1 DEF ExecutorInv, SlotsInv, SlotsNamed, DownIsEmpty,
       InvitesExclusive, Inviting, InFlight, AdmissionIsNew,
       RedetachHoldsObject, Known, maps
  <2> QED BY <1>0, <2>1, <2>2, QuietKeeps DEF ExecutorInv, SlotsInv
<1> QED BY <1>1, <1>2, <1>3, <1>4, <1>5 DEF Next

(***************************************************************************)
(* What a step does to the record of one id, on which the last two         *)
(* theorems rest: it is kept, forgotten, started, ended, reopened, or made *)
(* for an id that had none.                                                *)
(***************************************************************************)
Started(id) ==
  /\ ~IsTerminalAssignment(stateMachines[id])
  /\ \E c \in Calls : calls'[c].pc = "persistStart" /\ calls'[c].id = id
Ended(id) ==
  /\ ~IsTerminalAssignment(stateMachines[id])
  /\ assignments'[id].state # "active"
RecordStep(id) ==
  \/ assignments'[id] = assignments[id]
  \/ assignments'[id] = NoRecord
  \/ Started(id)
  \/ Ended(id)
  \/ assignments'[id] = Reopened(assignments[id])
  \/ ~Known(id) /\ assignments'[id].state = "pending"

LEMMA TransitionRecords ==
  ASSUME ExecutorInv, NEW id \in Ids, NEW e \in AssignmentEvents, NEW r \in Nat,
         Accepts(id, e), Transition(id, e, r)
  PROVE  /\ ~IsTerminalAssignment(stateMachines[id])
         /\ e # "RECEIVE_START" => assignments'[id].state # "active"
         /\ \A i \in Ids : i # id => assignments'[i] = assignments[i]
<1> USE DEF ExecutorInv
<1>1. PICK t \in AssignmentNext(stateMachines[id], e) :
        assignments' = [assignments EXCEPT ![id] = Assignment(t, @.born, r)]
  BY DEF Transition
<1>2. ~IsTerminalAssignment(stateMachines[id])
  BY <1>1, AcceptedTransition DEF TypeOK, Accepts, StateMachineBacked, Known
<1>3. e # "RECEIVE_START" => t # "active"
  BY <1>1 DEF AssignmentNext, AssignmentTarget
<1>4. Assignment(t, assignments[id].born, r).state = t
  BY DEF Assignment
<1> QED BY <1>1, <1>2, <1>3, <1>4 DEF TypeOK

LEMMA RequestRecords ==
  ASSUME ExecutorInv, NEW c \in Calls, NEW id \in Ids, Request(c, id),
         NEW i \in Ids
  PROVE  RecordStep(i)
<1> USE DEF ExecutorInv
<1>1. CASE HandleStart(c, id)
  <2>1. /\ ~IsTerminalAssignment(stateMachines[id])
        /\ \A j \in Ids : j # id => assignments'[j] = assignments[j]
    BY <1>1, TransitionRecords, RecordFields
       DEF HandleStart, AssignmentEvents, TypeOK
  <2>2. calls'[c].pc = "persistStart" /\ calls'[c].id = id
    BY <1>1 DEF HandleStart, AwaitSave, Call, TypeOK
  <2> QED BY <2>1, <2>2 DEF RecordStep, Started
<1>2. CASE HandleError(c, id) \/ CancelDelegation(c, id)
  <2>1. /\ ~IsTerminalAssignment(stateMachines[id])
        /\ assignments'[id].state # "active"
        /\ \A j \in Ids : j # id => assignments'[j] = assignments[j]
    BY <1>2, TransitionRecords, RecordFields
       DEF HandleError, CancelDelegation, AssignmentEvents, TypeOK
  <2> QED BY <2>1 DEF RecordStep, Ended
<1>3. CASE AcknowledgeResult(c, id)
  BY <1>3 DEF AcknowledgeResult, Forget, RecordStep, TypeOK
<1>4. CASE HandleInvite(c, id) \/ SweepExpired(c, id)
  BY <1>4 DEF HandleInvite, SweepExpired, RecordStep, maps
<1> QED BY <1>1, <1>2, <1>3, <1>4 DEF Request

LEMMA SettleRecords ==
  ASSUME ExecutorInv, NEW c \in Calls, Settle(c), NEW i \in Ids
  PROVE  RecordStep(i)
<1> DEFINE id == calls[c].id
<1> USE DEF ExecutorInv
<1>1. ASSUME NEW last, Die(last)
      PROVE  RecordStep(i)
  BY <1>1 DEF Die, RecordStep
<1>2. ASSUME calls[c].pc # "idle", Catch(c)
      PROVE  RecordStep(i)
  <2>1. CASE ~Accepts(id, "TASK_FAIL")
    BY <1>1, <1>2, <2>1 DEF Catch
  <2>2. CASE Accepts(id, "TASK_FAIL")
    <3>1. Transition(id, "TASK_FAIL", assignments[id].result)
      BY <1>2, <2>2 DEF Catch
    <3>2. id \in Ids
      BY <1>2, SlotId
    <3>3. /\ ~IsTerminalAssignment(stateMachines[id])
          /\ assignments'[id].state # "active"
          /\ \A j \in Ids : j # id => assignments'[j] = assignments[j]
      BY <2>2, <3>1, <3>2, TransitionRecords, RecordFields
         DEF AssignmentEvents, TypeOK
    <3> QED BY <3>3 DEF RecordStep, Ended
  <2> QED BY <2>1, <2>2
<1>3. CASE AdmissionPassed(c)
  <2>1. id \in Ids /\ ~Known(id)
    BY <1>3, SlotId DEF AdmissionPassed, At, AdmissionIsNew
  <2>2. assignments' =
          [assignments EXCEPT ![id] = Assignment("pending", minted[id] + 1, 0)]
    BY <1>3 DEF AdmissionPassed, Register
  <2>3. Assignment("pending", minted[id] + 1, 0).state = "pending"
    BY DEF Assignment
  <2> QED BY <2>1, <2>2, <2>3 DEF RecordStep, TypeOK
<1>4. CASE Redetached(c)
  BY <1>4 DEF Redetached, Register, RecordStep, TypeOK
<1>5. CASE StartPersisted(c)
  BY <1>1, <1>5 DEF StartPersisted, RecordStep, maps
<1>6. CASE Captured(c)
  <2>1. CASE ~Accepts(id, "TASK_COMPLETE")
    BY <1>1, <1>6, <2>1 DEF Captured
  <2>2. CASE Accepts(id, "TASK_COMPLETE")
    <3>1. Transition(id, "TASK_COMPLETE", ResultOf(c))
      BY <1>6, <2>2 DEF Captured
    <3>2. id \in Ids
      BY <1>6, SlotId DEF Captured, At
    <3>3. ResultOf(c) \in Nat
      BY <3>2, ContextFields, RecordFields DEF ResultOf, TypeOK
    <3>4. /\ ~IsTerminalAssignment(stateMachines[id])
          /\ assignments'[id].state # "active"
          /\ \A j \in Ids : j # id => assignments'[j] = assignments[j]
      BY <2>2, <3>1, <3>2, <3>3, TransitionRecords DEF AssignmentEvents
    <3> QED BY <3>4 DEF RecordStep, Ended
  <2> QED BY <2>1, <2>2
<1>7. CASE TaskFails(c)
  BY <1>2, <1>7 DEF TaskFails, Working
<1>8. CASE SweepFile(c)
  BY <1>8 DEF SweepFile, Forget, RecordStep, TypeOK
<1>9. CASE PersistFails(c)
  <2>1. CASE calls[c].pc = "persistDone"
    BY <1>2, <1>9, <2>1 DEF PersistFails
  <2>2. CASE calls[c].pc = "persistFailure"
    BY <1>1, <1>9, <2>2 DEF PersistFails
  <2>3. CASE Forget(id)
    BY <2>3 DEF Forget, RecordStep, TypeOK
  <2>4. CASE UNCHANGED maps
    BY <2>4 DEF RecordStep, maps
  <2> QED BY <1>9, <2>1, <2>2, <2>3, <2>4 DEF PersistFails, PersistPoints
<1>10. CASE UNCHANGED maps
  BY <1>10 DEF RecordStep, maps
<1> QED BY <1>3, <1>4, <1>5, <1>6, <1>7, <1>8, <1>9, <1>10
        DEF Settle, AdmissionRefused, InviteDiscarded, AnswerPersisted,
            Prepared, SetUp, Executed, TaskPersisted, Detached,
            CancelPersisted, Unlinked, SweepTransport, SweepWorkspace

\* A slot that works for an id goes on working for it, unless it ends it.
LEMMA WorkerStays ==
  ASSUME ExecutorInv, ~DiskFaults, NEW c \in Calls, Settle(c), Worker(c)
  PROVE  \/ Worker(c)' /\ calls'[c].id = calls[c].id
         \/ assignments'[calls[c].id].state # "active"
<1> DEFINE id == calls[c].id
<1> USE DEF ExecutorInv
<1>0. id \in Ids /\ calls[c].pc # "idle"
  BY SlotId DEF Worker, Working
<1>1. ASSUME NEW last, Die(last)
      PROVE  assignments'[id].state # "active"
  BY <1>0, <1>1 DEF Die, NoRecord, Assignment
<1>2. CASE StartPersisted(c)
  <2>1. CASE ~Known(id)
    BY <1>1, <1>2, <2>1 DEF StartPersisted
  <2>2. CASE Known(id)
    BY <1>2, <2>2 DEF StartPersisted, Call, Worker, Working, TypeOK
  <2> QED BY <2>1, <2>2
<1>3. CASE Prepared(c) \/ SetUp(c) \/ Executed(c)
  BY <1>3 DEF Prepared, SetUp, Executed, Await, Call, Worker, Working, TypeOK
<1>4. CASE Captured(c)
  <2>1. CASE ~Accepts(id, "TASK_COMPLETE")
    BY <1>1, <1>4, <2>1 DEF Captured
  <2>2. CASE Accepts(id, "TASK_COMPLETE")
    <3>1. Transition(id, "TASK_COMPLETE", ResultOf(c))
      BY <1>4, <2>2 DEF Captured
    <3>2. ResultOf(c) \in Nat
      BY <1>0, ContextFields, RecordFields DEF ResultOf, TypeOK
    <3> QED BY <1>0, <2>2, <3>1, <3>2, TransitionRecords DEF AssignmentEvents
  <2> QED BY <2>1, <2>2
<1>5. CASE TaskFails(c)
  <2>1. CASE ~Accepts(id, "TASK_FAIL")
    BY <1>1, <1>5, <2>1 DEF TaskFails, Catch
  <2>2. CASE Accepts(id, "TASK_FAIL")
    <3>1. Transition(id, "TASK_FAIL", assignments[id].result)
      BY <1>5, <2>2 DEF TaskFails, Catch
    <3> QED BY <1>0, <2>2, <3>1, TransitionRecords, RecordFields
            DEF AssignmentEvents, TypeOK
  <2> QED BY <2>1, <2>2
<1> QED BY <1>2, <1>3, <1>4, <1>5
        DEF Settle, AdmissionRefused, AdmissionPassed, InviteDiscarded,
            Redetached, AnswerPersisted, TaskPersisted, Detached,
            CancelPersisted, PersistFails, Unlinked, SweepTransport,
            SweepWorkspace, SweepFile, At, Worker, Working

\* The other slots do not move.
LEMMA OtherSlots ==
  ASSUME ExecutorInv, NEW c \in Calls, NEW d \in Calls, d # c,
         Settle(c) \/ \E id \in Ids : Request(c, id)
  PROVE  calls'[d] = calls[d] \/ \E last : Die(last)
<1> USE DEF ExecutorInv, TypeOK
<1>1. CASE \E id \in Ids : Request(c, id)
  BY <1>1 DEF Request, HandleInvite, HandleStart, HandleError,
              CancelDelegation, AcknowledgeResult, SweepExpired,
              Spawn, AwaitSave
<1>2. ASSUME Catch(c)
      PROVE  calls'[d] = calls[d] \/ \E last : Die(last)
  <2>1. CASE Accepts(calls[c].id, "TASK_FAIL")
    <3>1. AwaitSave(c, "persistFailure", calls[c].id)
      BY <1>2, <2>1 DEF Catch
    <3> QED BY <3>1 DEF AwaitSave
  <2>2. CASE ~Accepts(calls[c].id, "TASK_FAIL")
    BY <1>2, <2>2 DEF Catch
  <2> QED BY <2>1, <2>2
<1>3. CASE Captured(c)
  <2>1. CASE Accepts(calls[c].id, "TASK_COMPLETE")
    <3>1. AwaitSave(c, "persistDone", calls[c].id)
      BY <1>3, <2>1 DEF Captured
    <3> QED BY <3>1 DEF AwaitSave
  <2>2. CASE ~Accepts(calls[c].id, "TASK_COMPLETE")
    BY <1>3, <2>2 DEF Captured
  <2> QED BY <2>1, <2>2
<1>4. CASE TaskFails(c)
  BY <1>2, <1>4 DEF TaskFails
<1>5. CASE PersistFails(c)
  BY <1>2, <1>5 DEF PersistFails, PersistPoints, Return, Await
<1>6. CASE StartPersisted(c)
  BY <1>6 DEF StartPersisted
<1>7. CASE AdmissionPassed(c) \/ Redetached(c)
  BY <1>7 DEF AdmissionPassed, Redetached, AwaitSave
<1>8. CASE \/ AdmissionRefused(c) \/ InviteDiscarded(c) \/ AnswerPersisted(c)
           \/ Detached(c) \/ Unlinked(c) \/ SweepFile(c)
  BY <1>8 DEF AdmissionRefused, InviteDiscarded, AnswerPersisted, Detached,
              Unlinked, SweepFile, Return
<1>9. CASE \/ Prepared(c) \/ SetUp(c) \/ Executed(c) \/ TaskPersisted(c)
           \/ CancelPersisted(c) \/ SweepTransport(c) \/ SweepWorkspace(c)
  BY <1>9 DEF Prepared, SetUp, Executed, TaskPersisted, CancelPersisted,
              SweepTransport, SweepWorkspace, Await
<1> QED BY <1>1, <1>3, <1>4, <1>5, <1>6, <1>7, <1>8, <1>9 DEF Settle

LEMMA WorkersKept ==
  ASSUME ExecutorInv, ~DiskFaults, CleanupOnInitialize, ActiveHasWorker,
         [Next]_vars
  PROVE  ActiveHasWorker'
<1> USE DEF ExecutorInv
<1>0. "absent" # "active" /\ NoRecord.state = "absent"
  BY DEF NoRecord, Assignment
<1>1. CASE UNCHANGED <<assignments, calls>>
  BY <1>1 DEF ActiveHasWorker, Active, InFlight, Worker
<1>2. ASSUME NEW last, Die(last)
      PROVE  ActiveHasWorker'
  BY <1>0, <1>2 DEF Die, ActiveHasWorker, Active
<1>3. ASSUME NEW c \in Calls, Settle(c) \/ \E id \in Ids : Request(c, id),
             NEW i \in Ids, assignments'[i].state = "active"
      PROVE  \E d \in Calls : calls'[d].id = i /\ Worker(d)'
  <2>1. RecordStep(i)
    BY <1>3, RequestRecords, SettleRecords
  <2>2. CASE Started(i)
    BY <2>2 DEF Started, Worker
  <2>3. CASE ~Started(i)
    <3>1. assignments'[i] = assignments[i]
      BY <1>0, <1>3, <2>1, <2>3
         DEF RecordStep, Ended, Reopened, Assignment
    <3>2. PICK w \in Calls : calls[w].id = i /\ Worker(w)
      BY <1>3, <3>1 DEF ActiveHasWorker, Active, InFlight
    <3>3. CASE w # c
      <4>1. ~\E last : Die(last)
        BY <1>0, <1>3 DEF Die
      <4> QED BY <1>3, <3>2, <3>3, <4>1, OtherSlots DEF Worker
    <3>4. CASE w = c
      <4>1. calls[c].pc # "idle"
        BY <3>2, <3>4 DEF Worker, Working
      <4>2. Settle(c)
        BY <1>3, <4>1 DEF Request, HandleInvite, HandleStart, HandleError,
                          CancelDelegation, AcknowledgeResult, SweepExpired, At
      <4> QED BY <1>3, <3>2, <3>4, <4>2, WorkerStays
    <3> QED BY <3>3, <3>4
  <2> QED BY <2>2, <2>3
<1>4. CASE \E c \in Calls : Settle(c) \/ \E id \in Ids : Request(c, id)
  BY <1>3, <1>4 DEF ActiveHasWorker, Active, InFlight
<1>5. CASE Crash
  BY <1>2, <1>5 DEF Crash
<1>6. CASE Initialize
  BY <1>0, <1>6 DEF Initialize, CleanUp, DownIsEmpty, maps, ActiveHasWorker, Active
<1>7. CASE \E id \in Ids : SubscribeTask(id) \/ Unsubscribe(id)
  BY <1>1, <1>7 DEF SubscribeTask, Unsubscribe, maps
<1>8. CASE UNCHANGED vars
  BY <1>1, <1>8 DEF vars, maps
<1> QED BY <1>4, <1>5, <1>6, <1>7, <1>8 DEF Next

LEMMA OutcomesKept ==
  ASSUME ExecutorInv, [Next]_vars, NEW id \in Ids, Terminal(id)
  PROVE  OutcomeKept(id)
<1> USE DEF ExecutorInv
<1>1. CASE UNCHANGED assignments
  BY <1>1 DEF OutcomeKept
<1>2. CASE RecordStep(id)
  BY <1>2 DEF RecordStep, Started, Ended, Terminal, OutcomeKept
<1>3. CASE \E c \in Calls : Settle(c) \/ \E i \in Ids : Request(c, i)
  BY <1>2, <1>3, SettleRecords, RequestRecords
<1>4. CASE Crash
  BY <1>4 DEF Crash, Die, OutcomeKept
<1>5. CASE Initialize
  BY <1>5 DEF Initialize, DownIsEmpty, Terminal, Known, NoRecord, Assignment
<1>6. CASE UNCHANGED vars \/ \E i \in Ids : SubscribeTask(i) \/ Unsubscribe(i)
  BY <1>1, <1>6 DEF vars, SubscribeTask, Unsubscribe, maps
<1> QED BY <1>3, <1>4, <1>5, <1>6 DEF Next

(***************************************************************************)
(* The theorems.                                                           *)
(***************************************************************************)
\* The strengthened invariant of the Executor is an invariant.
THEOREM ExecutorInvariant == Spec => []ExecutorInv
  BY InitInv, NextInv, PTL DEF Spec

\* Every variable keeps its type: the maps hold assignments, slots hold calls.
THEOREM TypeCorrect == Spec => []TypeOK
<1>1. ExecutorInv => TypeOK
  BY DEF ExecutorInv
<1> QED BY <1>1, ExecutorInvariant, PTL

\* The non-null assertions of executor/service.ts on stateMachines and
\* eventEmitters hold for every id the assignments map knows.
THEOREM StateMachinesBacked == Spec => []StateMachineBacked
<1>1. ExecutorInv => StateMachineBacked
  BY DEF ExecutorInv
<1> QED BY <1>1, ExecutorInvariant, PTL

\* As long as no write fails and a restart releases what it finds, an active
\* assignment always has a task at work for it.
THEOREM WorkersAtWork ==
  ASSUME ~DiskFaults, CleanupOnInitialize
  PROVE  Spec => []ActiveHasWorker
<1>1. Init => ActiveHasWorker
  BY DEF Init, ActiveHasWorker, Active, NoRecord, Assignment
<1>2. ExecutorInv /\ ActiveHasWorker /\ [Next]_vars => ActiveHasWorker'
  BY WorkersKept
<1> QED BY <1>1, <1>2, ExecutorInvariant, PTL DEF Spec

\* An outcome is final: whatever overlaps, an ended assignment keeps its state
\* and result until it is forgotten or invited again.
THEOREM OutcomesFinal == Spec => OutcomeFinal
<1>1. ExecutorInv /\ [Next]_vars =>
        [\A id \in Ids : Terminal(id) => OutcomeKept(id)]_vars
  BY OutcomesKept
<1> QED BY <1>1, ExecutorInvariant, PTL DEF Spec, OutcomeFinal

(***************************************************************************)
(* One invitation per id: what the Delegator's fresh ids give.  The        *)
(* invariant is a conjunction over the ids, and a step disturbs the one    *)
(* its slot names.                                                         *)
(***************************************************************************)
\* The task of START from its first save to its last detach(); the ways an
\* assignment is ended from outside; the ways it is forgotten.
Thread == {"persistStart", "prepare", "setup", "execute", "capture",
           "persistDone", "persistFailure", "detach"}
Cancelling == {"persistCancel", "detachCancel", "persistError"}
Sweeping == {"sweepTransport", "sweepWorkspace", "sweepFile"}
Attaching == {"execute", "capture", "persistDone", "persistFailure", "detach"}

On(c, id, pcs) == calls[c].id = id /\ calls[c].pc \in pcs
Busy(id, pcs) == \E c \in Calls : On(c, id, pcs)

IdleIsFree == \A c \in Calls : calls[c].pc = "idle" => calls[c].id = NoId
NoSecondInvite ==
  \A c \in Calls : calls[c].pc \notin {"redetach", "persistReinvite"}
DownIsSilent == ~up => \A id \in Ids : stream[id].on = 0

\* An id is met for the first time by its only INVITE ...
InvitedOnce(id) ==
  /\ minted[id] \in {0, 1}
  /\ Known(id) => minted[id] = 1
  /\ \A c \in Calls : calls[c].id = id /\ calls[c].pc # "admission" => minted[id] = 1
  /\ minted[id] = 0 => disk[id] = NoRecord /\ attached[id] = "no"
  /\ Busy(id, {"admission"}) => minted[id] = 0
\* ... which makes its only object and its only emitter.
OneObject(id) ==
  /\ Known(id) => assignments[id].born = 1 /\ eventEmitters[id] = 1
  /\ assignments[id].state = "completed" => assignments[id].result = 1
  /\ \A c \in Calls : On(c, id, Working) =>
       calls[c].emitter = 1 /\ calls[c].born = 1
\* One task runs for it.
OneThread(id) ==
  \A c, d \in Calls : On(c, id, Thread) /\ On(d, id, Thread) => c = d
\* What may be in flight for it in each state.
PendingIsUntouched(id) ==
  assignments[id].state = "pending" =>
    ~Busy(id, Thread \cup Cancelling \cup Sweeping)
ActiveIsAtWork(id) ==
  assignments[id].state = "active" =>
    ~Busy(id, Cancelling \cup Sweeping \cup
                {"persistInvite", "persistDone", "persistFailure", "detach"})
CompletedIsSettled(id) ==
  assignments[id].state = "completed" =>
    ~Busy(id, Working \cup Cancelling \cup
                {"persistInvite", "persistStart", "persistFailure"})
ForgottenIsGone(id) == Busy(id, {"unlink", "discard"}) => ~Known(id)
InviteIsFirst(id) == Busy(id, {"persistInvite", "discard"}) => ~Busy(id, Thread)
\* The save of a completed record lands, and nothing over it.
SavesResult(id) ==
  \A c \in Calls :
    On(c, id, {"persistDone"}) /\ assignments[id].state = "completed" =>
      calls[c].content = assignments[id]
Durable(id) ==
  assignments[id].state = "completed" =>
    disk[id] = assignments[id] \/ Busy(id, {"persistDone"})
\* A transport that is set up has its task between setup() and detach().
AttachedIsUsed(id) ==
  attached[id] = "yes" =>
    /\ ~Busy(id, {"persistInvite", "discard"})
    /\ Known(id) => Busy(id, Attaching)
\* A stream opened after the INVITE listens to the only emitter.
StreamAgrees(id) ==
  /\ stream[id].heard = "done" /\ Known(id) => assignments[id].state = "completed"
  /\ Busy(id, InvitePcs) => stream[id] = NoStream
  /\ stream[id].on # 0 => stream[id].on = 1 /\ stream[id].heard = "nothing"
StreamIsLive(id) ==
  ~PeerErrors /\ stream[id].on # 0 => assignments[id].state \in {"pending", "active"}

IdInv(id) ==
  /\ InvitedOnce(id) /\ OneObject(id) /\ OneThread(id)
  /\ PendingIsUntouched(id) /\ ActiveIsAtWork(id) /\ CompletedIsSettled(id)
  /\ ForgottenIsGone(id) /\ InviteIsFirst(id)
  /\ SavesResult(id) /\ Durable(id)
  /\ AttachedIsUsed(id)
  /\ StreamAgrees(id) /\ StreamIsLive(id)
OnceInv ==
  /\ ExecutorInv /\ IdleIsFree /\ NoSecondInvite /\ DownIsSilent
  /\ \A id \in Ids : IdInv(id)

(***************************************************************************)
(* What the fragments do, spelled out.                                     *)
(***************************************************************************)
\* The four transitions of an assignment.
LEMMA TransitionEffect ==
  ASSUME ExecutorInv, NEW id \in Ids, NEW e, NEW r, Accepts(id, e),
         Transition(id, e, r)
  PROVE  /\ Known(id)
         /\ e = "RECEIVE_START" =>
              /\ assignments[id].state = "pending"
              /\ assignments' = [assignments EXCEPT ![id] = Assignment("active", @.born, r)]
         /\ e = "TASK_COMPLETE" =>
              /\ assignments[id].state = "active"
              /\ assignments' = [assignments EXCEPT ![id] = Assignment("completed", @.born, r)]
         /\ e = "TASK_FAIL" =>
              /\ assignments[id].state = "active"
              /\ assignments' = [assignments EXCEPT ![id] = Assignment("error", @.born, r)]
         /\ e \in {"CANCEL", "RECEIVE_ERROR"} =>
              /\ assignments[id].state \in {"pending", "active"}
              /\ assignments' = [assignments EXCEPT ![id] = Assignment("error", @.born, r)]
<1>1. /\ Known(id) /\ stateMachines[id] = assignments[id].state
      /\ assignments[id].state \in AssignmentStates
  BY RecordFields DEF Accepts, Known, ExecutorInv, StateMachineBacked, TypeOK
<1>2. PICK t \in AssignmentNext(stateMachines[id], e) :
        assignments' = [assignments EXCEPT ![id] = Assignment(t, @.born, r)]
  BY DEF Transition
<1>3. /\ e = "RECEIVE_START" => assignments[id].state = "pending" /\ t = "active"
      /\ e = "TASK_COMPLETE" => assignments[id].state = "active" /\ t = "completed"
      /\ e = "TASK_FAIL" => assignments[id].state = "active" /\ t = "error"
      /\ e \in {"CANCEL", "RECEIVE_ERROR"} =>
           assignments[id].state \in {"pending", "active"} /\ t = "error"
  BY <1>1, <1>2 DEF AssignmentNext, AssignmentTarget, AssignmentTransitions,
     AssignmentStates, IsTerminalAssignment
<1> QED BY <1>1, <1>2, <1>3

LEMMA TerminalRecord ==
  ASSUME ExecutorInv, NEW id \in Ids
  PROVE  /\ Terminal(id) <=> assignments[id].state \in {"completed", "error"}
         /\ GetTaskResult(id) = "running" <=>
              assignments[id].state \in {"pending", "active"}
         /\ GetTaskResult(id) = "completed" <=> assignments[id].state = "completed"
<1>1. /\ assignments[id].state \in AssignmentStates \cup {"absent"}
      /\ Known(id) => stateMachines[id] = assignments[id].state
  BY RecordFields DEF ExecutorInv, StateMachineBacked, TypeOK
<1> QED BY <1>1 DEF Terminal, Known, GetTaskResult, IsTerminalAssignment,
           AssignmentTransitions, AssignmentStates

(***************************************************************************)
(* A continuation touches its own id, unless it is the process's death.    *)
(***************************************************************************)
Frame(c) ==
  /\ \A d \in Calls : d # c => calls'[d] = calls[d]
  /\ calls'[c].id \in {calls[c].id, NoId}
  /\ \A x \in Ids : x # calls[c].id =>
       /\ assignments'[x] = assignments[x] /\ stateMachines'[x] = stateMachines[x]
       /\ eventEmitters'[x] = eventEmitters[x] /\ minted'[x] = minted[x]
       /\ disk'[x] = disk[x] /\ stream'[x] = stream[x]
       /\ attached'[x] = attached[x]

LEMMA CatchFrame ==
  ASSUME ExecutorInv, NEW c \in Calls, calls[c].pc # "idle", Catch(c),
         UNCHANGED storage, ~\E last : Die(last)
  PROVE  Frame(c)
<1>1. calls[c].id \in Ids
  BY SlotId DEF ExecutorInv
<1> QED BY <1>1 DEF Catch, Transition, Emit, AwaitSave, Call, Frame, storage,
           ExecutorInv, TypeOK

LEMMA SettleFrame ==
  ASSUME ExecutorInv, NEW c \in Calls, Settle(c), ~\E last : Die(last)
  PROVE  Frame(c)
<1> USE DEF ExecutorInv, TypeOK, Frame, process, maps, storage, Call
<1>1. CASE TaskFails(c)
  BY <1>1, CatchFrame DEF TaskFails, Working
<1>2. CASE Captured(c)
  <2>1. Transition(calls[c].id, "TASK_COMPLETE", ResultOf(c))
    BY <1>2 DEF Captured
  <2>2. /\ Emit(calls[c].id, calls[c].emitter, "done") /\ UNCHANGED storage
        /\ AwaitSave(c, "persistDone", calls[c].id)
        /\ UNCHANGED <<eventEmitters, minted>>
    BY <1>2 DEF Captured
  <2>3. calls[c].id \in Ids
    BY <1>2, SlotId DEF Captured, At
  <2> QED BY <2>1, <2>2, <2>3 DEF Transition, Emit, AwaitSave
<1>3. CASE AdmissionPassed(c) \/ Redetached(c)
  BY <1>3 DEF AdmissionPassed, Redetached, LetGo, Register, AwaitSave
<1>4. CASE StartPersisted(c)
  BY <1>4 DEF StartPersisted, Landed
<1>5. CASE PersistFails(c)
  <2>1. CASE calls[c].pc = "persistDone"
    BY <1>5, <2>1, CatchFrame DEF PersistFails
  <2>2. CASE Forget(calls[c].id) /\ Await(c, "discard") /\ UNCHANGED <<storage, minted, stream>>
    BY <2>2 DEF Forget, Await
  <2>3. CASE Return(c) /\ UNCHANGED <<maps, storage, minted, stream>>
    BY <2>3 DEF Return, Idle
  <2> QED BY <1>5, <2>1, <2>2, <2>3 DEF PersistFails, PersistPoints
<1>6. CASE AnswerPersisted(c) \/ TaskPersisted(c) \/ CancelPersisted(c)
  BY <1>6 DEF AnswerPersisted, TaskPersisted, CancelPersisted, Landed, Await,
     Return, Idle
<1>7. CASE \/ AdmissionRefused(c) \/ InviteDiscarded(c) \/ Prepared(c) \/ SetUp(c)
           \/ Executed(c) \/ Detached(c) \/ Unlinked(c)
           \/ SweepTransport(c) \/ SweepWorkspace(c) \/ SweepFile(c)
  BY <1>7 DEF AdmissionRefused, InviteDiscarded, Prepared, SetUp, Executed, Detached,
     Unlinked, SweepTransport, SweepWorkspace, SweepFile, Forget, Await, Return, Idle,
     LetGo, RemoveFile
<1> QED BY <1>1, <1>2, <1>3, <1>4, <1>5, <1>6, <1>7 DEF Settle

\* An id whose entries and calls stay as they are keeps its invariant.
LEMMA SameCallsKeep ==
  ASSUME NEW x \in Ids, IdInv(x),
         \A d \in Calls : /\ calls[d].id = x => calls'[d] = calls[d]
                          /\ calls'[d].id = x => calls'[d] = calls[d],
         assignments'[x] = assignments[x], eventEmitters'[x] = eventEmitters[x],
         minted'[x] = minted[x], disk'[x] = disk[x], stream'[x] = stream[x],
         attached'[x] = attached[x]
  PROVE  IdInv(x)'
<1>2. \A pcs : \A d \in Calls : On(d, x, pcs)' <=> On(d, x, pcs)
  BY DEF On
<1>3. \A pcs : Busy(x, pcs)' <=> Busy(x, pcs)
  BY <1>2 DEF Busy
<1>5. InvitedOnce(x)' /\ ForgottenIsGone(x)' /\ InviteIsFirst(x)'
  BY <1>3 DEF IdInv, InvitedOnce, ForgottenIsGone, InviteIsFirst, Known
<1>6. OneObject(x)' /\ OneThread(x)' /\ SavesResult(x)'
  BY <1>2 DEF IdInv, OneObject, OneThread, SavesResult, On, Known
<1>7. PendingIsUntouched(x)' /\ ActiveIsAtWork(x)' /\ CompletedIsSettled(x)'
  BY <1>3 DEF IdInv, PendingIsUntouched, ActiveIsAtWork, CompletedIsSettled
<1>8. Durable(x)' /\ AttachedIsUsed(x)'
  BY <1>3 DEF IdInv, Durable, AttachedIsUsed, Known
<1>9. StreamAgrees(x)' /\ StreamIsLive(x)'
  BY <1>3 DEF IdInv, StreamAgrees, StreamIsLive, Known
<1> QED BY <1>5, <1>6, <1>7, <1>8, <1>9 DEF IdInv

LEMMA FrameKeeps ==
  ASSUME NEW c \in Calls, Frame(c), NEW x \in Ids, x # calls[c].id, IdInv(x)
  PROVE  IdInv(x)'
<1>1. \A d \in Calls : /\ calls[d].id = x => calls'[d] = calls[d]
                       /\ calls'[d].id = x => calls'[d] = calls[d]
  BY ConstantsAssumption DEF Frame
<1>2. /\ assignments'[x] = assignments[x] /\ eventEmitters'[x] = eventEmitters[x]
      /\ minted'[x] = minted[x] /\ disk'[x] = disk[x] /\ stream'[x] = stream[x]
      /\ attached'[x] = attached[x]
  BY DEF Frame
<1> QED BY <1>1, <1>2, SameCallsKeep

(***************************************************************************)
(* The id of the step.                                                     *)
(***************************************************************************)
LEMMA StreamFacts ==
  ASSUME TypeOK, NEW id \in Ids
  PROVE  /\ stream[id].on \in Nat /\ NoStream.on = 0 /\ NoStream.heard = "nothing"
         /\ NoRecord.state = "absent" /\ NoRecord.born = 0
  BY DEF TypeOK, Streams, NoStream, NoRecord, Assignment

LEMMA CatchOwn ==
  ASSUME OnceInv, NEW c \in Calls, NEW i \in Ids, i = calls[c].id,
         calls[c].pc \in Working \cup {"persistDone"}, Catch(c),
         UNCHANGED storage, ~\E last : Die(last)
  PROVE  IdInv(i)'
<1>1. /\ Accepts(i, "TASK_FAIL")
      /\ Emit(i, calls[c].emitter, "error")
      /\ Transition(i, "TASK_FAIL", assignments[i].result)
      /\ AwaitSave(c, "persistFailure", i)
      /\ UNCHANGED <<process, eventEmitters, minted>>
  BY DEF Catch
<1>2. /\ assignments[i].state = "active"
      /\ assignments' = [assignments EXCEPT ![i] = Assignment("error", @.born, assignments[i].result)]
  BY <1>1, TransitionEffect DEF OnceInv
<1>3. /\ IdInv(i) /\ calls \in [Calls -> Contexts] /\ assignments \in [Ids -> Records]
      /\ stream \in [Ids -> Streams] /\ stream[i].on \in Nat
      /\ NoId \notin Ids
  BY StreamFacts, ConstantsAssumption DEF OnceInv, ExecutorInv, TypeOK
<1> USE <1>3 DEF IdInv, InvitedOnce, OneObject, OneThread, PendingIsUntouched,
    ActiveIsAtWork, CompletedIsSettled, ForgottenIsGone, InviteIsFirst, SavesResult,
    Durable, AttachedIsUsed, StreamAgrees, StreamIsLive, Busy, On,
    Thread, Cancelling, Sweeping, Attaching, InvitePcs, Known, Assignment, Working,
    storage
<1>4. \A d \in Calls : d # c => calls'[d] = calls[d]
  BY <1>1 DEF AwaitSave
<1>5. calls'[c].pc = "persistFailure" /\ calls'[c].id = i
  BY <1>1 DEF AwaitSave, Call
<1>6. /\ assignments'[i].state = "error" /\ assignments'[i].born = assignments[i].born
      /\ eventEmitters' = eventEmitters /\ minted' = minted /\ disk' = disk
      /\ attached' = attached
  BY <1>1, <1>2
<1>7. InvitedOnce(i)' /\ OneObject(i)' /\ OneThread(i)' /\ SavesResult(i)'
  BY <1>2, <1>4, <1>5, <1>6
<1>8. PendingIsUntouched(i)' /\ ActiveIsAtWork(i)' /\ CompletedIsSettled(i)'
      /\ ForgottenIsGone(i)' /\ InviteIsFirst(i)'
  BY <1>2, <1>4, <1>5, <1>6
<1>9. Durable(i)' /\ AttachedIsUsed(i)'
  BY <1>2, <1>4, <1>5, <1>6
<1>10. calls[c].pc \in Working /\ calls[c].emitter = 1
  BY <1>2
<1>11. stream'[i] = IF stream[i].on = 1 THEN [on |-> 0, heard |-> "error"] ELSE stream[i]
  BY <1>1, <1>10 DEF Emit
<1>12. StreamAgrees(i)' /\ StreamIsLive(i)'
  <2>1. Busy(i, InvitePcs)' => Busy(i, InvitePcs)
    BY <1>4, <1>5
  <2>2. stream'[i].on = 0
    BY <1>11
  <2>3. stream'[i].heard = "done" => stream'[i] = stream[i]
    BY <1>11
  <2>4. NoStream.on = 0
    BY DEF NoStream
  <2> QED BY <1>2, <1>6, <1>11, <2>1, <2>2, <2>3, <2>4
<1> QED BY <1>7, <1>8, <1>9, <1>12

LEMMA CapturedOwn ==
  ASSUME OnceInv, NEW c \in Calls, NEW i \in Ids, i = calls[c].id, Captured(c),
         ~\E last : Die(last)
  PROVE  IdInv(i)'
<1>1. /\ Accepts(i, "TASK_COMPLETE")
      /\ Emit(i, calls[c].emitter, "done")
      /\ Transition(i, "TASK_COMPLETE", ResultOf(c))
      /\ AwaitSave(c, "persistDone", i)
      /\ calls[c].pc = "capture"
      /\ UNCHANGED <<process, eventEmitters, minted, disk, attached>>
  BY DEF Captured, At, storage
<1>2. /\ assignments[i].state = "active"
      /\ assignments' = [assignments EXCEPT ![i] = Assignment("completed", @.born, ResultOf(c))]
  BY <1>1, TransitionEffect DEF OnceInv
<1>3. /\ IdInv(i) /\ calls \in [Calls -> Contexts] /\ assignments \in [Ids -> Records]
      /\ stream \in [Ids -> Streams] /\ stream[i].on \in Nat
      /\ NoId \notin Ids /\ NoStream.on = 0
  BY StreamFacts, ConstantsAssumption DEF OnceInv, ExecutorInv, TypeOK
<1> USE <1>3 DEF IdInv, InvitedOnce, OneObject, OneThread, PendingIsUntouched,
    ActiveIsAtWork, CompletedIsSettled, ForgottenIsGone, InviteIsFirst, SavesResult,
    Durable, AttachedIsUsed, StreamAgrees, StreamIsLive, Busy, On,
    Thread, Cancelling, Sweeping, Attaching, InvitePcs, Known, Working
<1>4. calls[c].emitter = 1 /\ calls[c].born = 1 /\ ResultOf(c) = 1
  BY <1>1, <1>2 DEF ResultOf
<1>5. /\ calls'[c].pc = "persistDone" /\ calls'[c].id = i
      /\ calls'[c].content = assignments'[i]
      /\ \A d \in Calls : d # c => calls'[d] = calls[d]
  BY <1>1 DEF AwaitSave, Call
<1>6. assignments'[i].state = "completed" /\ assignments'[i].born = 1
      /\ assignments'[i].result = 1
  BY <1>2, <1>4 DEF Assignment
<1>7. stream'[i] = IF stream[i].on = 1 THEN [on |-> 0, heard |-> "done"] ELSE stream[i]
  BY <1>1, <1>4 DEF Emit
<1>8. InvitedOnce(i)' /\ OneObject(i)' /\ OneThread(i)' /\ SavesResult(i)'
  BY <1>1, <1>2, <1>5, <1>6
<1>9. PendingIsUntouched(i)' /\ ActiveIsAtWork(i)' /\ CompletedIsSettled(i)'
      /\ ForgottenIsGone(i)' /\ InviteIsFirst(i)'
  BY <1>1, <1>2, <1>5, <1>6
<1>10. Durable(i)' /\ AttachedIsUsed(i)'
  BY <1>1, <1>2, <1>5, <1>6
<1>11. StreamAgrees(i)' /\ StreamIsLive(i)'
  <2>1. ~Busy(i, InvitePcs) \/ stream[i].on = 0
    OBVIOUS
  <2>2. Busy(i, InvitePcs)' => Busy(i, InvitePcs)
    BY <1>5
  <2>3. stream'[i].on = 0
    BY <1>7
  <2> QED BY <1>6, <1>7, <2>1, <2>2, <2>3
<1> QED BY <1>8, <1>9, <1>10, <1>11

LEMMA SettleOwn ==
  ASSUME OnceInv, NEW c \in Calls, NEW i \in Ids, i = calls[c].id, Settle(c),
         ~\E last : Die(last)
  PROVE  IdInv(i)'
<1>1. /\ IdInv(i) /\ calls \in [Calls -> Contexts] /\ assignments \in [Ids -> Records]
      /\ disk \in [Ids -> Records] /\ attached \in [Ids -> Attachments]
      /\ stream \in [Ids -> Streams] /\ stream[i].on \in Nat /\ NoStream.on = 0
      /\ eventEmitters \in [Ids -> Nat] /\ minted \in [Ids -> Nat]
      /\ NoId \notin Ids /\ NoRecord.state = "absent" /\ NoStream.heard = "nothing"
      /\ calls[c].pc \notin {"redetach", "persistReinvite"}
  BY StreamFacts, ConstantsAssumption DEF OnceInv, ExecutorInv, TypeOK, NoSecondInvite
<1> USE <1>1 DEF IdInv, InvitedOnce, OneObject, OneThread, PendingIsUntouched,
    ActiveIsAtWork, CompletedIsSettled, ForgottenIsGone, InviteIsFirst, SavesResult,
    Durable, AttachedIsUsed, StreamAgrees, StreamIsLive, Busy, On,
    Thread, Cancelling, Sweeping, Attaching, InvitePcs, Known, Working,
    storage, maps, process, At, Return, Await, Call, Idle
<1>2. CASE AdmissionRefused(c)
  BY <1>2 DEF AdmissionRefused
<1>3. CASE AdmissionPassed(c)
  <2>1. /\ assignments'[i].state = "pending" /\ assignments'[i].born = minted[i] + 1
        /\ eventEmitters'[i] = minted[i] + 1 /\ minted'[i] = minted[i] + 1
        /\ UNCHANGED <<disk, attached, stream>> /\ On(c, i, {"admission"})
    BY <1>3 DEF AdmissionPassed, Register, Assignment
  <2>2. /\ calls'[c].pc = "persistInvite" /\ calls'[c].id = i
        /\ \A d \in Calls : d # c => calls'[d] = calls[d]
    BY <1>3 DEF AdmissionPassed, AwaitSave
  <2>3. minted[i] = 0 /\ \A d \in Calls : d # c => calls[d].id # i
    BY <2>1 DEF OnceInv, ExecutorInv, InvitesExclusive, Inviting, InFlight
  <2> QED BY <2>1, <2>2, <2>3
<1>4. CASE InviteDiscarded(c)
  BY <1>4 DEF InviteDiscarded, RemoveFile
<1>5. CASE Redetached(c)
  BY <1>5 DEF Redetached
<1>6. CASE AnswerPersisted(c)
  BY <1>6 DEF AnswerPersisted, Landed
<1>7. CASE StartPersisted(c)
  <2>1. /\ Known(i) /\ UNCHANGED <<assignments, eventEmitters, minted, stream, attached>>
        /\ calls[c].pc = "persistStart" /\ disk' \in Landed(c)
        /\ calls' = [calls EXCEPT ![c] =
             Call("prepare", i, eventEmitters[i], assignments[i].born, NoRecord)]
    BY <1>7 DEF StartPersisted
  <2>2. /\ calls'[c].pc = "prepare" /\ calls'[c].id = i
        /\ calls'[c].emitter = 1 /\ calls'[c].born = 1
        /\ \A d \in Calls : d # c => calls'[d] = calls[d]
    BY <2>1
  <2>3. assignments[i].state # "completed" /\ minted[i] = 1
    BY <2>1
  <2> QED BY <2>1, <2>2, <2>3
<1>8. CASE Prepared(c)
  BY <1>8 DEF Prepared
<1>9. CASE SetUp(c)
  BY <1>9 DEF SetUp
<1>10. CASE Executed(c)
  BY <1>10 DEF Executed
<1>11. CASE Captured(c)
  BY <1>11, CapturedOwn
<1>12. CASE TaskFails(c)
  BY <1>12, CatchOwn DEF TaskFails
<1>13. CASE TaskPersisted(c)
  BY <1>13 DEF TaskPersisted, Landed
<1>14. CASE Detached(c)
  <2>1. attached'[i] # "yes" /\ (attached[i] = "no" => attached'[i] = "no")
    BY <1>14, LetGoTyped DEF Detached, OnceInv, ExecutorInv
  <2> QED BY <1>14, <2>1 DEF Detached
<1>15. CASE CancelPersisted(c)
  BY <1>15 DEF CancelPersisted, Landed
<1>16. CASE PersistFails(c)
  <2>1. CASE calls[c].pc = "persistDone"
    BY <1>16, <2>1, CatchOwn DEF PersistFails
  <2>2. CASE /\ Forget(i) /\ Await(c, "discard") /\ UNCHANGED <<storage, minted, stream>>
             /\ calls[c].pc = "persistInvite"
    BY <2>2 DEF Forget
  <2>3. CASE /\ Return(c) /\ UNCHANGED <<maps, storage, minted, stream>>
             /\ calls[c].pc \in {"persistStart", "persistCancel", "persistError"}
    BY <2>3
  <2> QED BY <1>16, <2>1, <2>2, <2>3 DEF PersistFails, PersistPoints
<1>17. CASE Unlinked(c)
  BY <1>17 DEF Unlinked, RemoveFile
<1>18. CASE SweepTransport(c)
  <2>1. attached'[i] # "yes" /\ (attached[i] = "no" => attached'[i] = "no")
    BY <1>18, LetGoTyped DEF SweepTransport, OnceInv, ExecutorInv
  <2> QED BY <1>18, <2>1 DEF SweepTransport
<1>19. CASE SweepWorkspace(c)
  BY <1>19 DEF SweepWorkspace
<1>20. CASE SweepFile(c)
  BY <1>20 DEF SweepFile, Forget, RemoveFile
<1> QED BY <1>2, <1>3, <1>4, <1>5, <1>6, <1>7, <1>8, <1>9, <1>10, <1>11, <1>12,
           <1>13, <1>14, <1>15, <1>16, <1>17, <1>18, <1>19, <1>20 DEF Settle

LEMMA RequestOwn ==
  ASSUME OnceInv, MaxEmitters = 1, NEW c \in Calls, NEW i \in Ids, Request(c, i)
  PROVE  IdInv(i)'
<1>1. /\ IdInv(i) /\ calls \in [Calls -> Contexts] /\ assignments \in [Ids -> Records]
      /\ disk \in [Ids -> Records] /\ attached \in [Ids -> Attachments]
      /\ stream \in [Ids -> Streams] /\ stream[i].on \in Nat /\ NoStream.on = 0
      /\ eventEmitters \in [Ids -> Nat] /\ minted \in [Ids -> Nat]
      /\ NoId \notin Ids /\ NoRecord.state = "absent" /\ NoStream.heard = "nothing"
  BY StreamFacts, ConstantsAssumption DEF OnceInv, ExecutorInv, TypeOK
<1>2. calls[c].pc = "idle" /\ calls[c].id \notin Ids
  BY ConstantsAssumption DEF OnceInv, IdleIsFree, Request, HandleInvite, HandleStart,
     HandleError, CancelDelegation, AcknowledgeResult, SweepExpired, At
<1> USE <1>1, <1>2 DEF IdInv, InvitedOnce, OneObject, OneThread, PendingIsUntouched,
    ActiveIsAtWork, CompletedIsSettled, ForgottenIsGone, InviteIsFirst, SavesResult,
    Durable, AttachedIsUsed, StreamAgrees, StreamIsLive, Busy, On,
    Thread, Cancelling, Sweeping, Attaching, InvitePcs, Known, Working,
    storage, maps, process, At, Call
<1>3. CASE HandleInvite(c, i)
  <2>1. /\ minted[i] = 0 /\ ~Known(i) /\ Spawn(c, "admission", i)
        /\ stream'[i] = NoStream
        /\ UNCHANGED <<assignments, eventEmitters, minted, disk, attached>>
    BY <1>3 DEF HandleInvite
  <2> QED BY <2>1 DEF Spawn
<1>4. CASE HandleStart(c, i)
  <2>1. /\ assignments[i].state = "pending"
        /\ assignments' = [assignments EXCEPT ![i] = Assignment("active", @.born, assignments[i].result)]
        /\ UNCHANGED <<eventEmitters, minted, disk, attached, stream>>
        /\ AwaitSave(c, "persistStart", i)
        /\ ~Busy(i, {"persistInvite"})
    BY <1>4, TransitionEffect DEF HandleStart, OnceInv, Inviting, InFlight
  <2>2. assignments'[i].state = "active" /\ assignments'[i].born = assignments[i].born
    BY <2>1 DEF Assignment
  <2>3. /\ calls'[c].pc = "persistStart" /\ calls'[c].id = i
        /\ \A d \in Calls : d # c => calls'[d] = calls[d]
    BY <2>1 DEF AwaitSave
  <2> QED BY <2>1, <2>2, <2>3
<1>5. CASE HandleError(c, i) \/ CancelDelegation(c, i)
  <2> DEFINE pc == IF HandleError(c, i) THEN "persistError" ELSE "persistCancel"
  <2>1. /\ assignments[i].state \in {"pending", "active"}
        /\ assignments' = [assignments EXCEPT ![i] = Assignment("error", @.born, assignments[i].result)]
        /\ UNCHANGED <<eventEmitters, minted, disk, attached>>
        /\ AwaitSave(c, "persistError", i) \/ AwaitSave(c, "persistCancel", i)
    BY <1>5, TransitionEffect DEF HandleError, CancelDelegation, OnceInv
  <2>2. assignments'[i].state = "error" /\ assignments'[i].born = assignments[i].born
    BY <2>1 DEF Assignment
  <2>3. /\ calls'[c].pc \in {"persistError", "persistCancel"} /\ calls'[c].id = i
        /\ \A d \in Calls : d # c => calls'[d] = calls[d]
    BY <2>1 DEF AwaitSave
  <2>4. \/ PeerErrors /\ stream' = stream
        \/ stream'[i] = IF stream[i].on = 1 THEN [on |-> 0, heard |-> "error"]
                        ELSE stream[i]
    BY <1>5, <2>1 DEF HandleError, CancelDelegation, Emit
  <2>5. InvitedOnce(i)' /\ OneObject(i)' /\ OneThread(i)' /\ SavesResult(i)'
    BY <2>1, <2>2, <2>3
  <2>6. PendingIsUntouched(i)' /\ ActiveIsAtWork(i)' /\ CompletedIsSettled(i)'
        /\ ForgottenIsGone(i)' /\ InviteIsFirst(i)'
    BY <2>1, <2>2, <2>3
  <2>7. Durable(i)' /\ AttachedIsUsed(i)'
    BY <2>1, <2>2, <2>3
  <2>8. StreamAgrees(i)' /\ StreamIsLive(i)'
    <3>1. Busy(i, InvitePcs)' => Busy(i, InvitePcs)
      BY <2>3
    <3>2. stream'[i] = stream[i] \/ stream'[i] = [on |-> 0, heard |-> "error"]
      BY <2>4
    <3>3. ~PeerErrors => stream'[i].on = 0
      BY <2>4
    <3>4. Busy(i, InvitePcs) => stream'[i] = stream[i]
      BY <2>4
    <3> QED BY <2>1, <2>2, <3>1, <3>2, <3>3, <3>4
  <2> QED BY <2>5, <2>6, <2>7, <2>8
<1>6. CASE AcknowledgeResult(c, i)
  <2>1. /\ assignments'[i] = NoRecord
        /\ UNCHANGED <<minted, disk, attached, stream>>
        /\ Spawn(c, "unlink", i) /\ assignments[i].state \in {"completed", "error"}
    BY <1>6, TerminalRecord DEF AcknowledgeResult, Forget, OnceInv
  <2>2. /\ calls'[c].pc = "unlink" /\ calls'[c].id = i
        /\ \A d \in Calls : d # c => calls'[d] = calls[d]
    BY <2>1 DEF Spawn
  <2>3. \/ ~PeerErrors /\ stream[i].on = 0
        \/ PeerErrors
    BY <2>1
  <2> QED BY <2>1, <2>2, <2>3
<1>7. CASE SweepExpired(c, i)
  <2>1. /\ UNCHANGED <<assignments, eventEmitters, minted, disk, attached, stream>>
        /\ Spawn(c, "sweepTransport", i) /\ assignments[i].state \in {"completed", "error"}
    BY <1>7, TerminalRecord DEF SweepExpired, OnceInv
  <2>2. /\ calls'[c].pc = "sweepTransport" /\ calls'[c].id = i
        /\ \A d \in Calls : d # c => calls'[d] = calls[d]
    BY <2>1 DEF Spawn
  <2> QED BY <2>1, <2>2
<1> QED BY <1>3, <1>4, <1>5, <1>6, <1>7 DEF Request

LEMMA RequestFrame ==
  ASSUME OnceInv, NEW c \in Calls, NEW i \in Ids, Request(c, i),
         NEW x \in Ids, x # i
  PROVE  IdInv(x)'
<1>1. calls[c].pc = "idle" /\ calls[c].id = NoId
  BY DEF OnceInv, IdleIsFree, Request, HandleInvite, HandleStart,
     HandleError, CancelDelegation, AcknowledgeResult, SweepExpired, At
<1>2. /\ assignments'[x] = assignments[x] /\ eventEmitters'[x] = eventEmitters[x]
      /\ minted'[x] = minted[x] /\ disk'[x] = disk[x] /\ stream'[x] = stream[x]
      /\ attached'[x] = attached[x]
  BY DEF Request, HandleInvite, HandleStart, HandleError, CancelDelegation,
     AcknowledgeResult, SweepExpired, Transition, Emit, Forget, maps, storage,
     OnceInv, ExecutorInv, TypeOK
<1>3. \E k : k.id = i /\ calls' = [calls EXCEPT ![c] = k]
  BY DEF Request, HandleInvite, HandleStart, HandleError, CancelDelegation,
     AcknowledgeResult, SweepExpired, Spawn, AwaitSave, Call
<1>4. \A d \in Calls : /\ calls[d].id = x => calls'[d] = calls[d]
                       /\ calls'[d].id = x => calls'[d] = calls[d]
  BY <1>1, <1>3, ConstantsAssumption DEF OnceInv, ExecutorInv, TypeOK
<1> QED BY <1>2, <1>4, SameCallsKeep DEF OnceInv

(***************************************************************************)
(* The steps of no call: streams, and the process's life.                  *)
(***************************************************************************)
\* An id nothing is known of and nothing works for.
LEMMA QuietHolds ==
  ASSUME NEW x \in Ids, ~Known(x)', \A d \in Calls : calls'[d] = Idle,
         minted'[x] \in {0, 1},
         minted'[x] = 0 => disk'[x] = NoRecord /\ attached'[x] = "no",
         stream'[x].on = 0
  PROVE  IdInv(x)'
<1>1. \A pcs : ~Busy(x, pcs)' /\ \A d \in Calls : ~On(d, x, pcs)'
  BY ConstantsAssumption DEF Busy, On, Idle, Call
<1>2. \A d \in Calls : calls'[d].id # x
  BY ConstantsAssumption DEF Idle, Call
<1> QED BY <1>1, <1>2 DEF IdInv, InvitedOnce, OneObject, OneThread, PendingIsUntouched,
    ActiveIsAtWork, CompletedIsSettled, ForgottenIsGone, InviteIsFirst, SavesResult,
    Durable, AttachedIsUsed, StreamAgrees, StreamIsLive, Known

LEMMA DeathHolds ==
  ASSUME OnceInv, NEW last, Die(last), attached' = attached, NEW x \in Ids,
         minted[x] = 0 => disk'[x] = disk[x]
  PROVE  IdInv(x)'
<1>1. /\ ~Known(x)' /\ \A d \in Calls : calls'[d] = Idle
      /\ minted' = minted /\ stream'[x].on = 0
  BY DEF Die, Known, NoRecord, Assignment
<1> QED BY <1>1, QuietHolds DEF OnceInv, IdInv, InvitedOnce

LEMMA SettleDeath ==
  ASSUME OnceInv, NEW c \in Calls, Settle(c), \E last : Die(last), NEW x \in Ids
  PROVE  IdInv(x)'
<1>1. PICK last : Die(last)
  OBVIOUS
<1>2. UNCHANGED <<disk, attached>> => IdInv(x)'
  BY <1>1, DeathHolds
<1>3. up /\ ~up' /\ UNCHANGED minted
  BY <1>1 DEF Die, Settle, AdmissionRefused, AdmissionPassed, InviteDiscarded,
     Redetached, AnswerPersisted, StartPersisted, Prepared, SetUp, Executed, Captured,
     TaskFails, TaskPersisted, Detached, CancelPersisted, PersistFails, Unlinked,
     SweepTransport, SweepWorkspace, SweepFile, At
<1>4. CASE StartPersisted(c)
  <2>1. calls[c].pc = "persistStart" /\ disk' \in Landed(c) /\ attached' = attached
    BY <1>4 DEF StartPersisted, At
  <2>2. calls[c].id \in Ids /\ minted[calls[c].id] = 1
    BY <2>1, SlotId DEF OnceInv, ExecutorInv, IdInv, InvitedOnce
  <2>3. minted[x] = 0 => disk'[x] = disk[x]
    BY <2>1, <2>2 DEF Landed, OnceInv, ExecutorInv, TypeOK
  <2> QED BY <1>1, <2>1, <2>3, DeathHolds
<1>5. CASE Captured(c) \/ TaskFails(c) \/ PersistFails(c)
  BY <1>2, <1>5 DEF Captured, TaskFails, PersistFails, storage
<1> QED BY <1>3, <1>4, <1>5 DEF Settle, process, AdmissionRefused, AdmissionPassed,
     InviteDiscarded, Redetached, AnswerPersisted, Prepared, SetUp, Executed,
     TaskPersisted, Detached, CancelPersisted, Unlinked, SweepTransport,
     SweepWorkspace, SweepFile

LEMMA InitializeHolds ==
  ASSUME OnceInv, CleanupOnInitialize, Initialize, NEW x \in Ids
  PROVE  IdInv(x)'
<1>1. /\ \A d \in Calls : calls'[d] = Idle
      /\ assignments'[x] = NoRecord /\ minted' = minted /\ stream' = stream
      /\ disk'[x] \in {disk[x], NoRecord}
      /\ attached[x] = "no" => attached'[x] = "no"
  BY InitializeFiles, CleanUpEffect
     DEF Initialize, OnceInv, ExecutorInv, DownIsEmpty, maps
<1>2. minted'[x] \in {0, 1} /\ ~Known(x)'
  BY <1>1 DEF OnceInv, IdInv, InvitedOnce, Known, NoRecord, Assignment
<1>3. minted'[x] = 0 => disk'[x] = NoRecord /\ attached'[x] = "no"
  BY <1>1 DEF OnceInv, IdInv, InvitedOnce
<1>4. stream'[x].on = 0
  BY <1>1 DEF Initialize, OnceInv, DownIsSilent
<1> QED BY <1>1, <1>2, <1>3, <1>4, QuietHolds

LEMMA StreamHolds ==
  ASSUME OnceInv, NEW i \in Ids, SubscribeTask(i) \/ Unsubscribe(i), NEW x \in Ids
  PROVE  IdInv(x)'
<1>1. /\ IdInv(x) /\ stream \in [Ids -> Streams] /\ stream[x].on \in Nat
      /\ UNCHANGED <<assignments, eventEmitters, minted, calls, disk, attached>>
      /\ \A j \in Ids : j # i => stream'[j] = stream[j]
      /\ NoStream.on = 0 /\ NoStream.heard = "nothing"
  BY StreamFacts DEF OnceInv, ExecutorInv, TypeOK, SubscribeTask, Unsubscribe, maps, storage
<1>2. CASE x # i
  BY <1>1, <1>2, SameCallsKeep
<1>3. CASE x = i
  <2>1. StreamAgrees(x)' /\ StreamIsLive(x)'
    <3>1. CASE Unsubscribe(i)
      <4>1. stream'[x] = [on |-> 0, heard |-> "lost"] /\ stream[x].on # 0
        BY <1>1, <1>3, <3>1 DEF Unsubscribe
      <4> QED BY <1>1, <4>1 DEF IdInv, StreamAgrees, StreamIsLive, Busy, On
    <3>2. CASE SubscribeTask(i)
      <4>1. ~Busy(x, InvitePcs)
        BY <1>3, <3>2 DEF SubscribeTask, Inviting, InFlight, Busy, On, InvitePcs
      <4>2. ~Busy(x, InvitePcs)'
        BY <1>1, <4>1 DEF Busy, On
      <4>3. \/ /\ stream'[x] = [on |-> eventEmitters[x], heard |-> "nothing"]
               /\ assignments[x].state \in {"pending", "active"}
            \/ /\ stream'[x] = [on |-> 0, heard |-> "done"]
               /\ assignments[x].state = "completed"
            \/ stream'[x] = [on |-> 0, heard |-> "error"]
        BY <1>1, <1>3, <3>2, TerminalRecord DEF SubscribeTask, OnceInv
      <4>4. assignments[x].state \in {"pending", "active"} => eventEmitters[x] = 1
        BY <1>1 DEF IdInv, OneObject, Known
      <4> QED BY <1>1, <4>2, <4>3, <4>4 DEF StreamAgrees, StreamIsLive, Known
    <3> QED BY <3>1, <3>2
  <2> QED BY <1>1, <2>1 DEF IdInv, InvitedOnce, OneObject, OneThread, PendingIsUntouched,
    ActiveIsAtWork, CompletedIsSettled, ForgottenIsGone, InviteIsFirst, SavesResult,
    Durable, AttachedIsUsed, Busy, On, Known
<1> QED BY <1>2, <1>3

LEMMA GlobalsKept ==
  ASSUME OnceInv, MaxEmitters = 1, CleanupOnInitialize, [Next]_vars
  PROVE  IdleIsFree' /\ NoSecondInvite' /\ DownIsSilent'
<1>1. ASSUME NEW last, Die(last)
      PROVE  IdleIsFree' /\ NoSecondInvite' /\ DownIsSilent'
  BY <1>1 DEF Die, IdleIsFree, NoSecondInvite, DownIsSilent, Idle, Call
<1>2. ASSUME NEW c \in Calls, Settle(c), ~\E last : Die(last)
      PROVE  IdleIsFree' /\ NoSecondInvite' /\ DownIsSilent'
  <2>1. /\ Frame(c) /\ up' /\ calls'[c].pc \notin {"redetach", "persistReinvite"}
        /\ calls'[c].pc = "idle" => calls'[c].id = NoId
    <3> USE <1>2 DEF OnceInv, ExecutorInv, TypeOK, NoSecondInvite, At, Await, AwaitSave,
        Return, Idle, Call, process
    <3>1. Catch(c) /\ calls[c].pc \in Working \cup {"persistDone"} /\ up =>
            up' /\ calls'[c].pc = "persistFailure"
      <4> SUFFICES ASSUME Catch(c), up
                   PROVE  up' /\ calls'[c].pc = "persistFailure"
        OBVIOUS
      <4>1. AwaitSave(c, "persistFailure", calls[c].id) /\ UNCHANGED up
        BY <1>2 DEF Catch
      <4> QED BY <4>1
    <3>2. CASE TaskFails(c)
      BY <3>1, <3>2, SettleFrame DEF TaskFails
    <3>3. CASE PersistFails(c)
      <4>1. CASE calls[c].pc = "persistDone"
        BY <1>2, <3>1, <3>3, <4>1, SettleFrame DEF PersistFails
      <4>2. CASE Await(c, "discard") /\ UNCHANGED process
        BY <1>2, <3>3, <4>2, SettleFrame DEF PersistFails
      <4>3. CASE Return(c) /\ UNCHANGED process
        BY <1>2, <3>3, <4>3, SettleFrame DEF PersistFails
      <4> QED BY <1>2, <3>3, <4>1, <4>2, <4>3 DEF PersistFails, PersistPoints
    <3>4. CASE Captured(c) \/ StartPersisted(c)
      BY <3>4, SettleFrame DEF Captured, StartPersisted
    <3>5. CASE AdmissionPassed(c) \/ Redetached(c)
      BY <3>5, SettleFrame DEF AdmissionPassed, Redetached
    <3> QED BY <3>2, <3>3, <3>4, <3>5, SettleFrame DEF Settle, AdmissionRefused,
        InviteDiscarded, AnswerPersisted, Prepared, SetUp, Executed, TaskPersisted,
        Detached, CancelPersisted, Unlinked, SweepTransport, SweepWorkspace, SweepFile
  <2> QED BY <2>1 DEF OnceInv, Frame, IdleIsFree, NoSecondInvite, DownIsSilent
<1>3. ASSUME NEW c \in Calls, NEW id \in Ids, Request(c, id)
      PROVE  IdleIsFree' /\ NoSecondInvite' /\ DownIsSilent'
  <2>1. HandleInvite(c, id) => ~Known(id)
    BY DEF HandleInvite, OnceInv, IdInv, InvitedOnce
  <2>2. /\ up /\ up'
        /\ calls'[c].pc \in {"admission", "persistStart", "persistError",
                            "persistCancel", "unlink", "sweepTransport"}
        /\ \A d \in Calls : d # c => calls'[d] = calls[d]
    <3> USE DEF OnceInv, ExecutorInv, TypeOK
    <3>1. CASE HandleInvite(c, id)
      BY <2>1, <3>1 DEF HandleInvite, Spawn, Call, At, process
    <3>2. CASE HandleStart(c, id) \/ HandleError(c, id) \/ CancelDelegation(c, id)
      BY <3>2 DEF HandleStart, HandleError, CancelDelegation, AwaitSave, Call, At, process
    <3>3. CASE AcknowledgeResult(c, id) \/ SweepExpired(c, id)
      BY <3>3 DEF AcknowledgeResult, SweepExpired, Spawn, Call, At, process
    <3> QED BY <1>3, <3>1, <3>2, <3>3 DEF Request
  <2> QED BY <2>2 DEF OnceInv, IdleIsFree, NoSecondInvite, DownIsSilent
<1>4. CASE Initialize
  BY <1>4 DEF Initialize, OnceInv, IdleIsFree, NoSecondInvite, DownIsSilent
<1>5. CASE Crash
  BY <1>1, <1>5 DEF Crash
<1>6. CASE UNCHANGED vars
  BY <1>6 DEF vars, process, OnceInv, IdleIsFree, NoSecondInvite, DownIsSilent
<1>7. CASE \E id \in Ids : SubscribeTask(id) \/ Unsubscribe(id)
  BY <1>7 DEF SubscribeTask, Unsubscribe, process, OnceInv, IdleIsFree,
     NoSecondInvite, DownIsSilent
<1> QED BY <1>1, <1>2, <1>3, <1>4, <1>5, <1>6, <1>7 DEF Next

LEMMA OnceKept ==
  ASSUME OnceInv, MaxEmitters = 1, CleanupOnInitialize, [Next]_vars
  PROVE  OnceInv'
<1>1. ExecutorInv' /\ IdleIsFree' /\ NoSecondInvite' /\ DownIsSilent'
  BY NextInv, GlobalsKept DEF OnceInv
<1>2. ASSUME NEW x \in Ids
      PROVE  IdInv(x)'
  <2>1. ASSUME NEW c \in Calls, Settle(c)
        PROVE  IdInv(x)'
    <3>1. CASE \E last : Die(last)
      BY <2>1, <3>1, SettleDeath
    <3>2. CASE ~\E last : Die(last)
      <4>1. CASE x = calls[c].id
        BY <2>1, <3>2, <4>1, SettleOwn
      <4>2. CASE x # calls[c].id
        BY <2>1, <3>2, <4>2, SettleFrame, FrameKeeps DEF OnceInv
      <4> QED BY <4>1, <4>2
    <3> QED BY <3>1, <3>2
  <2>2. ASSUME NEW c \in Calls, NEW id \in Ids, Request(c, id)
        PROVE  IdInv(x)'
    BY <2>2, RequestOwn, RequestFrame
  <2>3. CASE Crash
    BY <2>3, DeathHolds DEF Crash, storage
  <2>4. CASE UNCHANGED vars
    BY <2>4, SameCallsKeep DEF vars, maps, storage, OnceInv
  <2>5. CASE Initialize
    BY <2>5, InitializeHolds
  <2>6. CASE \E id \in Ids : SubscribeTask(id) \/ Unsubscribe(id)
    BY <2>6, StreamHolds
  <2> QED BY <2>1, <2>2, <2>3, <2>4, <2>5, <2>6 DEF Next
<1> QED BY <1>1, <1>2 DEF OnceInv

LEMMA InitOnce == Init => OnceInv
<1> SUFFICES ASSUME Init PROVE OnceInv
  OBVIOUS
<1>1. ExecutorInv /\ IdleIsFree /\ NoSecondInvite /\ DownIsSilent
  BY InitInv DEF Init, IdleIsFree, NoSecondInvite, DownIsSilent, Idle, Call
<1>2. ASSUME NEW x \in Ids
      PROVE  IdInv(x)
  <2>1. /\ \A pcs : ~Busy(x, pcs) /\ \A d \in Calls : ~On(d, x, pcs)
        /\ \A d \in Calls : calls[d].id # x
    BY ConstantsAssumption DEF Init, Busy, On, Idle, Call
  <2>2. /\ ~Known(x) /\ minted[x] = 0 /\ disk[x] = NoRecord /\ attached[x] = "no"
        /\ stream[x] = NoStream /\ stream[x].on = 0
        /\ stream[x].heard = "nothing" /\ assignments[x].state = "absent"
    BY DEF Init, Known, NoRecord, Assignment, NoStream
  <2> QED BY <2>1, <2>2 DEF IdInv, InvitedOnce, OneObject, OneThread, PendingIsUntouched,
    ActiveIsAtWork, CompletedIsSettled, ForgottenIsGone, InviteIsFirst, SavesResult,
    Durable, AttachedIsUsed, StreamAgrees, StreamIsLive
<1> QED BY <1>1, <1>2 DEF OnceInv

\* The inductive invariant of an Executor that meets each id once and releases
\* what it finds when it starts, whatever writes fail and peers report.
THEOREM OnceInvariant ==
  ASSUME MaxEmitters = 1, CleanupOnInitialize
  PROVE  Spec => []OnceInv
<1>1. OnceInv /\ [Next]_vars => OnceInv'
  BY OnceKept
<1> QED BY <1>1, InitOnce, PTL DEF Spec

\* A Delegator that was told 'done' finds a completed result, as long as there
\* is any: no cancellation, error or failed write comes in between.
THEOREM DoneCompleted ==
  ASSUME MaxEmitters = 1, CleanupOnInitialize
  PROVE  Spec => []DoneMeansCompleted
<1>1. OnceInv => DoneMeansCompleted
  BY TerminalRecord DEF OnceInv, IdInv, StreamAgrees, OneObject, DoneMeansCompleted
<1> QED BY <1>1, OnceInvariant, PTL

\* The file of a completed assignment says so once nothing is in flight for
\* it: the save of the completion is never overtaken by an older one.
THEOREM CompletedDurable ==
  ASSUME MaxEmitters = 1, CleanupOnInitialize
  PROVE  Spec => []CompletedIsDurable
<1>1. OnceInv => CompletedIsDurable
  BY DEF OnceInv, IdInv, Durable, Busy, On, InFlight, CompletedIsDurable
<1> QED BY <1>1, OnceInvariant, PTL

\* The transport of an ended assignment with nothing in flight was told to let
\* go since its last setup, for every interleaving of its task, its cancellation
\* and the sweep; what became of that call is not claimed.
THEOREM EndedDetached ==
  ASSUME MaxEmitters = 1, CleanupOnInitialize
  PROVE  Spec => []EndedIsDetached
<1>1. OnceInv => EndedIsDetached
  BY DEF OnceInv, IdInv, AttachedIsUsed, Busy, On, InFlight, Terminal, EndedIsDetached
<1> QED BY <1>1, OnceInvariant, PTL

(***************************************************************************)
(* What a step reports to the Delegator's side of an id that is invited    *)
(* once: the calls at work for it, the state of its assignment, and the    *)
(* last word of its stream.                                                *)
(***************************************************************************)
Unstarted == {"persistStart", "prepare", "setup"}
Executing == {"execute", "capture"}

\* The slot a request is served in, up to its answer.
Serves(p, q) ==
  /\ p = "persistStart" => q = "prepare"
  /\ p = "admission" => q \in {"idle", "persistInvite"}
  /\ p = "persistInvite" => q = "idle"
  /\ p = "persistCancel" => q = "detachCancel"
  /\ p = "detachCancel" => q = "idle"
  /\ q = "execute" => p = "setup"
  /\ q = "capture" => p = "execute"

\* No step of a call starts a task, makes an assignment anew or brings one
\* back; the task goes through setup() before it executes.
Onward(c, i) ==
  /\ minted[i] = 1 => minted'[i] = 1
  /\ assignments'[i].state = "pending" =>
       assignments[i].state = "pending" \/ minted[i] = 0
  /\ assignments'[i].state = "active" => assignments[i].state = "active"
  /\ assignments'[i].state = "completed" =>
       \/ assignments[i].state = "completed"
       \/ /\ assignments[i].state = "active"
          /\ up' /\ calls[c].pc = "capture" /\ calls'[c].pc = "persistDone"
  /\ Busy(i, Thread)' => Busy(i, Thread)
  /\ Busy(i, {"persistStart"})' => Busy(i, {"persistStart"})
  /\ Busy(i, Unstarted)' => Busy(i, Unstarted)
  /\ Busy(i, Executing)' => Busy(i, Executing) \/ On(c, i, {"setup"})

\* A stream that ends says how: 'done' of a completed assignment only, and at
\* capture; of the process's death it need not say more than "lost".
Tells(c, i) ==
  \/ stream'[i] = stream[i]
  \/ /\ stream[i].on # 0 /\ stream'[i].on = 0
     /\ \/ ~up' /\ stream'[i].heard \in {"error", "lost"}
        \/ up' /\ stream'[i].heard = "error"
        \/ /\ up' /\ stream'[i].heard = "done"
           /\ calls[c].pc = "capture" /\ calls'[c].pc = "persistDone"
           /\ assignments'[i].state = "completed"

LEMMA DeathReport ==
  ASSUME OnceInv, NEW c \in Calls, NEW i \in Ids, NEW last, Die(last),
         last[i] = stream[i]
  PROVE  /\ Onward(c, i) /\ Tells(c, i)
         /\ ~up' /\ \A d \in Calls : calls'[d] = Idle
         /\ ~Known(i)'
<1>1. /\ ~up' /\ \A d \in Calls : calls'[d] = Idle
      /\ assignments'[i].state = "absent" /\ minted' = minted
      /\ stream'[i] = IF stream[i].on = 0 THEN stream[i]
                      ELSE [on |-> 0, heard |-> "lost"]
  BY DEF Die, NoRecord, Assignment
<1>2. \A pcs : ~Busy(i, pcs)'
  BY <1>1, ConstantsAssumption DEF Busy, On, Idle, Call
<1> QED BY <1>1, <1>2 DEF Onward, Tells, Known

\* An active assignment can be completed and can fail.
LEMMA ActiveAccepts ==
  ASSUME ExecutorInv, NEW i \in Ids, assignments[i].state = "active"
  PROVE  Accepts(i, "TASK_COMPLETE") /\ Accepts(i, "TASK_FAIL")
<1>1. Known(i) /\ stateMachines[i] = "active"
  BY DEF Known, ExecutorInv, StateMachineBacked
<1>2. "completed" \in AssignmentNext("active", "TASK_COMPLETE")
  BY DEF AssignmentNext, AssignmentTarget, AssignmentTransitions
<1>3. "error" \in AssignmentNext("active", "TASK_FAIL")
  BY DEF AssignmentNext, AssignmentTarget, AssignmentTransitions
<1> QED BY <1>1, <1>2, <1>3 DEF Accepts

LEMMA CatchReport ==
  ASSUME OnceInv, ~PeerErrors, NEW c \in Calls, NEW i \in Ids,
         i = calls[c].id, up, calls[c].pc \in Working, Catch(c)
  PROVE  /\ Onward(c, i) /\ Tells(c, i)
         /\ IF up' THEN /\ \A d \in Calls : d # c => calls'[d] = calls[d]
                        /\ calls'[c].id = i /\ calls'[c].pc = "persistFailure"
                   ELSE ~Known(i)' /\ \A d \in Calls : calls'[d] = Idle
<1>1. /\ IdInv(i) /\ calls \in [Calls -> Contexts] /\ assignments \in [Ids -> Records]
      /\ stream \in [Ids -> Streams] /\ stream[i].on \in Nat
      /\ minted \in [Ids -> Nat] /\ NoId \notin Ids
  BY StreamFacts, ConstantsAssumption DEF OnceInv, ExecutorInv, TypeOK
<1>2. CASE Accepts(i, "TASK_FAIL")
  <2>0. /\ Emit(i, calls[c].emitter, "error") /\ AwaitSave(c, "persistFailure", i)
        /\ Transition(i, "TASK_FAIL", assignments[i].result)
        /\ UNCHANGED <<up, minted>>
    BY <1>2 DEF Catch, process
  <2>1. /\ Emit(i, calls[c].emitter, "error") /\ AwaitSave(c, "persistFailure", i)
        /\ UNCHANGED <<up, minted>>
        /\ assignments[i].state = "active"
        /\ assignments' = [assignments EXCEPT ![i] = Assignment("error", @.born, assignments[i].result)]
    BY <1>2, <2>0, TransitionEffect DEF OnceInv
  <2>2. /\ calls'[c].id = i /\ calls'[c].pc = "persistFailure"
        /\ \A d \in Calls : d # c => calls'[d] = calls[d]
    BY <1>1, <2>1 DEF AwaitSave, Call
  <2>3. assignments'[i].state = "error"
    BY <1>1, <2>1 DEF Assignment
  <2>4. Tells(c, i)
    BY <1>1, <2>1 DEF Tells, Emit
  <2>5. Onward(c, i)
    BY <1>1, <2>1, <2>2, <2>3 DEF Onward, Busy, On, Working, Thread, Unstarted, Executing
  <2> QED BY <2>1, <2>2, <2>4, <2>5
<1>3. CASE ~Accepts(i, "TASK_FAIL")
  <2>1. assignments[i].state # "active"
    BY <1>3, ActiveAccepts DEF OnceInv
  <2>2. On(c, i, Thread)
    BY DEF On, Working, Thread
  <2>3. stream[i].on = 0
    <3>1. Busy(i, Thread \cup Cancelling \cup Sweeping)
      BY <2>2 DEF Busy, On
    <3> QED BY <1>1, <2>1, <3>1 DEF IdInv, StreamIsLive, PendingIsUntouched
  <2>4. \E last : Die(last) /\ last[i] = stream[i]
    BY <1>1, <1>3, <2>3 DEF Catch
  <2> QED BY <2>4, DeathReport
<1> QED BY <1>2, <1>3

LEMMA CapturedReport ==
  ASSUME OnceInv, ~PeerErrors, NEW c \in Calls, NEW i \in Ids,
         i = calls[c].id, Captured(c)
  PROVE  /\ Onward(c, i) /\ Tells(c, i)
         /\ IF up' THEN /\ \A d \in Calls : d # c => calls'[d] = calls[d]
                        /\ calls'[c].id = i /\ calls'[c].pc = "persistDone"
                        /\ calls[c].pc = "capture"
                   ELSE ~Known(i)' /\ \A d \in Calls : calls'[d] = Idle
<1>1. /\ IdInv(i) /\ calls \in [Calls -> Contexts] /\ assignments \in [Ids -> Records]
      /\ stream \in [Ids -> Streams] /\ stream[i].on \in Nat
      /\ minted \in [Ids -> Nat] /\ NoId \notin Ids
  BY StreamFacts, ConstantsAssumption DEF OnceInv, ExecutorInv, TypeOK
<1>0. calls[c].pc = "capture" /\ up
  BY DEF Captured, At
<1>2. CASE Accepts(i, "TASK_COMPLETE")
  <2>1. /\ Emit(i, calls[c].emitter, "done") /\ AwaitSave(c, "persistDone", i)
        /\ UNCHANGED <<up, minted>>
        /\ assignments[i].state = "active"
        /\ assignments' = [assignments EXCEPT ![i] = Assignment("completed", @.born, ResultOf(c))]
    BY <1>2, TransitionEffect DEF Captured, OnceInv, process
  <2>2. /\ calls'[c].id = i /\ calls'[c].pc = "persistDone"
        /\ \A d \in Calls : d # c => calls'[d] = calls[d]
    BY <1>1, <2>1 DEF AwaitSave, Call
  <2>3. assignments'[i].state = "completed"
    BY <1>1, <2>1 DEF Assignment
  <2>4. Tells(c, i)
    BY <1>0, <1>1, <2>1, <2>2, <2>3 DEF Tells, Emit
  <2>5. Onward(c, i)
    BY <1>0, <1>1, <2>1, <2>2, <2>3 DEF Onward, Busy, On, Thread, Unstarted, Executing
  <2> QED BY <1>0, <2>1, <2>2, <2>4, <2>5
<1>3. CASE ~Accepts(i, "TASK_COMPLETE")
  <2>1. assignments[i].state # "active"
    BY <1>3, ActiveAccepts DEF OnceInv
  <2>2. On(c, i, Thread)
    BY <1>0 DEF On, Thread
  <2>3. stream[i].on = 0
    <3>1. Busy(i, Thread \cup Cancelling \cup Sweeping)
      BY <2>2 DEF Busy, On
    <3> QED BY <1>1, <2>1, <3>1 DEF IdInv, StreamIsLive, PendingIsUntouched
  <2>4. \E last : Die(last) /\ last[i] = stream[i]
    BY <1>1, <1>3, <2>3 DEF Captured
  <2> QED BY <2>4, DeathReport
<1> QED BY <1>2, <1>3

LEMMA SettleReport ==
  ASSUME OnceInv, ~PeerErrors, ~DiskFaults, NEW c \in Calls, NEW i \in Ids,
         i = calls[c].id, Settle(c)
  PROVE  /\ Onward(c, i) /\ Tells(c, i)
         /\ IF up' THEN /\ \A d \in Calls : d # c => calls'[d] = calls[d]
                        /\ calls'[c].id \in {i, NoId} /\ Serves(calls[c].pc, calls'[c].pc)
                   ELSE ~Known(i)' /\ \A d \in Calls : calls'[d] = Idle
<1>1. /\ IdInv(i) /\ calls \in [Calls -> Contexts] /\ assignments \in [Ids -> Records]
      /\ stream \in [Ids -> Streams] /\ stream[i].on \in Nat /\ NoStream.on = 0
      /\ minted \in [Ids -> Nat] /\ NoId \notin Ids /\ NoRecord.state = "absent"
      /\ calls[c].pc \notin {"redetach", "persistReinvite"}
  BY StreamFacts, ConstantsAssumption DEF OnceInv, ExecutorInv, TypeOK, NoSecondInvite
<1> USE <1>1 DEF Onward, Tells, Serves, Busy, On, Thread, Unstarted, Executing, Known,
    storage, maps, process, At, Return, Await, Call, Idle
<1>2. CASE AdmissionRefused(c)
  BY <1>2 DEF AdmissionRefused
<1>3. CASE AdmissionPassed(c)
  <2>1. minted[i] = 0
    BY <1>3 DEF AdmissionPassed, IdInv, InvitedOnce
  <2> QED BY <1>3, <2>1 DEF AdmissionPassed, Register, AwaitSave, Assignment
<1>4. CASE InviteDiscarded(c)
  BY <1>4 DEF InviteDiscarded, RemoveFile
<1>5. CASE Redetached(c)
  BY <1>5 DEF Redetached
<1>6. CASE AnswerPersisted(c)
  BY <1>6 DEF AnswerPersisted
<1>7. CASE StartPersisted(c)
  <2>1. CASE Known(i)
    <3>1. /\ calls' = [calls EXCEPT ![c] =
               Call("prepare", i, eventEmitters[i], assignments[i].born, NoRecord)]
          /\ UNCHANGED <<process, maps, minted, stream>> /\ up
          /\ calls[c].pc = "persistStart"
      <4> HIDE DEF Onward, Tells, Serves, Busy, Thread, Unstarted, Executing, Idle, On, Call
      <4> QED BY <1>7, <2>1 DEF StartPersisted
    <3>2. /\ calls'[c].id = i /\ calls'[c].pc = "prepare"
          /\ \A d \in Calls : d # c => calls'[d] = calls[d]
      BY <3>1
    <3> QED BY <3>1, <3>2
  <2>2. CASE ~Known(i)
    <3>1. Die(stream)
      BY <1>7, <2>2 DEF StartPersisted
    <3> HIDE DEF Onward, Tells, Known
    <3> QED BY <3>1, DeathReport
  <2> QED BY <2>1, <2>2
<1>8. CASE Prepared(c)
  BY <1>8 DEF Prepared
<1>9. CASE SetUp(c)
  BY <1>9 DEF SetUp
<1>10. CASE Executed(c)
  BY <1>10 DEF Executed
<1>11. CASE Captured(c)
  BY <1>11, CapturedReport
<1>12. CASE TaskFails(c)
  BY <1>12, CatchReport DEF TaskFails, Working
<1>13. CASE TaskPersisted(c)
  BY <1>13 DEF TaskPersisted
<1>14. CASE Detached(c)
  BY <1>14, LetGoTyped DEF Detached
<1>15. CASE CancelPersisted(c)
  BY <1>15 DEF CancelPersisted
<1>16. CASE PersistFails(c)
  BY <1>16 DEF PersistFails
<1>17. CASE Unlinked(c)
  BY <1>17 DEF Unlinked, RemoveFile
<1>18. CASE SweepTransport(c)
  BY <1>18, LetGoTyped DEF SweepTransport
<1>19. CASE SweepWorkspace(c)
  BY <1>19 DEF SweepWorkspace
<1>20. CASE SweepFile(c)
  BY <1>20 DEF SweepFile, Forget, RemoveFile
<1> QED BY <1>2, <1>3, <1>4, <1>5, <1>6, <1>7, <1>8, <1>9, <1>10, <1>11, <1>12,
           <1>13, <1>14, <1>15, <1>16, <1>17, <1>18, <1>19, <1>20 DEF Settle

\* What a request does, and the process's life.
LEMMA RequestReport ==
  ASSUME OnceInv, ~PeerErrors, MaxEmitters = 1, NEW c \in Calls, NEW i \in Ids,
         Request(c, i)
  PROVE  /\ up' /\ minted' = minted /\ calls[c].pc = "idle"
         /\ calls'[c].id = i /\ \A d \in Calls : d # c => calls'[d] = calls[d]
         /\ HandleInvite(c, i) =>
              /\ calls'[c].pc = "admission" /\ assignments' = assignments
              /\ stream[i].on = 0 /\ stream'[i] = NoStream
         /\ HandleStart(c, i) =>
              /\ calls'[c].pc = "persistStart" /\ stream' = stream
              /\ assignments[i].state = "pending" /\ assignments'[i].state = "active"
         /\ CancelDelegation(c, i) =>
              /\ calls'[c].pc = "persistCancel" /\ assignments'[i].state = "error"
              /\ IF stream[i].on = 0 THEN stream'[i] = stream[i]
                 ELSE stream'[i].on = 0 /\ stream'[i].heard = "error"
         /\ AcknowledgeResult(c, i) \/ SweepExpired(c, i) =>
              /\ calls'[c].pc \in {"unlink", "sweepTransport"} /\ stream' = stream
              /\ assignments'[i].state \in {assignments[i].state, "absent"}
<1>1. /\ IdInv(i) /\ calls \in [Calls -> Contexts] /\ assignments \in [Ids -> Records]
      /\ stream \in [Ids -> Streams] /\ stream[i].on \in Nat /\ minted[i] \in Nat
      /\ ExecutorInv /\ NoRecord.state = "absent"
  BY StreamFacts DEF OnceInv, ExecutorInv, TypeOK
<1> USE <1>1 DEF At, Spawn, AwaitSave, Call, process, maps
<1>2. /\ up' /\ minted' = minted /\ calls[c].pc = "idle"
      /\ calls'[c].id = i /\ \A d \in Calls : d # c => calls'[d] = calls[d]
  BY DEF Request, HandleInvite, HandleStart, HandleError, CancelDelegation,
     AcknowledgeResult, SweepExpired
<1>3. ASSUME HandleInvite(c, i)
      PROVE  /\ calls'[c].pc = "admission" /\ assignments' = assignments
             /\ stream[i].on = 0 /\ stream'[i] = NoStream
  <2>1. minted[i] = 0 /\ ~Known(i)
    BY <1>3 DEF HandleInvite, IdInv, InvitedOnce
  <2>2. stream[i].on = 0
    BY <2>1 DEF IdInv, StreamIsLive, Known
  <2> QED BY <1>3, <2>1, <2>2 DEF HandleInvite
<1>4. ASSUME HandleStart(c, i)
      PROVE  /\ calls'[c].pc = "persistStart" /\ stream' = stream
             /\ assignments[i].state = "pending" /\ assignments'[i].state = "active"
  <2>1. /\ assignments[i].state = "pending"
        /\ assignments' = [assignments EXCEPT ![i] = Assignment("active", @.born, assignments[i].result)]
    BY <1>4, TransitionEffect DEF HandleStart
  <2> QED BY <1>4, <2>1 DEF HandleStart, Assignment
<1>5. ASSUME CancelDelegation(c, i)
      PROVE  /\ calls'[c].pc = "persistCancel" /\ assignments'[i].state = "error"
             /\ IF stream[i].on = 0 THEN stream'[i] = stream[i]
                ELSE stream'[i].on = 0 /\ stream'[i].heard = "error"
  <2>1. /\ assignments[i].state \in {"pending", "active"}
        /\ assignments' = [assignments EXCEPT ![i] = Assignment("error", @.born, assignments[i].result)]
    BY <1>5, TransitionEffect DEF CancelDelegation
  <2>2. eventEmitters[i] = 1 /\ (stream[i].on # 0 => stream[i].on = 1)
    BY <2>1 DEF IdInv, OneObject, StreamAgrees, Known
  <2>3. Emit(i, eventEmitters[i], "error") /\ AwaitSave(c, "persistCancel", i)
    BY <1>5 DEF CancelDelegation
  <2>4. assignments'[i].state = "error"
    BY <2>1 DEF Assignment
  <2> QED BY <2>2, <2>3, <2>4 DEF Emit
<1>6. ASSUME AcknowledgeResult(c, i) \/ SweepExpired(c, i)
      PROVE  /\ calls'[c].pc \in {"unlink", "sweepTransport"} /\ stream' = stream
             /\ assignments'[i].state \in {assignments[i].state, "absent"}
  BY <1>6 DEF AcknowledgeResult, SweepExpired, Forget
<1> QED BY <1>2, <1>3, <1>4, <1>5, <1>6

LEMMA LifeReport ==
  ASSUME OnceInv, CleanupOnInitialize, NEW i \in Ids,
         SubscribeTask(i) \/ Unsubscribe(i) \/ Crash \/ Initialize
  PROVE  /\ minted' = minted
         /\ Crash => /\ ~up' /\ assignments'[i].state = "absent"
                     /\ \A c \in Calls : calls'[c] = Idle
                     /\ IF stream[i].on = 0 THEN stream'[i] = stream[i]
                        ELSE stream'[i] = [on |-> 0, heard |-> "lost"]
         /\ ~Crash => calls' = calls /\ assignments' = assignments /\ up'
         /\ Initialize => stream' = stream
         /\ Unsubscribe(i) => stream'[i] = [on |-> 0, heard |-> "lost"]
         /\ SubscribeTask(i) =>
              IF assignments[i].state \in {"pending", "active"} THEN stream'[i].on # 0
              ELSE /\ stream'[i].on = 0
                   /\ stream'[i].heard = IF assignments[i].state = "completed"
                                         THEN "done" ELSE "error"
<1>1. /\ IdInv(i) /\ stream \in [Ids -> Streams] /\ ExecutorInv
  BY DEF OnceInv, ExecutorInv, TypeOK
<1>2. CASE Crash
  BY <1>1, <1>2 DEF Crash, Die, NoRecord, Assignment, Initialize, SubscribeTask, Unsubscribe,
     process
<1>3. CASE Initialize
  BY <1>1, <1>3 DEF Initialize, CleanUp, maps, Crash, SubscribeTask, Unsubscribe
<1>4. CASE Unsubscribe(i)
  BY <1>1, <1>4 DEF Unsubscribe, maps, process, Crash, Initialize, Die, SubscribeTask, NoStream
<1>5. CASE SubscribeTask(i)
  <2>1. assignments[i].state \in {"pending", "active"} => eventEmitters[i] = 1
    BY <1>1 DEF IdInv, OneObject, Known
  <2>2. /\ GetTaskResult(i) = "running" <=> assignments[i].state \in {"pending", "active"}
        /\ GetTaskResult(i) = "completed" <=> assignments[i].state = "completed"
    BY <1>1, TerminalRecord
  <2>3. ~Crash /\ ~Initialize /\ ~Unsubscribe(i)
    BY <1>5 DEF SubscribeTask, Crash, Initialize, Unsubscribe, Die, NoStream, process
  <2> QED BY <1>1, <1>5, <2>1, <2>2, <2>3 DEF SubscribeTask, maps, process
<1> QED BY <1>2, <1>3, <1>4, <1>5
=============================================================================
