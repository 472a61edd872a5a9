------------------------ MODULE DelegatorServiceProofs ------------------------
(***************************************************************************)
(* Proofs about DelegatorService, for every set of ids, every number of    *)
(* calls in flight and every choice of its constants.                      *)
(***************************************************************************)
EXTENDS DelegatorService, TLAPS

(***************************************************************************)
(* Types.                                                                  *)
(***************************************************************************)
Contexts == [pc : Pcs, id : Ids \cup {NoId}, resume : BOOLEAN, content : States]

\* An accepted event leads to the state it asks for.
LEMMA AcceptedTransition ==
  ASSUME NEW s, NEW e, NEW t \in DelegationNext(s, e)
  PROVE  /\ t \in DelegationStates
         /\ s \in DelegationStates => s \notin {"completed", "error", "cancelled", "expired"}
         /\ e = "RECEIVE_ACCEPT" => t = "accepted"
         /\ e = "SEND_START" => t = "started" /\ s = "accepted"
         /\ e = "SETUP_COMPLETE" => t = "running" /\ s = "started"
         /\ e = "RECEIVE_ERROR" => t = "error"
         /\ e = "CANCEL" => t = "cancelled"
  BY DEF DelegationNext, DelegationTarget, DelegationStates, DelegationTransitions

LEMMA TerminalStates ==
  ASSUME NEW s \in DelegationStates
  PROVE  /\ IsTerminalDelegation(s) <=> s \in {"completed", "error", "cancelled", "expired"}
         /\ IsTerminalDelegation(s) => \A e : DelegationNext(s, e) = {}
  BY DEF DelegationStates, IsTerminalDelegation, DelegationTransitions, DelegationNext

LEMMA CallTyped ==
  ASSUME NEW pc \in Pcs, NEW id \in Ids \cup {NoId}, NEW resume \in BOOLEAN,
         NEW content \in States
  PROVE  Call(pc, id, resume, content) \in Contexts
  BY DEF Call, Contexts

LEMMA IdleTyped == Idle \in Contexts
  BY CallTyped DEF Idle, Pcs, States

LEMMA ContextFields ==
  ASSUME NEW k \in Contexts
  PROVE  /\ k.pc \in Pcs /\ k.id \in Ids \cup {NoId} /\ k.resume \in BOOLEAN
         /\ k.content \in States
  BY DEF Contexts

LEMMA ReturnTyped ==
  ASSUME TypeOK, NEW c \in Calls, Return(c)
  PROVE  calls' \in [Calls -> Contexts]
  BY IdleTyped DEF TypeOK, Return, Contexts

LEMMA AwaitTyped ==
  ASSUME TypeOK, NEW c \in Calls, NEW pc \in Pcs, Await(c, pc)
  PROVE  calls' \in [Calls -> Contexts]
  BY ContextFields, CallTyped DEF TypeOK, Await, Contexts, States

LEMMA SpawnTyped ==
  ASSUME TypeOK, NEW c \in Calls, NEW pc \in Pcs, NEW id \in Ids \cup {NoId}, Spawn(c, pc, id)
  PROVE  calls' \in [Calls -> Contexts]
  BY CallTyped DEF TypeOK, Spawn, Contexts, States

LEMMA AwaitSaveTyped ==
  ASSUME TypeOK, NEW c \in Calls, NEW pc \in Pcs, NEW id \in Ids,
         delegations' \in [Ids -> States], AwaitSave(c, pc, id)
  PROVE  calls' \in [Calls -> Contexts]
  BY ContextFields, CallTyped DEF TypeOK, AwaitSave, Contexts

MapsTyped == delegations \in [Ids -> States] /\ stateMachines \in [Ids -> States]

LEMMA TransitionTyped ==
  ASSUME TypeOK, NEW id \in Ids, NEW e, Transition(id, e)
  PROVE  MapsTyped'
  BY AcceptedTransition DEF TypeOK, Transition, MapsTyped, States

LEMMA ForgetTyped ==
  ASSUME TypeOK, NEW id, Forget(id)
  PROVE  MapsTyped'
  BY DEF TypeOK, Forget, MapsTyped, States

\* The call slots, and every file a save() may leave behind, are of the type.
LEMMA LandedTyped ==
  ASSUME TypeOK, NEW c \in Calls, disk' \in Landed(c)
  PROVE  disk' \in [Ids -> States]
<1>1. calls[c].content \in States /\ disk \in [Ids -> States]
  BY ContextFields DEF TypeOK, Contexts
<1>2. \A id : Known(id) /\ id \in Ids => delegations[id] \in States
  BY DEF TypeOK
<1> QED BY <1>1, <1>2 DEF Landed, TypeOK

LEMMA PcsListed ==
  /\ {"idle", "doneDetach", "doneEnvironment", "sendCancel", "cancelDetach",
      "sweepTransport", "sweepEnvironment", "sweepSnapshots", "sweepFile"} \subseteq Pcs
  /\ {"persistDeclined", "persistSnapshot", "persistDone", "persistError",
      "persistLost", "persistCancel"} \subseteq Pcs
  /\ {"resumeDetach", "validate", "build", "invite", "prepare", "connect",
      "start", "acceptDetach"} \subseteq Pcs
  /\ {"undoDetach", "undoTransport", "undoEnvironment", "undoFile"} \subseteq Pcs
  /\ {"consume", "receive", "ack"} \subseteq Pcs
  BY DEF Pcs, PersistPoints, Starting, Undoing, Consuming

LEMMA UndoTyped ==
  ASSUME TypeOK, NEW c \in Calls, Undo(c)
  PROVE  calls' \in [Calls -> Contexts] /\ MapsTyped'
<1>1. {"undoDetach", "undoTransport"} \subseteq Pcs
  BY DEF Pcs, Undoing
<1> QED BY <1>1, AwaitTyped, ForgetTyped DEF Undo, maps, TypeOK, MapsTyped

\* A call that is not idle works for a delegation.
Working == \A c \in Calls : calls[c].pc # "idle" => calls[c].id \in Ids

LEMMA StreamLostTyped ==
  ASSUME TypeOK, Working, NEW c \in Calls, calls[c].pc # "idle", StreamLost(c)
  PROVE  calls' \in [Calls -> Contexts] /\ MapsTyped'
<1>1. "persistLost" \in Pcs /\ "error" \in States /\ calls[c].id \in Ids
  BY DEF Pcs, PersistPoints, States, DelegationStates, Working
<1>2. MapsTyped'
  BY <1>1 DEF StreamLost, TypeOK, MapsTyped
<1>3. delegations' \in [Ids -> States]
  BY <1>2 DEF MapsTyped
<1> QED BY <1>1, <1>2, <1>3, ReturnTyped, AwaitSaveTyped DEF StreamLost

LEMMA InitTypeOK == Init => TypeOK
  BY IdleTyped DEF Init, TypeOK, Contexts, States

\* What the actions of the call slots keep of the types: the maps and the
\* slots, by way of their fragments, and the storage.
StorageTyped ==
  /\ disk \in [Ids -> States]
  /\ environments \in SUBSET Ids /\ snapshots \in SUBSET Ids
  /\ prepared \in SUBSET Ids

LEMMA RequestTyped ==
  ASSUME TypeOK, NEW c \in Calls, NEW id \in Ids, Request(c, id) \/ Resume(c, id)
  PROVE  TypeOK'
<1>1. CASE Delegate(c, id)
  <2>1. calls' \in [Calls -> Contexts]
    BY <1>1, SpawnTyped, PcsListed DEF Delegate
  <2> QED BY <1>1, <2>1 DEF Delegate, TypeOK, Contexts, maps, storage
<1>2. CASE Cancel(c, id)
  <2>1. MapsTyped'
    BY <1>2, TransitionTyped DEF Cancel
  <2>2. calls' \in [Calls -> Contexts]
    BY <1>2, <2>1, AwaitSaveTyped, PcsListed DEF Cancel, MapsTyped
  <2> QED BY <1>2, <2>1, <2>2 DEF Cancel, TypeOK, MapsTyped, Contexts, process, storage
<1>3. CASE SweepExpired(c, id)
  <2>1. calls' \in [Calls -> Contexts]
    BY <1>3, SpawnTyped, PcsListed DEF SweepExpired
  <2> QED BY <1>3, <2>1 DEF SweepExpired, TypeOK, Contexts, process, maps, storage
<1>4. CASE Resume(c, id)
  <2>1. calls' \in [Calls -> Contexts]
    BY <1>4, CallTyped, PcsListed DEF Resume, TypeOK, Contexts, States
  <2> QED BY <1>4, <2>1 DEF Resume, TypeOK, Contexts, maps, storage
<1> QED BY <1>1, <1>2, <1>3, <1>4 DEF Request

\* The slots and the maps after a step of delegate().
LEMMA StartMapsTyped ==
  ASSUME TypeOK, Working, NEW c \in Calls, Start(c)
  PROVE  calls' \in [Calls -> Contexts] /\ MapsTyped' /\ UNCHANGED process
<1> USE PcsListed
<1>0. UNCHANGED maps => MapsTyped'
  BY DEF TypeOK, MapsTyped, maps
<1>1. CASE ResumeDetached(c)
  <2>1. "created" \in States
    BY DEF States, DelegationStates
  <2> QED BY <1>1, <2>1, AwaitTyped DEF ResumeDetached, TypeOK, MapsTyped
<1>2. CASE ValidationFails(c) \/ Validated(c)
  BY <1>0, <1>2, ReturnTyped, AwaitTyped DEF ValidationFails, Validated
<1>3. CASE Built(c)
  <2>1. "invited" \in States
    BY DEF States, DelegationStates
  <2> QED BY <1>3, <2>1, AwaitTyped DEF Built, TypeOK, MapsTyped
<1>4. CASE EnvironmentExists(c) \/ BuildFails(c) \/ InviteFails(c) \/ DeclinePersisted(c)
           \/ AcceptDetached(c)
  BY <1>4, UndoTyped DEF EnvironmentExists, BuildFails, InviteFails,
     DeclinePersisted, AcceptDetached
<1>5. CASE InviteAccepted(c)
  BY <1>5, UndoTyped, TransitionTyped, AwaitTyped DEF InviteAccepted, Working, At
<1>6. CASE InviteDeclined(c)
  <2>1. CASE Undo(c)
    BY <1>6, <2>1, UndoTyped DEF InviteDeclined
  <2>2. CASE Transition(calls[c].id, "RECEIVE_ERROR") /\ AwaitSave(c, "persistDeclined", calls[c].id)
    <3>1. calls[c].id \in Ids
      BY <1>6 DEF InviteDeclined, Working, At
    <3>2. MapsTyped'
      BY <2>2, <3>1, TransitionTyped
    <3> QED BY <1>6, <2>2, <3>1, <3>2, AwaitSaveTyped DEF InviteDeclined, MapsTyped
  <2> QED BY <1>6, <2>1, <2>2 DEF InviteDeclined
<1>7. CASE StreamConnected(c)
  BY <1>0, <1>7, TransitionTyped, AwaitTyped DEF StreamConnected, Working, At
<1>8. CASE TransportPrepared(c) \/ AcceptFails(c) \/ UndoDetached(c) \/ UndoTransport(c)
  BY <1>0, <1>8, AwaitTyped DEF TransportPrepared, AcceptFails, UndoDetached, UndoTransport
<1>9. CASE StartSent(c)
  BY <1>0, <1>9, SpawnTyped DEF StartSent, Working, At
<1>10. CASE UndoEnvironment(c) \/ UndoFile(c)
  BY <1>0, <1>10, ReturnTyped, AwaitTyped DEF UndoEnvironment, UndoFile
<1> QED BY <1>1, <1>2, <1>3, <1>4, <1>5, <1>6, <1>7, <1>8, <1>9, <1>10 DEF Start

LEMMA ConsumeMapsTyped ==
  ASSUME TypeOK, Working, NEW c \in Calls,
         Consume(c) \/ EventStatus(c) \/ EventSnapshot(c) \/ StreamEnds(c)
  PROVE  calls' \in [Calls -> Contexts] /\ MapsTyped' /\ UNCHANGED process
<1> USE PcsListed
<1>0. UNCHANGED maps => MapsTyped'
  BY DEF TypeOK, MapsTyped, maps
<1>1. CASE SnapshotReceived(c)
  <2>1. calls[c].id \in Ids /\ MapsTyped'
    BY <1>0, <1>1 DEF SnapshotReceived, Working, At
  <2> QED BY <1>1, <2>1, AwaitSaveTyped DEF SnapshotReceived, MapsTyped
<1>2. CASE ReceiveFails(c) \/ StreamBreaks(c)
  BY <1>2, StreamLostTyped DEF ReceiveFails, StreamBreaks, At
<1>3. CASE \/ SnapshotPersisted(c) \/ EventDone(c) \/ DonePersisted(c) \/ DoneDetached(c)
           \/ DoneEnvironment(c) \/ EndPersisted(c) \/ EventSnapshot(c) \/ StreamEnds(c)
  BY <1>0, <1>3, ReturnTyped, AwaitTyped DEF SnapshotPersisted, EventDone, DonePersisted,
     DoneDetached, DoneEnvironment, EndPersisted, EventSnapshot, StreamEnds
<1>4. CASE Acknowledged(c)
  <2>1. CASE StreamLost(c)
    BY <1>4, <2>1, StreamLostTyped DEF Acknowledged, At
  <2>2. CASE ~StreamLost(c)
    <3>1. calls[c].id \in Ids /\ "completed" \in States
      BY <1>4 DEF Acknowledged, Working, At, States, DelegationStates
    <3>2. MapsTyped' /\ AwaitSave(c, "persistDone", calls[c].id)
      BY <1>4, <2>2, <3>1 DEF Acknowledged, MapsTyped, TypeOK
    <3> QED BY <1>4, <3>1, <3>2, AwaitSaveTyped DEF Acknowledged, MapsTyped
  <2> QED BY <2>1, <2>2
<1>5. CASE EventError(c)
  <2>1. CASE StreamLost(c)
    BY <1>5, <2>1, StreamLostTyped DEF EventError, At
  <2>2. CASE Return(c) /\ UNCHANGED maps
    BY <1>0, <1>5, <2>2, ReturnTyped DEF EventError
  <2>3. CASE Transition(calls[c].id, "RECEIVE_ERROR") /\ AwaitSave(c, "persistError", calls[c].id)
    <3>1. calls[c].id \in Ids
      BY <1>5 DEF EventError, Working, At
    <3>2. MapsTyped'
      BY <2>3, <3>1, TransitionTyped
    <3> QED BY <1>5, <2>3, <3>1, <3>2, AwaitSaveTyped DEF EventError, MapsTyped
  <2> QED BY <1>5, <2>1, <2>2, <2>3 DEF EventError
<1>6. CASE EventStatus(c)
  BY <1>6, TransitionTyped DEF EventStatus, Working, At, TypeOK, Contexts
<1> QED BY <1>1, <1>2, <1>3, <1>4, <1>5, <1>6 DEF Consume

LEMMA ReclaimMapsTyped ==
  ASSUME TypeOK, Working, NEW c \in Calls, Reclaim(c)
  PROVE  calls' \in [Calls -> Contexts] /\ MapsTyped' /\ UNCHANGED process
<1> USE PcsListed
<1>0. UNCHANGED maps => MapsTyped'
  BY DEF TypeOK, MapsTyped, maps
<1>1. CASE \/ CancelPersisted(c) \/ CancelSent(c) \/ CancelDetached(c)
           \/ SweepTransport(c) \/ SweepEnvironment(c) \/ SweepSnapshots(c)
  BY <1>0, <1>1, ReturnTyped, AwaitTyped DEF CancelPersisted, CancelSent, CancelDetached,
     SweepTransport, SweepEnvironment, SweepSnapshots
<1>2. CASE SweepFile(c)
  BY <1>2, ReturnTyped, ForgetTyped DEF SweepFile
<1>3. CASE PersistFails(c)
  <2>1. UNCHANGED process /\ calls[c].pc # "idle"
    BY <1>3 DEF PersistFails, PersistPoints
  <2> QED BY <1>0, <1>3, <2>1, ReturnTyped, UndoTyped, StreamLostTyped DEF PersistFails
<1> QED BY <1>1, <1>2, <1>3 DEF Reclaim

LEMMA StepStorageTyped ==
  ASSUME TypeOK, Working, NEW c \in Calls,
         \/ Start(c) \/ Consume(c) \/ Reclaim(c)
         \/ EventStatus(c) \/ EventSnapshot(c) \/ StreamEnds(c)
  PROVE  StorageTyped'
<1>0. UNCHANGED disk => disk' \in [Ids -> States]
  BY DEF TypeOK
<1>1. disk' \in [Ids -> States]
  <2>1. \/ UNCHANGED disk \/ disk' \in Landed(c)
        \/ disk' = [disk EXCEPT ![calls[c].id] = "absent"]
    BY DEF Start, Consume, Reclaim, EventStatus, EventSnapshot, StreamEnds,
       ResumeDetached, ValidationFails, Validated, Built, EnvironmentExists, BuildFails,
       InviteAccepted, InviteDeclined, InviteFails, DeclinePersisted, TransportPrepared,
       StreamConnected, StartSent, AcceptFails, AcceptDetached, UndoDetached,
       UndoTransport, UndoEnvironment, UndoFile, SnapshotReceived, ReceiveFails,
       SnapshotPersisted, EventDone, Acknowledged, DonePersisted, DoneDetached,
       DoneEnvironment, EventError, StreamBreaks, EndPersisted, CancelPersisted,
       CancelSent, CancelDetached, PersistFails, SweepTransport, SweepEnvironment,
       SweepSnapshots, SweepFile, storage
  <2>2. CASE disk' = [disk EXCEPT ![calls[c].id] = "absent"]
    BY <2>2 DEF TypeOK, States
  <2> QED BY <1>0, <2>1, <2>2, LandedTyped
<1>2. /\ environments' \subseteq environments \cup {calls[c].id}
      /\ prepared' \subseteq prepared \cup {calls[c].id}
      /\ snapshots' \subseteq snapshots \cup {calls[c].id}
    BY DEF Start, Consume, Reclaim, EventStatus, EventSnapshot, StreamEnds,
       ResumeDetached, ValidationFails, Validated, Built, EnvironmentExists, BuildFails,
       InviteAccepted, InviteDeclined, InviteFails, DeclinePersisted, TransportPrepared,
       StreamConnected, StartSent, AcceptFails, AcceptDetached, UndoDetached,
       UndoTransport, UndoEnvironment, UndoFile, SnapshotReceived, ReceiveFails,
       SnapshotPersisted, EventDone, Acknowledged, DonePersisted, DoneDetached,
       DoneEnvironment, EventError, StreamBreaks, EndPersisted, CancelPersisted,
       CancelSent, CancelDetached, PersistFails, SweepTransport, SweepEnvironment,
       SweepSnapshots, SweepFile, storage, Detach
<1>3. calls[c].pc # "idle"
    BY DEF Start, Consume, Reclaim, EventStatus, EventSnapshot, StreamEnds,
       ResumeDetached, ValidationFails, Validated, Built, EnvironmentExists, BuildFails,
       InviteAccepted, InviteDeclined, InviteFails, DeclinePersisted, TransportPrepared,
       StreamConnected, StartSent, AcceptFails, AcceptDetached, UndoDetached,
       UndoTransport, UndoEnvironment, UndoFile, SnapshotReceived, ReceiveFails,
       SnapshotPersisted, EventDone, Acknowledged, DonePersisted, DoneDetached,
       DoneEnvironment, EventError, StreamBreaks, EndPersisted, CancelPersisted,
       CancelSent, CancelDetached, PersistFails, SweepTransport, SweepEnvironment,
       SweepSnapshots, SweepFile, At, PersistPoints
<1> QED BY <1>1, <1>2, <1>3 DEF StorageTyped, TypeOK, Working

(***************************************************************************)
(* A step of an await moves one slot, which stays with its delegation.     *)
(***************************************************************************)
SlotStep(c) ==
  /\ calls[c].pc # "idle"
  /\ \A d \in Calls \ {c} : calls'[d] = calls[d]
  /\ \/ calls'[c] = Idle
     \/ /\ calls'[c].pc # "idle" /\ calls'[c].id = calls[c].id
        /\ calls'[c].resume => calls[c].resume

\* The fragments move a slot.
LEMMA FragmentSlots ==
  ASSUME TypeOK, NEW c \in Calls, calls[c].pc # "idle", NEW pc, pc # "idle"
  PROVE  /\ Return(c) => SlotStep(c)
         /\ Await(c, pc) => SlotStep(c)
         /\ AwaitSave(c, pc, calls[c].id) => SlotStep(c)
         /\ Spawn(c, pc, calls[c].id) => SlotStep(c)
  BY DEF TypeOK, Return, Await, AwaitSave, Spawn, SlotStep, Call

LEMMA UndoSlot ==
  ASSUME TypeOK, NEW c \in Calls, calls[c].pc # "idle", Undo(c)
  PROVE  SlotStep(c)
  BY FragmentSlots DEF Undo

LEMMA StreamLostSlot ==
  ASSUME TypeOK, NEW c \in Calls, calls[c].pc # "idle", StreamLost(c)
  PROVE  SlotStep(c)
  BY FragmentSlots DEF StreamLost

LEMMA StepSlot ==
  ASSUME TypeOK, NEW c \in Calls,
         \/ Start(c) \/ Consume(c) \/ Reclaim(c) \/ EventSnapshot(c) \/ StreamEnds(c)
  PROVE  SlotStep(c)
<1>1. CASE Start(c)
  <2>1. calls[c].pc # "idle"
    BY <1>1 DEF Start, ResumeDetached, ValidationFails, Validated, Built,
       EnvironmentExists, BuildFails, InviteAccepted, InviteDeclined, InviteFails,
       DeclinePersisted, TransportPrepared, StreamConnected, StartSent, AcceptFails,
       AcceptDetached, UndoDetached, UndoTransport, UndoEnvironment, UndoFile, At
  <2> QED BY <1>1, <2>1, FragmentSlots, UndoSlot DEF Start, ResumeDetached,
       ValidationFails, Validated, Built, EnvironmentExists, BuildFails, InviteAccepted,
       InviteDeclined, InviteFails, DeclinePersisted, TransportPrepared, StreamConnected,
       StartSent, AcceptFails, AcceptDetached, UndoDetached, UndoTransport,
       UndoEnvironment, UndoFile
<1>2. CASE Consume(c) \/ EventSnapshot(c) \/ StreamEnds(c)
  <2>1. calls[c].pc # "idle"
    BY <1>2 DEF Consume, SnapshotReceived, ReceiveFails, SnapshotPersisted, EventDone,
       Acknowledged, DonePersisted, DoneDetached, DoneEnvironment, EventError,
       StreamBreaks, EndPersisted, EventSnapshot, StreamEnds, At
  <2> QED BY <1>2, <2>1, FragmentSlots, StreamLostSlot DEF Consume, SnapshotReceived,
       ReceiveFails, SnapshotPersisted, EventDone, Acknowledged, DonePersisted,
       DoneDetached, DoneEnvironment, EventError, StreamBreaks, EndPersisted,
       EventSnapshot, StreamEnds
<1>3. CASE Reclaim(c)
  <2>1. calls[c].pc # "idle"
    BY <1>3 DEF Reclaim, CancelPersisted, CancelSent, CancelDetached, PersistFails,
       SweepTransport, SweepEnvironment, SweepSnapshots, SweepFile, At, PersistPoints
  <2> QED BY <1>3, <2>1, FragmentSlots, UndoSlot, StreamLostSlot DEF Reclaim,
       CancelPersisted, CancelSent, CancelDetached, PersistFails, SweepTransport,
       SweepEnvironment, SweepSnapshots, SweepFile
<1> QED BY <1>1, <1>2, <1>3

LEMMA WorkingKept ==
  ASSUME TypeOK, Working, [Next]_vars
  PROVE  Working'
<1>1. ASSUME NEW c \in Calls, SlotStep(c)
      PROVE  Working'
  BY <1>1 DEF SlotStep, Working, Idle, Call
<1>2. ASSUME NEW c \in Calls, NEW id \in Ids, Request(c, id) \/ Resume(c, id)
      PROVE  Working'
  <2>1. \E k : k.id = id /\ calls' = [calls EXCEPT ![c] = k]
    BY <1>2 DEF Request, Resume, Delegate, Cancel, SweepExpired, Spawn, AwaitSave, Call
  <2> QED BY <2>1 DEF Working, TypeOK
<1>3. ASSUME NEW c \in Calls, EventStatus(c)
      PROVE  Working'
  BY <1>3 DEF EventStatus, Working
<1>4. CASE Crash
  BY <1>4 DEF Crash, Working, Idle, Call
<1>5. CASE Initialize \/ UNCHANGED vars
  BY <1>5 DEF Initialize, Working, vars
<1> QED BY <1>1, <1>2, <1>3, <1>4, <1>5, StepSlot DEF Next

LEMMA TypeKept ==
  ASSUME TypeOK, Working, [Next]_vars
  PROVE  TypeOK'
<1>1. ASSUME NEW c \in Calls,
             \/ Start(c) \/ Consume(c) \/ Reclaim(c)
             \/ EventStatus(c) \/ EventSnapshot(c) \/ StreamEnds(c)
      PROVE  TypeOK'
  <2>1. calls' \in [Calls -> Contexts] /\ MapsTyped' /\ UNCHANGED process
    BY <1>1, StartMapsTyped, ConsumeMapsTyped, ReclaimMapsTyped
  <2>2. StorageTyped'
    BY <1>1, StepStorageTyped
  <2> QED BY <2>1, <2>2 DEF TypeOK, MapsTyped, StorageTyped, process, Contexts
<1>2. CASE Crash
  BY <1>2, IdleTyped DEF Crash, TypeOK, storage, Contexts, States
<1>3. CASE Initialize
  BY <1>3 DEF Initialize, TypeOK, Saved, maps, States
<1>4. CASE UNCHANGED vars
  BY <1>4 DEF TypeOK, vars, process, maps, storage
<1> QED BY <1>1, <1>2, <1>3, <1>4, RequestTyped DEF Next

LEMMA InitWorking == Init => Working
  BY DEF Init, Working, Idle, Call

LEMMA TypedWorking == Spec => [](TypeOK /\ Working)
<1>1. Init => TypeOK /\ Working
  BY InitTypeOK, InitWorking
<1>2. TypeOK /\ Working /\ [Next]_vars => (TypeOK /\ Working)'
  BY TypeKept, WorkingKept
<1> QED BY <1>1, <1>2, PTL DEF Spec

\* Every variable keeps its type: no step takes an id, a state or an await
\* the code does not have.
THEOREM TypeCorrect == Spec => []TypeOK
  BY TypedWorking, PTL

(***************************************************************************)
(* The invariant of one delegation.  An id belongs to the start of the     *)
(* daemon that generated it, or was loaded by initialize(), or is unused.  *)
(***************************************************************************)
\* One delegate() and then one consumer works for an id: its thread.
Thread == Starting \cup Undoing \cup Consuming
          \cup {"persistDone", "doneDetach", "doneEnvironment", "persistError", "persistLost"}
Sweeping == {"sweepTransport", "sweepEnvironment", "sweepSnapshots", "sweepFile"}

\* Slot c is at one of pcs for id.
On(c, id, pcs) == calls[c].id = id /\ calls[c].pc \in pcs
Busy(id, pcs) == \E c \in Calls : On(c, id, pcs)

\* An id nobody generated is nowhere.
FreshIsNowhere(id) ==
  owner[id] = 0 => /\ ~Known(id) /\ \A c \in Calls : calls[c].id # id
                   /\ id \notin environments /\ id \notin prepared

\* What is known, or in flight, is of this run.
PresentIsOwn(id) ==
  Known(id) \/ (\E c \in Calls : calls[c].id = id) => up /\ owner[id] = starts

\* The two maps hold the same ids; a machine that has ended has an ended record.
MapsTogether(id) ==
  /\ stateMachines[id] = "absent" <=> delegations[id] = "absent"
  /\ stateMachines[id] \in {"completed", "error", "cancelled", "expired"} =>
       delegations[id] \in {"completed", "error", "cancelled", "expired"}
  /\ delegations[id] = "completed" => stateMachines[id] = "completed"

OneThread(id) ==
  \A c, d \in Calls : On(c, id, Thread) /\ On(d, id, Thread) => c = d

\* Before its record is made, a delegation is with its delegate() alone.
EarlyIsAlone(id) ==
  \A c \in Calls : On(c, id, {"validate", "build"}) =>
    ~Known(id) /\ \A d \in Calls : calls[d].id = id => d = c

\* Record and machine part only when the thread is through.
ThreadAgrees(id) ==
  Busy(id, Starting \cup Consuming) => delegations[id] = stateMachines[id]

UndoneIsForgotten(id) == Busy(id, Undoing) => ~Known(id)

SweptHasEnded(id) ==
  Busy(id, Sweeping) /\ Known(id) =>
    delegations[id] \in {"completed", "error", "cancelled", "expired"}

CancelHolds(id) ==
  \A c \in Calls : On(c, id, {"persistCancel"}) =>
    calls[c].content = "cancelled" /\ stateMachines[id] \in {"cancelled", "absent"}

EnvironmentHeld(id) ==
  up /\ owner[id] = starts /\ id \in environments =>
    \/ Known(id) /\ ~Busy(id, {"sweepSnapshots", "sweepFile"})
    \/ Busy(id, {"undoTransport", "undoEnvironment"})

PreparedHeld(id) ==
  up /\ owner[id] = starts /\ id \in prepared =>
    \/ Known(id) /\ ~Busy(id, {"sweepEnvironment", "sweepSnapshots", "sweepFile"})
    \/ Busy(id, {"connect", "acceptDetach", "undoTransport"})

\* A completed delegation is being saved, then given up, or both is done.
CompletedHeld(id) ==
  ~DiskFaults /\ delegations[id] = "completed" =>
    \/ \E c \in Calls : On(c, id, {"persistDone"}) /\ calls[c].content = "completed"
    \/ disk[id] = "completed" /\ Busy(id, {"doneDetach"})
    \/ /\ disk[id] = "completed" /\ (DetachReleases => id \notin prepared)
       /\ \/ Busy(id, {"doneEnvironment"})
          \/ ~Busy(id, Thread) /\ id \notin environments

IdInv(id) ==
  /\ FreshIsNowhere(id) /\ PresentIsOwn(id) /\ MapsTogether(id) /\ OneThread(id)
  /\ EarlyIsAlone(id) /\ ThreadAgrees(id) /\ UndoneIsForgotten(id)
  /\ SweptHasEnded(id) /\ CancelHolds(id)
  /\ EnvironmentHeld(id) /\ PreparedHeld(id) /\ CompletedHeld(id)

\* What this start of the daemon generated it does not resume.
NotResumed(id) ==
  /\ id \notin toResume
  /\ \A c \in Calls : calls[c].id = id =>
       ~calls[c].resume /\ calls[c].pc \notin {"resumeDetach", "undoDetach"}

\* An id nobody generated is in no map and on no disk either.
Nowhere(id) ==
  /\ delegations[id] = "absent" /\ stateMachines[id] = "absent" /\ disk[id] = "absent"
  /\ id \notin environments /\ id \notin prepared
  /\ \A c \in Calls : calls[c].id # id

(***************************************************************************)
(* A delegation initialize() loaded, or one that an earlier start knew.    *)
(***************************************************************************)
Early == {"resumeDetach", "validate", "build"}
\* The awaits after which the thread still moves the record.
Moving == Starting \cup Consuming \cup {"persistDone", "persistError"}

Pending(id) ==
  /\ delegations[id] \notin {"absent", "completed", "error", "cancelled", "expired"}
  /\ stateMachines[id] \notin {"completed", "error", "cancelled", "expired"}

\* Its delegate() is a resumption, which never forgets it: only a sweep does,
\* and that of an ended record only.
ResumedIsUndoneKept(id) ==
  /\ ~Busy(id, {"undoTransport", "undoFile"})
  /\ \A c \in Calls :
       On(c, id, Starting \cup {"undoDetach", "undoEnvironment"}) => calls[c].resume

OneMoves(id) ==
  \A c, d \in Calls : On(c, id, Moving) /\ On(d, id, Moving) => c = d

\* Until its record is set back, a resumption is alone with its delegation:
\* no sweep can have begun.
WaitsAlone(id) ==
  /\ id \in toResume => Pending(id) /\ \A c \in Calls : calls[c].id # id
  /\ \A c \in Calls : On(c, id, Early) =>
       Pending(id) /\ \A d \in Calls : calls[d].id = id => d = c

MoverAgrees(id) == Busy(id, Moving \ Early) => delegations[id] = stateMachines[id]

LoadedInv(id) ==
  /\ Known(id) => disk[id] # "absent"
  /\ MapsTogether(id) /\ ResumedIsUndoneKept(id) /\ OneMoves(id) /\ WaitsAlone(id)
  /\ MoverAgrees(id) /\ SweptHasEnded(id)

(***************************************************************************)
(* The invariant of the service.                                           *)
(***************************************************************************)
IdleIsFree == \A c \in Calls : calls[c].pc = "idle" => calls[c].id = NoId /\ ~calls[c].resume

Started == starts \in Nat \ {0} /\ \A id \in Ids : owner[id] <= starts

Awake == TypeOK /\ Working /\ IdleIsFree /\ Started

DownIsEmpty ==
  ~up => /\ toResume = {} /\ \A c \in Calls : calls[c] = Idle
         /\ \A id \in Ids : delegations[id] = "absent"

IdRun(id) ==
  /\ owner[id] = 0 => Nowhere(id)
  /\ owner[id] = starts => IdInv(id) /\ NotResumed(id)
  /\ owner[id] # starts => LoadedInv(id)

RunInv == Awake /\ DownIsEmpty /\ \A id \in Ids : IdRun(id)

OwnInv(id) == Awake /\ IdInv(id) /\ NotResumed(id)

\* Of a daemon that cleans up when it starts: nothing is resumed, and what is
\* known belongs to the running start.
NoResumption ==
  /\ toResume = {}
  /\ \A c \in Calls : ~calls[c].resume /\ calls[c].pc \notin {"resumeDetach", "undoDetach"}

CleanInv ==
  TypeOK /\ Working /\ IdleIsFree /\ Started /\ NoResumption /\ \A id \in Ids : IdInv(id)

\* A step of an await leaves the other delegations alone.
Frame(c) ==
  /\ SlotStep(c) /\ UNCHANGED process
  /\ \A x \in Ids \ {calls[c].id} :
       /\ delegations'[x] = delegations[x] /\ stateMachines'[x] = stateMachines[x]
       /\ disk'[x] = disk[x]
       /\ x \in environments' <=> x \in environments
       /\ x \in prepared' <=> x \in prepared

LEMMA StreamLostMaps ==
  ASSUME TypeOK, NEW c \in Calls, NEW x \in Ids, x # calls[c].id, StreamLost(c)
  PROVE  delegations'[x] = delegations[x] /\ stateMachines'[x] = stateMachines[x]
  BY DEF StreamLost, TypeOK

LEMMA UndoMaps ==
  ASSUME TypeOK, NEW c \in Calls, NEW x \in Ids, x # calls[c].id, Undo(c)
  PROVE  delegations'[x] = delegations[x] /\ stateMachines'[x] = stateMachines[x]
  BY DEF Undo, Forget, maps, TypeOK

LEMMA StepMaps ==
  ASSUME TypeOK, NEW c \in Calls, NEW x \in Ids, x # calls[c].id,
         \/ Start(c) \/ Consume(c) \/ Reclaim(c)
         \/ EventStatus(c) \/ EventSnapshot(c) \/ StreamEnds(c)
  PROVE  delegations'[x] = delegations[x] /\ stateMachines'[x] = stateMachines[x]
<1>1. CASE Start(c)
  BY <1>1, UndoMaps DEF TypeOK, Start, Transition, maps, ResumeDetached, ValidationFails,
     Validated, Built, EnvironmentExists, BuildFails, InviteAccepted, InviteDeclined,
     InviteFails, DeclinePersisted, TransportPrepared, StreamConnected, StartSent,
     AcceptFails, AcceptDetached, UndoDetached, UndoTransport, UndoEnvironment, UndoFile
<1>2. CASE Consume(c) \/ EventStatus(c) \/ EventSnapshot(c) \/ StreamEnds(c)
  BY <1>2, StreamLostMaps DEF TypeOK, Consume, Transition, maps, SnapshotReceived,
     ReceiveFails, SnapshotPersisted, EventDone, Acknowledged, DonePersisted,
     DoneDetached, DoneEnvironment, EventError, StreamBreaks, EndPersisted, EventStatus,
     EventSnapshot, StreamEnds
<1>3. CASE Reclaim(c)
  BY <1>3, StreamLostMaps, UndoMaps DEF TypeOK, Reclaim, Forget, maps, CancelPersisted,
     CancelSent, CancelDetached, PersistFails, SweepTransport, SweepEnvironment,
     SweepSnapshots, SweepFile
<1> QED BY <1>1, <1>2, <1>3

LEMMA StepFrame ==
  ASSUME TypeOK, Working, NEW c \in Calls,
         \/ Start(c) \/ Consume(c) \/ Reclaim(c)
         \/ EventStatus(c) \/ EventSnapshot(c) \/ StreamEnds(c)
  PROVE  Frame(c)
<1>1. SlotStep(c)
  BY StepSlot DEF EventStatus, At, SlotStep
<1>2. UNCHANGED process
  BY StartMapsTyped, ConsumeMapsTyped, ReclaimMapsTyped
<1>3. \A x \in Ids \ {calls[c].id} :
        /\ disk'[x] = disk[x]
        /\ x \in environments' <=> x \in environments
        /\ x \in prepared' <=> x \in prepared
  BY DEF TypeOK, Landed, Detach, storage, Start, Consume, Reclaim, EventStatus,
       EventSnapshot, StreamEnds,
       ResumeDetached, ValidationFails, Validated, Built, EnvironmentExists, BuildFails,
       InviteAccepted, InviteDeclined, InviteFails, DeclinePersisted, TransportPrepared,
       StreamConnected, StartSent, AcceptFails, AcceptDetached, UndoDetached,
       UndoTransport, UndoEnvironment, UndoFile, SnapshotReceived, ReceiveFails,
       SnapshotPersisted, EventDone, Acknowledged, DonePersisted, DoneDetached,
       DoneEnvironment, EventError, StreamBreaks, EndPersisted, CancelPersisted,
       CancelSent, CancelDetached, PersistFails, SweepTransport, SweepEnvironment,
       SweepSnapshots, SweepFile
<1> QED BY <1>1, <1>2, <1>3, StepMaps DEF Frame

\* What a step leaves alone keeps its invariant.
LEMMA UntouchedKept ==
  ASSUME NEW x \in Ids, IdRun(x),
         \A d \in Calls : /\ calls[d].id = x => calls'[d] = calls[d]
                          /\ calls'[d].id = x => calls'[d] = calls[d],
         delegations'[x] = delegations[x], stateMachines'[x] = stateMachines[x],
         disk'[x] = disk[x], x \in environments' <=> x \in environments,
         x \in prepared' <=> x \in prepared, x \in toResume' <=> x \in toResume,
         up' = up, starts' = starts, owner'[x] = owner[x]
  PROVE  IdRun(x)'
<1>1. \A pcs : \A d \in Calls : On(d, x, pcs)' <=> On(d, x, pcs)
  BY DEF On
<1>2. IdInv(x) => IdInv(x)'
  BY <1>1 DEF IdInv, FreshIsNowhere, PresentIsOwn, MapsTogether, OneThread,
   EarlyIsAlone, ThreadAgrees, UndoneIsForgotten, SweptHasEnded, CancelHolds,
   EnvironmentHeld, PreparedHeld, CompletedHeld, Busy, On, Known
<1>3. LoadedInv(x) => LoadedInv(x)'
  BY <1>1 DEF LoadedInv, MapsTogether, ResumedIsUndoneKept, OneMoves, WaitsAlone,
   MoverAgrees, SweptHasEnded, Pending, Busy, On, Known
<1> QED BY <1>2, <1>3 DEF IdRun, Nowhere, NotResumed

LEMMA StartOwn ==
  ASSUME NEW c \in Calls, NEW i \in Ids, OwnInv(i), i = calls[c].id, Start(c)
  PROVE  IdInv(i)'
<1>1. IdInv(i) /\ ~calls[c].resume /\ starts # 0
      /\ calls \in [Calls -> Contexts]
      /\ delegations \in [Ids -> States] /\ stateMachines \in [Ids -> States]
      /\ disk \in [Ids -> States]
      /\ NoId \notin Ids /\ calls[c].pc \notin {"resumeDetach", "undoDetach"}
  BY StepSlot, ConstantsAssumption DEF OwnInv, Awake, Working, NotResumed, TypeOK, Contexts,
     SlotStep, Started
<1> USE <1>1 DEF At, Return, Await, AwaitSave, Spawn, Call, Idle, Known, Forget,
        IdInv, FreshIsNowhere, PresentIsOwn, MapsTogether, OneThread, EarlyIsAlone,
        ThreadAgrees, UndoneIsForgotten, SweptHasEnded, CancelHolds, EnvironmentHeld,
        PreparedHeld, CompletedHeld, Busy, On, Thread, Sweeping, Starting, Consuming,
        Undoing, process, maps, storage
<1>2. CASE ResumeDetached(c)
  BY <1>2 DEF ResumeDetached, Detach
<1>3. CASE ValidationFails(c)
  BY <1>3 DEF ValidationFails
<1>4. CASE Validated(c)
  BY <1>4 DEF Validated
<1>5. CASE Built(c)
  BY <1>5 DEF Built
<1>6. CASE EnvironmentExists(c)
  BY <1>6 DEF EnvironmentExists, Undo
<1>7. CASE BuildFails(c)
  BY <1>7 DEF BuildFails, Undo
<1>8. CASE InviteAccepted(c)
  <2>1. CASE Undo(c)
    BY <1>8, <2>1 DEF InviteAccepted, Undo
  <2>2. CASE Transition(i, "RECEIVE_ACCEPT") /\ Await(c, "prepare")
    <3>1. stateMachines[i] \in DelegationStates
      BY <2>2 DEF Transition, States
    <3>2. stateMachines[i] \notin {"completed", "error", "cancelled", "expired", "absent"}
      BY <2>2, <3>1, AcceptedTransition DEF Transition, DelegationStates
    <3>3. /\ delegations' = [delegations EXCEPT ![i] = "accepted"]
          /\ stateMachines' = [stateMachines EXCEPT ![i] = "accepted"]
          /\ delegations[i] # "absent" /\ calls[c].pc = "invite" /\ UNCHANGED storage
      BY <1>8, <2>2, AcceptedTransition DEF InviteAccepted, Transition
    <3> QED BY <1>8, <2>2, <3>2, <3>3 DEF InviteAccepted
  <2> QED BY <1>8, <2>1, <2>2 DEF InviteAccepted
<1>9. CASE InviteDeclined(c)
  <2>1. CASE Undo(c)
    BY <1>9, <2>1 DEF InviteDeclined, Undo
  <2>2. CASE Transition(i, "RECEIVE_ERROR") /\ AwaitSave(c, "persistDeclined", i)
    <3>1. stateMachines[i] \in DelegationStates
      BY <2>2 DEF Transition, States
    <3>2. stateMachines[i] \notin {"completed", "error", "cancelled", "expired", "absent"}
      BY <2>2, <3>1, AcceptedTransition DEF Transition, DelegationStates
    <3>3. /\ delegations' = [delegations EXCEPT ![i] = "error"]
          /\ stateMachines' = [stateMachines EXCEPT ![i] = "error"]
          /\ delegations[i] # "absent" /\ calls[c].pc = "invite" /\ UNCHANGED storage
      BY <1>9, <2>2, AcceptedTransition DEF InviteDeclined, Transition
    <3> QED BY <1>9, <2>2, <3>2, <3>3 DEF InviteDeclined
  <2> QED BY <1>9, <2>1, <2>2 DEF InviteDeclined
<1>10. CASE InviteFails(c)
  BY <1>10 DEF InviteFails, Undo
<1>11. CASE DeclinePersisted(c)
  BY <1>11 DEF DeclinePersisted, Undo, Landed
<1>12. CASE TransportPrepared(c)
  BY <1>12 DEF TransportPrepared
<1>13. CASE StreamConnected(c)
  BY <1>13, AcceptedTransition DEF StreamConnected, Transition
<1>14. CASE StartSent(c)
  BY <1>14 DEF StartSent
<1>15. CASE AcceptFails(c)
  BY <1>15 DEF AcceptFails
<1>16. CASE AcceptDetached(c)
  BY <1>16 DEF AcceptDetached, Undo, Detach
<1>17. CASE UndoDetached(c)
  BY <1>17 DEF UndoDetached, Detach
<1>18. CASE UndoTransport(c)
  BY <1>18 DEF UndoTransport
<1>19. CASE UndoEnvironment(c)
  BY <1>19 DEF UndoEnvironment
<1>20. CASE UndoFile(c)
  BY <1>20 DEF UndoFile
<1> QED BY <1>2, <1>3, <1>4, <1>5, <1>6, <1>7, <1>8, <1>9, <1>10, <1>11, <1>12, <1>13, <1>14,
           <1>15, <1>16, <1>17, <1>18, <1>19, <1>20 DEF Start

\* What the catch block of the consumer does.
LEMMA StreamLostEffect ==
  ASSUME TypeOK, NEW c \in Calls, NEW i \in Ids, i = calls[c].id, StreamLost(c)
  PROVE  /\ stateMachines' = stateMachines
         /\ \/ /\ delegations[i] \notin {"absent", "completed", "error", "cancelled", "expired"}
               /\ delegations' = [delegations EXCEPT ![i] = "error"]
               /\ calls' = [calls EXCEPT ![c] = Call("persistLost", i, calls[c].resume, "error")]
            \/ /\ delegations[i] \in {"absent", "completed", "error", "cancelled", "expired"}
               /\ delegations' = delegations /\ Return(c)
<1>1. delegations[i] \in DelegationStates =>
        (IsTerminalDelegation(delegations[i]) <=>
           delegations[i] \in {"completed", "error", "cancelled", "expired"})
  BY TerminalStates
<1>2. delegations \in [Ids -> States] /\ calls \in [Calls -> Contexts]
  BY DEF TypeOK, Contexts
<1> QED BY <1>1, <1>2 DEF StreamLost, Known, Ended, AwaitSave, States, Contexts

\* What an accepted error or cancellation does to the maps.
LEMMA EndEffect ==
  ASSUME TypeOK, NEW i \in Ids, MapsTogether(i), NEW e,
         e \in {"RECEIVE_ERROR", "CANCEL"}, Transition(i, e)
  PROVE  /\ stateMachines[i] \notin {"completed", "error", "cancelled", "expired", "absent"}
         /\ delegations[i] # "absent"
         /\ LET t == IF e = "CANCEL" THEN "cancelled" ELSE "error" IN
              /\ delegations' = [delegations EXCEPT ![i] = t]
              /\ stateMachines' = [stateMachines EXCEPT ![i] = t]
<1>1. delegations[i] # "absent" /\ stateMachines[i] \in DelegationStates
  BY DEF Transition, Known, MapsTogether, TypeOK, States
<1>2. stateMachines[i] \notin {"completed", "error", "cancelled", "expired", "absent"}
  BY <1>1, AcceptedTransition DEF Transition, DelegationStates
<1> QED BY <1>1, <1>2, AcceptedTransition DEF Transition

LEMMA StreamLostOwn ==
  ASSUME NEW c \in Calls, NEW i \in Ids, OwnInv(i), i = calls[c].id,
         StreamLost(c), UNCHANGED <<process, storage>>,
         \/ calls[c].pc \in Consuming \cup {"persistError"}
         \/ calls[c].pc = "persistDone" /\ DiskFaults
  PROVE  IdInv(i)'
<1>1. IdInv(i) /\ ~calls[c].resume /\ starts # 0
      /\ calls \in [Calls -> Contexts]
      /\ delegations \in [Ids -> States] /\ stateMachines \in [Ids -> States]
      /\ disk \in [Ids -> States]
      /\ NoId \notin Ids /\ calls[c].pc \notin {"resumeDetach", "undoDetach"}
  BY ConstantsAssumption DEF OwnInv, Awake, Working, NotResumed, TypeOK, Contexts, Started
<1> USE <1>1 DEF At, Return, Await, AwaitSave, Spawn, Call, Idle, Known, Forget,
        IdInv, FreshIsNowhere, PresentIsOwn, MapsTogether, OneThread, EarlyIsAlone,
        ThreadAgrees, UndoneIsForgotten, SweptHasEnded, CancelHolds, EnvironmentHeld,
        PreparedHeld, CompletedHeld, Busy, On, Thread, Sweeping, Starting, Consuming,
        Undoing, process, maps, storage
<1>2. TypeOK
  BY DEF OwnInv, Awake
<1> QED BY <1>2, StreamLostEffect

LEMMA ConsumeOwn ==
  ASSUME NEW c \in Calls, NEW i \in Ids, OwnInv(i), i = calls[c].id,
         Consume(c) \/ EventStatus(c) \/ EventSnapshot(c) \/ StreamEnds(c)
  PROVE  IdInv(i)'
<1>1. IdInv(i) /\ ~calls[c].resume /\ starts # 0
      /\ calls \in [Calls -> Contexts]
      /\ delegations \in [Ids -> States] /\ stateMachines \in [Ids -> States]
      /\ disk \in [Ids -> States]
      /\ NoId \notin Ids /\ calls[c].pc \notin {"resumeDetach", "undoDetach"}
  BY ConstantsAssumption DEF OwnInv, Awake, Working, NotResumed, TypeOK, Contexts, Started
<1> USE <1>1 DEF At, Return, Await, AwaitSave, Spawn, Call, Idle, Known, Forget,
        IdInv, FreshIsNowhere, PresentIsOwn, MapsTogether, OneThread, EarlyIsAlone,
        ThreadAgrees, UndoneIsForgotten, SweptHasEnded, CancelHolds, EnvironmentHeld,
        PreparedHeld, CompletedHeld, Busy, On, Thread, Sweeping, Starting, Consuming,
        Undoing, process, maps, storage
<1>2. CASE ReceiveFails(c) \/ StreamBreaks(c)
  BY <1>2, StreamLostOwn DEF ReceiveFails, StreamBreaks
<1>3. CASE Acknowledged(c)
  <2>1. CASE StreamLost(c)
    BY <1>3, <2>1, StreamLostOwn DEF Acknowledged
  <2>2. CASE ~StreamLost(c)
    BY <1>3, <2>2 DEF Acknowledged
  <2> QED BY <2>1, <2>2
<1>4. CASE EventError(c)
  <2>1. CASE StreamLost(c)
    BY <1>4, <2>1, StreamLostOwn DEF EventError
  <2>2. CASE ~StreamLost(c) /\ Transition(i, "RECEIVE_ERROR")
    <3>1. TypeOK /\ MapsTogether(i)
      BY DEF OwnInv, Awake
    <3>2. /\ stateMachines[i] \notin {"completed", "error", "cancelled", "expired", "absent"}
          /\ delegations[i] # "absent"
          /\ delegations' = [delegations EXCEPT ![i] = "error"]
          /\ stateMachines' = [stateMachines EXCEPT ![i] = "error"]
      BY <2>2, <3>1, EndEffect
    <3>3. AwaitSave(c, "persistError", i) /\ UNCHANGED storage /\ UNCHANGED process
          /\ calls[c].pc = "consume"
      BY <1>4, <2>2, <3>2 DEF EventError, Accepts, Transition
    <3> QED BY <3>2, <3>3
  <2>3. CASE Return(c) /\ UNCHANGED maps
    BY <1>4, <2>3 DEF EventError
  <2> QED BY <1>4, <2>1, <2>2, <2>3 DEF EventError
<1>5. CASE EventStatus(c)
  BY <1>5, AcceptedTransition DEF EventStatus, Transition
<1>6. CASE SnapshotReceived(c)
  BY <1>6 DEF SnapshotReceived
<1>7. CASE SnapshotPersisted(c)
  BY <1>7 DEF SnapshotPersisted, Landed
<1>8. CASE EventDone(c)
  BY <1>8 DEF EventDone
<1>9. CASE DonePersisted(c)
  BY <1>9 DEF DonePersisted, Landed
<1>10. CASE DoneDetached(c)
  BY <1>10 DEF DoneDetached, Detach
<1>11. CASE DoneEnvironment(c)
  BY <1>11 DEF DoneEnvironment
<1>12. CASE EndPersisted(c)
  BY <1>12 DEF EndPersisted, Landed
<1>13. CASE EventSnapshot(c)
  BY <1>13 DEF EventSnapshot
<1>14. CASE StreamEnds(c)
  BY <1>14 DEF StreamEnds
<1> QED BY <1>2, <1>3, <1>4, <1>5, <1>6, <1>7, <1>8, <1>9, <1>10, <1>11, <1>12, <1>13,
           <1>14 DEF Consume

LEMMA ReclaimOwn ==
  ASSUME NEW c \in Calls, NEW i \in Ids, OwnInv(i), i = calls[c].id,
         Reclaim(c)
  PROVE  IdInv(i)'
<1>1. IdInv(i) /\ ~calls[c].resume /\ starts # 0
      /\ calls \in [Calls -> Contexts]
      /\ delegations \in [Ids -> States] /\ stateMachines \in [Ids -> States]
      /\ disk \in [Ids -> States]
      /\ NoId \notin Ids /\ calls[c].pc \notin {"resumeDetach", "undoDetach"}
  BY ConstantsAssumption DEF OwnInv, Awake, Working, NotResumed, TypeOK, Contexts, Started
<1> USE <1>1 DEF At, Return, Await, AwaitSave, Spawn, Call, Idle, Known, Forget,
        IdInv, FreshIsNowhere, PresentIsOwn, MapsTogether, OneThread, EarlyIsAlone,
        ThreadAgrees, UndoneIsForgotten, SweptHasEnded, CancelHolds, EnvironmentHeld,
        PreparedHeld, CompletedHeld, Busy, On, Thread, Sweeping, Starting, Consuming,
        Undoing, process, maps, storage
<1>2. CASE PersistFails(c)
  <2>1. CASE calls[c].pc = "persistDeclined"
    BY <1>2, <2>1 DEF PersistFails, Undo
  <2>2. CASE calls[c].pc \in {"persistSnapshot", "persistDone", "persistError"}
    BY <1>2, <2>2, StreamLostOwn DEF PersistFails
  <2>3. CASE calls[c].pc \in {"persistLost", "persistCancel"}
    BY <1>2, <2>3 DEF PersistFails
  <2> QED BY <1>2, <2>1, <2>2, <2>3 DEF PersistFails
<1>3. CASE CancelPersisted(c)
  BY <1>3 DEF CancelPersisted, Landed
<1>4. CASE CancelSent(c)
  BY <1>4 DEF CancelSent
<1>5. CASE CancelDetached(c)
  BY <1>5 DEF CancelDetached, Detach
<1>6. CASE SweepTransport(c)
  BY <1>6 DEF SweepTransport
<1>7. CASE SweepEnvironment(c)
  BY <1>7 DEF SweepEnvironment
<1>8. CASE SweepSnapshots(c)
  BY <1>8 DEF SweepSnapshots
<1>9. CASE SweepFile(c)
  BY <1>9 DEF SweepFile
<1> QED BY <1>2, <1>3, <1>4, <1>5, <1>6, <1>7, <1>8, <1>9 DEF Reclaim

LEMMA RequestOwn ==
  ASSUME NEW c \in Calls, NEW i \in Ids, OwnInv(i), Request(c, i)
  PROVE  IdInv(i)'
<1>1. IdInv(i) /\ starts # 0 /\ calls \in [Calls -> Contexts] /\ TypeOK
      /\ owner \in [Ids -> Nat]
      /\ delegations \in [Ids -> States] /\ stateMachines \in [Ids -> States]
  BY DEF OwnInv, Awake, TypeOK, Contexts, Started
<1> USE <1>1 DEF At, AwaitSave, Spawn, Call, Known,
        IdInv, FreshIsNowhere, PresentIsOwn, MapsTogether, OneThread, EarlyIsAlone,
        ThreadAgrees, UndoneIsForgotten, SweptHasEnded, CancelHolds, EnvironmentHeld,
        PreparedHeld, CompletedHeld, Busy, On, Thread, Sweeping, Starting, Consuming,
        Undoing, process, maps, storage
<1>2. ASSUME calls[c].pc = "idle"
      PROVE  calls[c].id \notin Ids
  BY <1>2, ConstantsAssumption DEF OwnInv, Awake, IdleIsFree
<1>3. CASE Delegate(c, i)
  BY <1>2, <1>3 DEF Delegate
<1>4. CASE Cancel(c, i)
  <2>1. /\ stateMachines[i] \notin {"completed", "error", "cancelled", "expired", "absent"}
        /\ delegations[i] # "absent"
        /\ delegations' = [delegations EXCEPT ![i] = "cancelled"]
        /\ stateMachines' = [stateMachines EXCEPT ![i] = "cancelled"]
    BY <1>4, EndEffect DEF Cancel
  <2> QED BY <1>2, <1>4, <2>1 DEF Cancel
<1>5. CASE SweepExpired(c, i)
  <2>1. delegations[i] \in {"completed", "error", "cancelled", "expired"}
    BY <1>5, TerminalStates DEF SweepExpired, Ended, States
  <2> QED BY <1>2, <1>5, <2>1 DEF SweepExpired
<1> QED BY <1>3, <1>4, <1>5 DEF Request

LEMMA NowhereOwn ==
  ASSUME NEW x \in Ids, Nowhere(x), NotResumed(x)
  PROVE  IdInv(x)
  BY DEF Nowhere, IdInv, FreshIsNowhere, PresentIsOwn, MapsTogether, OneThread,
     EarlyIsAlone, ThreadAgrees, UndoneIsForgotten, SweptHasEnded, CancelHolds,
     EnvironmentHeld, PreparedHeld, CompletedHeld, Busy, On, Known

(***************************************************************************)
(* A step of an await of a delegation that was loaded.                     *)
(***************************************************************************)
LEMMA StartLoaded ==
  ASSUME NEW c \in Calls, NEW i \in Ids, Awake, LoadedInv(i), i = calls[c].id, Start(c)
  PROVE  LoadedInv(i)' /\ (delegations[i] # "absent" => delegations'[i] # "absent")
<1>1. /\ calls \in [Calls -> Contexts] /\ disk \in [Ids -> States]
      /\ delegations \in [Ids -> States] /\ stateMachines \in [Ids -> States]
      /\ NoId \notin Ids /\ i \notin toResume /\ toResume' = toResume
  BY StepSlot, StepFrame, ConstantsAssumption DEF Awake, TypeOK, Contexts, LoadedInv,
     WaitsAlone, Frame,
     process
<1> USE <1>1 DEF At, Return, Await, AwaitSave, Spawn, Call, Idle, Known, Forget,
        LoadedInv, MapsTogether, ResumedIsUndoneKept, OneMoves, WaitsAlone, MoverAgrees,
        SweptHasEnded, Pending, Busy, On, Early, Moving, Sweeping, Starting, Consuming,
        maps, storage
<1>0. calls[c].pc \in Starting => calls[c].resume
  OBVIOUS
<1>2. CASE ResumeDetached(c)
  BY <1>2 DEF ResumeDetached
<1>3. CASE ValidationFails(c)
  BY <1>3 DEF ValidationFails
<1>4. CASE Validated(c)
  BY <1>4 DEF Validated
<1>5. CASE Built(c)
  BY <1>5 DEF Built
<1>6. CASE EnvironmentExists(c)
  BY <1>0, <1>6 DEF EnvironmentExists, Undo
<1>7. CASE BuildFails(c)
  BY <1>0, <1>7 DEF BuildFails, Undo
<1>8. CASE InviteAccepted(c)
  <2>1. CASE Undo(c)
    BY <1>0, <1>8, <2>1 DEF InviteAccepted, Undo
  <2>2. CASE Transition(i, "RECEIVE_ACCEPT") /\ Await(c, "prepare")
    <3>1. stateMachines[i] \in DelegationStates
      BY <2>2 DEF Transition, States
    <3>2. stateMachines[i] \notin {"completed", "error", "cancelled", "expired", "absent"}
      BY <2>2, <3>1, AcceptedTransition DEF Transition, DelegationStates
    <3>3. /\ delegations' = [delegations EXCEPT ![i] = "accepted"]
          /\ stateMachines' = [stateMachines EXCEPT ![i] = "accepted"]
          /\ delegations[i] # "absent" /\ calls[c].pc = "invite" /\ UNCHANGED storage
      BY <1>8, <2>2, AcceptedTransition DEF InviteAccepted, Transition
    <3> QED BY <1>0, <2>2, <3>2, <3>3
  <2> QED BY <1>8, <2>1, <2>2 DEF InviteAccepted
<1>9. CASE InviteDeclined(c)
  <2>1. CASE Undo(c)
    BY <1>0, <1>9, <2>1 DEF InviteDeclined, Undo
  <2>2. CASE Transition(i, "RECEIVE_ERROR") /\ AwaitSave(c, "persistDeclined", i)
    <3>1. /\ delegations' = [delegations EXCEPT ![i] = "error"]
          /\ stateMachines' = [stateMachines EXCEPT ![i] = "error"]
          /\ delegations[i] # "absent"
      BY <2>2, EndEffect DEF Awake
    <3>2. calls[c].pc = "invite" /\ UNCHANGED storage
      BY <1>9 DEF InviteDeclined
    <3> QED BY <1>0, <2>2, <3>1, <3>2
  <2> QED BY <1>9, <2>1, <2>2 DEF InviteDeclined
<1>10. CASE InviteFails(c)
  BY <1>0, <1>10 DEF InviteFails, Undo
<1>11. CASE DeclinePersisted(c)
  BY <1>0, <1>11 DEF DeclinePersisted, Undo, Landed
<1>12. CASE TransportPrepared(c)
  BY <1>12 DEF TransportPrepared
<1>13. CASE StreamConnected(c)
  <2>1. CASE Transition(i, "SEND_START") /\ Await(c, "start")
    <3>1. /\ delegations' = [delegations EXCEPT ![i] = "started"]
          /\ stateMachines' = [stateMachines EXCEPT ![i] = "started"]
          /\ delegations[i] # "absent" /\ stateMachines[i] = "accepted"
      <4>1. PICK t \in DelegationNext(stateMachines[i], "SEND_START") :
               /\ stateMachines' = [stateMachines EXCEPT ![i] = t]
               /\ delegations' = [delegations EXCEPT ![i] = t]
        BY <2>1 DEF Transition
      <4>2. t = "started" /\ stateMachines[i] = "accepted"
        BY AcceptedTransition
      <4> QED BY <2>1, <4>1, <4>2 DEF Transition
    <3>2. calls[c].pc = "connect" /\ UNCHANGED storage
      BY <1>13 DEF StreamConnected
    <3> QED BY <1>0, <2>1, <3>1, <3>2
  <2>2. CASE Await(c, "acceptDetach") /\ UNCHANGED maps
    BY <1>13, <2>2 DEF StreamConnected
  <2> QED BY <1>13, <2>1, <2>2 DEF StreamConnected
<1>14. CASE StartSent(c)
  BY <1>14 DEF StartSent
<1>15. CASE AcceptFails(c)
  BY <1>15 DEF AcceptFails
<1>16. CASE AcceptDetached(c)
  BY <1>0, <1>16 DEF AcceptDetached, Undo
<1>17. CASE UndoDetached(c)
  BY <1>17 DEF UndoDetached
<1>18. CASE UndoTransport(c)
  BY <1>18 DEF UndoTransport
<1>19. CASE UndoEnvironment(c)
  BY <1>19 DEF UndoEnvironment
<1>20. CASE UndoFile(c)
  BY <1>20 DEF UndoFile
<1> QED BY <1>2, <1>3, <1>4, <1>5, <1>6, <1>7, <1>8, <1>9, <1>10, <1>11, <1>12, <1>13,
  <1>14, <1>15, <1>16, <1>17, <1>18, <1>19, <1>20 DEF Start

LEMMA StreamLostLoaded ==
  ASSUME NEW c \in Calls, NEW i \in Ids, Awake, LoadedInv(i), i = calls[c].id,
         StreamLost(c), UNCHANGED <<process, storage>>,
         calls[c].pc \in Consuming \cup {"persistDone", "persistError"}
  PROVE  LoadedInv(i)' /\ (delegations[i] # "absent" => delegations'[i] # "absent")
<1>1. /\ calls \in [Calls -> Contexts] /\ disk \in [Ids -> States] /\ TypeOK
      /\ delegations \in [Ids -> States] /\ stateMachines \in [Ids -> States]
      /\ NoId \notin Ids /\ i \notin toResume
  BY ConstantsAssumption DEF Awake, TypeOK, Contexts, LoadedInv, WaitsAlone
<1> USE <1>1 DEF Return, Call, Idle, Known,
        LoadedInv, MapsTogether, ResumedIsUndoneKept, OneMoves, WaitsAlone, MoverAgrees,
        SweptHasEnded, Pending, Busy, On, Early, Moving, Sweeping, Starting, Consuming,
        maps, storage, process
<1> QED BY StreamLostEffect

LEMMA ConsumeLoaded ==
  ASSUME NEW c \in Calls, NEW i \in Ids, Awake, LoadedInv(i), i = calls[c].id,
         Consume(c) \/ EventStatus(c) \/ EventSnapshot(c) \/ StreamEnds(c)
  PROVE  LoadedInv(i)' /\ (delegations[i] # "absent" => delegations'[i] # "absent")
<1>1. /\ calls \in [Calls -> Contexts] /\ disk \in [Ids -> States] /\ TypeOK
      /\ delegations \in [Ids -> States] /\ stateMachines \in [Ids -> States]
      /\ NoId \notin Ids /\ i \notin toResume
  BY ConstantsAssumption DEF Awake, TypeOK, Contexts, LoadedInv, WaitsAlone
<1> USE <1>1 DEF At, Return, Await, AwaitSave, Spawn, Call, Idle, Known, Forget,
        LoadedInv, MapsTogether, ResumedIsUndoneKept, OneMoves, WaitsAlone, MoverAgrees,
        SweptHasEnded, Pending, Busy, On, Early, Moving, Sweeping, Starting, Consuming,
        maps, storage, process
<1>2. CASE ReceiveFails(c) \/ StreamBreaks(c)
  BY <1>2, StreamLostLoaded DEF ReceiveFails, StreamBreaks
<1>3. CASE Acknowledged(c)
  <2>1. CASE StreamLost(c)
    BY <1>3, <2>1, StreamLostLoaded DEF Acknowledged
  <2>2. CASE ~StreamLost(c)
    BY <1>3, <2>2 DEF Acknowledged
  <2> QED BY <2>1, <2>2
<1>4. CASE EventError(c)
  <2>1. CASE StreamLost(c)
    BY <1>4, <2>1, StreamLostLoaded DEF EventError
  <2>2. CASE Transition(i, "RECEIVE_ERROR") /\ ~StreamLost(c)
    <3>1. /\ delegations' = [delegations EXCEPT ![i] = "error"]
          /\ stateMachines' = [stateMachines EXCEPT ![i] = "error"]
          /\ delegations[i] # "absent"
      BY <2>2, EndEffect
    <3>2. AwaitSave(c, "persistError", i) /\ UNCHANGED storage /\ UNCHANGED process
          /\ calls[c].pc = "consume"
      BY <1>4, <2>2, <3>1 DEF EventError
    <3> QED BY <3>1, <3>2
  <2>3. CASE Return(c) /\ UNCHANGED maps
    BY <1>4, <2>3 DEF EventError
  <2> QED BY <1>4, <2>1, <2>2, <2>3 DEF EventError
<1>5. CASE EventStatus(c)
  <2>1. PICK t \in DelegationNext(stateMachines[i], "SETUP_COMPLETE") :
          /\ stateMachines' = [stateMachines EXCEPT ![i] = t]
          /\ delegations' = [delegations EXCEPT ![i] = t]
    BY <1>5 DEF EventStatus, Transition
  <2>2. t = "running" /\ stateMachines[i] = "started"
    BY AcceptedTransition
  <2> QED BY <1>5, <2>1, <2>2 DEF EventStatus
<1>6. CASE SnapshotReceived(c)
  BY <1>6 DEF SnapshotReceived
<1>7. CASE SnapshotPersisted(c)
  BY <1>7 DEF SnapshotPersisted, Landed
<1>8. CASE EventDone(c)
  BY <1>8 DEF EventDone
<1>9. CASE DonePersisted(c)
  BY <1>9 DEF DonePersisted, Landed
<1>10. CASE DoneDetached(c)
  BY <1>10 DEF DoneDetached
<1>11. CASE DoneEnvironment(c)
  BY <1>11 DEF DoneEnvironment
<1>12. CASE EndPersisted(c)
  BY <1>12 DEF EndPersisted, Landed
<1>13. CASE EventSnapshot(c)
  BY <1>13 DEF EventSnapshot
<1>14. CASE StreamEnds(c)
  BY <1>14 DEF StreamEnds
<1> QED BY <1>2, <1>3, <1>4, <1>5, <1>6, <1>7, <1>8, <1>9, <1>10, <1>11, <1>12, <1>13,
           <1>14 DEF Consume

\* A sweep alone forgets it.
LEMMA ReclaimLoaded ==
  ASSUME NEW c \in Calls, NEW i \in Ids, Awake, LoadedInv(i), i = calls[c].id, Reclaim(c)
  PROVE  /\ LoadedInv(i)'
         /\ delegations[i] \notin {"absent", "completed", "error", "cancelled", "expired"}
              => delegations'[i] # "absent"
<1>1. /\ calls \in [Calls -> Contexts] /\ disk \in [Ids -> States]
      /\ delegations \in [Ids -> States] /\ stateMachines \in [Ids -> States]
      /\ NoId \notin Ids /\ i \notin toResume
  BY ConstantsAssumption DEF Awake, TypeOK, Contexts, LoadedInv, WaitsAlone
<1> USE <1>1 DEF At, Return, Await, AwaitSave, Spawn, Call, Idle, Known, Forget,
        LoadedInv, MapsTogether, ResumedIsUndoneKept, OneMoves, WaitsAlone, MoverAgrees,
        SweptHasEnded, Pending, Busy, On, Early, Moving, Sweeping, Starting, Consuming,
        maps, storage, process
<1>2. CASE PersistFails(c)
  <2>1. CASE calls[c].pc = "persistDeclined"
    BY <1>2, <2>1 DEF PersistFails, Undo
  <2>2. CASE calls[c].pc \in {"persistSnapshot", "persistDone", "persistError"}
    BY <1>2, <2>2, StreamLostLoaded DEF PersistFails
  <2>3. CASE calls[c].pc \in {"persistLost", "persistCancel"}
    BY <1>2, <2>3 DEF PersistFails
  <2> QED BY <1>2, <2>1, <2>2, <2>3 DEF PersistFails
<1>3. CASE CancelPersisted(c)
  BY <1>3 DEF CancelPersisted, Landed
<1>4. CASE CancelSent(c)
  BY <1>4 DEF CancelSent
<1>5. CASE CancelDetached(c)
  BY <1>5 DEF CancelDetached
<1>6. CASE SweepTransport(c)
  BY <1>6 DEF SweepTransport
<1>7. CASE SweepEnvironment(c)
  BY <1>7 DEF SweepEnvironment
<1>8. CASE SweepSnapshots(c)
  BY <1>8 DEF SweepSnapshots
<1>9. CASE SweepFile(c)
  BY <1>9 DEF SweepFile
<1> QED BY <1>2, <1>3, <1>4, <1>5, <1>6, <1>7, <1>8, <1>9 DEF Reclaim

\* A request, or the resumption that initialize() begins.
LEMMA RequestLoaded ==
  ASSUME NEW c \in Calls, NEW i \in Ids, Awake, LoadedInv(i),
         Cancel(c, i) \/ SweepExpired(c, i) \/ Resume(c, i)
  PROVE  LoadedInv(i)' /\ (delegations[i] # "absent" => delegations'[i] # "absent")
<1>1. /\ calls \in [Calls -> Contexts] /\ disk \in [Ids -> States] /\ TypeOK
      /\ delegations \in [Ids -> States] /\ stateMachines \in [Ids -> States]
      /\ NoId \notin Ids
  BY ConstantsAssumption DEF Awake, TypeOK, Contexts
<1> USE <1>1 DEF At, AwaitSave, Spawn, Call, Known,
        LoadedInv, MapsTogether, ResumedIsUndoneKept, OneMoves, WaitsAlone, MoverAgrees,
        SweptHasEnded, Pending, Busy, On, Early, Moving, Sweeping, Starting, Consuming,
        maps, storage, process
<1>2. calls[c].pc = "idle" => calls[c].id # i
  BY ConstantsAssumption DEF Awake, IdleIsFree
<1>3. CASE Cancel(c, i)
  <2>1. /\ delegations' = [delegations EXCEPT ![i] = "cancelled"]
        /\ stateMachines' = [stateMachines EXCEPT ![i] = "cancelled"]
        /\ delegations[i] # "absent"
    BY <1>3, EndEffect DEF Cancel
  <2>2. toResume = {} /\ \A d \in Calls : ~calls[d].resume
    BY <1>3 DEF Cancel, Serving, Resuming
  <2>3. ~Busy(i, Starting)
    BY <2>2
  <2> QED BY <1>2, <1>3, <2>1, <2>2, <2>3 DEF Cancel
<1>4. CASE SweepExpired(c, i)
  <2>1. delegations[i] \in {"completed", "error", "cancelled", "expired"}
    BY <1>4, TerminalStates DEF SweepExpired, Ended, States
  <2> QED BY <1>2, <1>4, <2>1 DEF SweepExpired
<1>5. CASE Resume(c, i)
  BY <1>2, <1>5 DEF Resume
<1> QED BY <1>3, <1>4, <1>5

(***************************************************************************)
(* The invariant is inductive.                                             *)
(***************************************************************************)
\* A call of this start stays one that is not resumed.
LEMMA NeverResumed ==
  ASSUME TypeOK, NEW c \in Calls, NEW i \in Ids, NotResumed(i), i = calls[c].id,
         \/ Start(c) \/ Consume(c) \/ Reclaim(c)
         \/ EventStatus(c) \/ EventSnapshot(c) \/ StreamEnds(c)
  PROVE  calls'[c].pc \notin {"resumeDetach", "undoDetach"}
<1>1. ~calls[c].resume /\ calls[c].pc \notin {"resumeDetach", "undoDetach"}
  BY DEF NotResumed
<1> USE <1>1 DEF TypeOK, Return, Await, AwaitSave, Spawn, Call, Idle
<1>2. Undo(c) => calls'[c].pc \notin {"resumeDetach", "undoDetach"}
  BY DEF Undo
<1>3. StreamLost(c) => calls'[c].pc \notin {"resumeDetach", "undoDetach"}
  BY DEF StreamLost
<1>4. CASE Start(c)
  BY <1>2, <1>4 DEF At, Start, ResumeDetached, ValidationFails, Validated, Built,
     EnvironmentExists, BuildFails, InviteAccepted, InviteDeclined, InviteFails,
     DeclinePersisted, TransportPrepared, StreamConnected, StartSent, AcceptFails,
     AcceptDetached, UndoDetached, UndoTransport, UndoEnvironment, UndoFile
<1>5. CASE Consume(c) \/ EventStatus(c) \/ EventSnapshot(c) \/ StreamEnds(c)
  BY <1>3, <1>5 DEF Consume, SnapshotReceived, ReceiveFails, SnapshotPersisted, EventDone,
     Acknowledged, DonePersisted, DoneDetached, DoneEnvironment, EventError,
     StreamBreaks, EndPersisted, EventStatus, EventSnapshot, StreamEnds
<1>6. CASE Reclaim(c)
  BY <1>2, <1>3, <1>6 DEF Reclaim, CancelPersisted, CancelSent, CancelDetached,
     PersistFails, SweepTransport, SweepEnvironment, SweepSnapshots, SweepFile
<1> QED BY <1>4, <1>5, <1>6

LEMMA StepRun ==
  ASSUME RunInv, NEW c \in Calls, NEW x \in Ids,
         \/ Start(c) \/ Consume(c) \/ Reclaim(c)
         \/ EventStatus(c) \/ EventSnapshot(c) \/ StreamEnds(c)
  PROVE  IdRun(x)'
<1>1. Frame(c) /\ Awake /\ TypeOK /\ Working /\ IdRun(x)
  BY StepFrame DEF RunInv, Awake
<1>2. CASE x = calls[c].id
  <2>1. owner[x] # 0 /\ owner' = owner /\ starts' = starts /\ toResume' = toResume
    BY <1>1, <1>2 DEF IdRun, Nowhere, Frame, process
  <2>2. CASE owner[x] = starts
    <3>1. OwnInv(x)
      BY <1>1, <2>2 DEF IdRun, OwnInv
    <3>2. IdInv(x)'
      BY <1>2, <3>1, StartOwn, ConsumeOwn, ReclaimOwn
    <3>3. calls'[c].pc \notin {"resumeDetach", "undoDetach"} /\ NotResumed(x)
      BY <1>1, <1>2, <3>1, NeverResumed DEF OwnInv
    <3>4. NotResumed(x)'
      BY <1>1, <1>2, <2>1, <3>3, ConstantsAssumption DEF NotResumed, Frame, SlotStep, Idle, Call
    <3> QED BY <2>1, <2>2, <3>2, <3>4 DEF IdRun
  <2>3. CASE owner[x] # starts
    <3>1. LoadedInv(x)
      BY <1>1, <2>3 DEF IdRun
    <3>2. LoadedInv(x)'
      BY <1>1, <1>2, <3>1, StartLoaded, ConsumeLoaded, ReclaimLoaded
    <3> QED BY <2>1, <2>3, <3>2 DEF IdRun
  <2> QED BY <2>2, <2>3
<1>3. CASE x # calls[c].id
  <2>1. \A d \in Calls : /\ calls[d].id = x => calls'[d] = calls[d]
                         /\ calls'[d].id = x => calls'[d] = calls[d]
    BY <1>1, <1>3, ConstantsAssumption DEF Frame, SlotStep, Idle, Call
  <2> QED BY <1>1, <1>3, <2>1, UntouchedKept DEF Frame, process
<1> QED BY <1>2, <1>3

LEMMA RequestRun ==
  ASSUME RunInv, NEW c \in Calls, NEW i \in Ids, Request(c, i) \/ Resume(c, i),
         NEW x \in Ids
  PROVE  IdRun(x)'
<1>1. Awake /\ IdRun(x) /\ IdRun(i) /\ calls[c].pc = "idle" /\ calls[c].id \notin Ids
  BY ConstantsAssumption DEF RunInv, Awake, IdleIsFree, Request, Delegate, Cancel,
     SweepExpired, Resume, At
<1>2. \E k : k.id = i /\ calls' = [calls EXCEPT ![c] = k]
  BY DEF Request, Resume, Delegate, Cancel, SweepExpired, Spawn, AwaitSave, Call
<1>3. CASE x # i
  <2>1. \A d \in Calls : /\ calls[d].id = x => calls'[d] = calls[d]
                         /\ calls'[d].id = x => calls'[d] = calls[d]
    BY <1>1, <1>2, <1>3 DEF Awake, TypeOK
  <2>2. /\ delegations'[x] = delegations[x] /\ stateMachines'[x] = stateMachines[x]
        /\ UNCHANGED storage /\ up' = up /\ starts' = starts /\ owner'[x] = owner[x]
        /\ x \in toResume' <=> x \in toResume
    BY <1>1, <1>3 DEF Request, Delegate, Cancel, SweepExpired, Resume, Transition, maps,
       storage, process, Awake, TypeOK
  <2> QED BY <1>1, <2>1, <2>2, UntouchedKept DEF storage
<1>4. CASE x = i /\ Delegate(c, i)
  <2>1. /\ owner[i] = 0 /\ owner'[i] = starts /\ starts' = starts /\ starts # 0
        /\ toResume' = toResume /\ toResume = {}
    BY <1>1, <1>4 DEF Delegate, Awake, TypeOK, Started, Serving, Resuming
  <2>2. Nowhere(i) /\ NotResumed(i)
    BY <1>1, <2>1 DEF IdRun, Nowhere, NotResumed
  <2>3. IdInv(i)'
    BY <1>1, <1>4, <2>2, NowhereOwn, RequestOwn DEF OwnInv, Request
  <2>4. NotResumed(i)'
    BY <1>1, <1>4, <2>1, <2>2 DEF NotResumed, Delegate, Spawn, Call, Awake, TypeOK
  <2> QED BY <1>4, <2>1, <2>3, <2>4 DEF IdRun
<1>5. CASE x = i /\ (Cancel(c, i) \/ SweepExpired(c, i) \/ Resume(c, i))
  <2>1. owner' = owner /\ starts' = starts
    BY <1>5 DEF Cancel, SweepExpired, Resume, process
  <2>2. owner[i] # 0
    <3>1. ~Nowhere(i)
      <4>1. CASE Resume(c, i)
        BY <1>1, <4>1 DEF Resume, Nowhere, IdRun, NotResumed, LoadedInv, WaitsAlone, Pending
      <4> QED BY <1>5, <4>1 DEF Cancel, SweepExpired, Nowhere, Transition, Ended, Known
    <3> QED BY <1>1, <3>1 DEF IdRun
  <2>3. CASE owner[i] = starts
    <3>1. OwnInv(i) /\ ~Resume(c, i)
      BY <1>1, <2>3 DEF IdRun, OwnInv, NotResumed, Resume
    <3>2. IdInv(i)'
      BY <1>5, <3>1, RequestOwn DEF Request
    <3>3. ~calls[c].resume /\ NotResumed(i)
      BY <1>1, <3>1 DEF Awake, IdleIsFree, OwnInv
    <3>4. /\ toResume' = toResume
          /\ \A d \in Calls \ {c} : calls'[d] = calls[d]
          /\ ~calls'[c].resume /\ calls'[c].pc \in {"persistCancel", "sweepTransport"}
      BY <1>1, <1>5, <3>1, <3>3 DEF Cancel, SweepExpired, Spawn, AwaitSave, Call, process,
         Awake, TypeOK
    <3>5. NotResumed(i)'
      BY <3>3, <3>4 DEF NotResumed
    <3> QED BY <1>5, <2>1, <2>2, <2>3, <3>2, <3>5 DEF IdRun
  <2>4. CASE owner[i] # starts
    <3>1. LoadedInv(i)'
      BY <1>1, <1>5, <2>4, RequestLoaded DEF IdRun
    <3> QED BY <1>5, <2>1, <2>2, <2>4, <3>1 DEF IdRun
  <2> QED BY <2>3, <2>4
<1> QED BY <1>3, <1>4, <1>5 DEF Request

LEMMA CrashRun ==
  ASSUME RunInv, Crash, NEW x \in Ids
  PROVE  IdRun(x)'
<1>1. /\ up' = FALSE /\ delegations'[x] = "absent" /\ stateMachines'[x] = "absent"
      /\ \A c \in Calls : calls'[c] = Idle
      /\ toResume' = {} /\ UNCHANGED <<starts, owner, storage>> /\ IdRun(x)
  BY DEF Crash, RunInv
<1>2. \A c \in Calls : calls'[c].id # x /\ calls'[c].id \notin Ids
  BY <1>1, ConstantsAssumption DEF Idle, Call
<1>3. NotResumed(x)'
  BY <1>1, <1>2 DEF NotResumed
<1>4. LoadedInv(x)'
  BY <1>1, <1>2 DEF LoadedInv, MapsTogether, ResumedIsUndoneKept, OneMoves, WaitsAlone,
     MoverAgrees, SweptHasEnded, Pending, Busy, On, Known
<1>5. owner[x] = starts => IdInv(x)'
  BY <1>1, <1>2 DEF IdRun, IdInv, FreshIsNowhere, PresentIsOwn, MapsTogether, OneThread,
   EarlyIsAlone, ThreadAgrees, UndoneIsForgotten, SweptHasEnded, CancelHolds,
   EnvironmentHeld, PreparedHeld, CompletedHeld, Busy, On, Known, storage
<1> QED BY <1>1, <1>2, <1>3, <1>4, <1>5 DEF IdRun, Nowhere, storage

LEMMA InitializeRun ==
  ASSUME RunInv, Initialize, NEW x \in Ids
  PROVE  IdRun(x)'
<1>1. /\ ~up /\ starts' = starts + 1 /\ UNCHANGED <<owner, calls>>
      /\ delegations[x] = "absent" /\ toResume = {} /\ \A c \in Calls : calls[c] = Idle
      /\ IdRun(x) /\ TypeOK
  BY DEF Initialize, RunInv, DownIsEmpty, Awake
<1>2. \A c \in Calls : calls'[c].id # x /\ calls[c].id # x
  BY <1>1, ConstantsAssumption DEF Idle, Call
<1>3. owner'[x] # starts'
  BY <1>1 DEF RunInv, Awake, Started, TypeOK
<1>4. stateMachines[x] = "absent"
  BY <1>1 DEF IdRun, IdInv, LoadedInv, MapsTogether
<1>5. CASE CleanupOnInitialize
  <2>1. /\ delegations'[x] = "absent" /\ stateMachines'[x] = "absent" /\ disk'[x] = "absent"
        /\ toResume' = {} /\ environments' \subseteq environments /\ prepared' \subseteq prepared
    BY <1>1, <1>4, <1>5 DEF Initialize, maps
  <2> QED BY <1>1, <1>2, <1>3, <2>1 DEF IdRun, Nowhere, LoadedInv, MapsTogether,
     ResumedIsUndoneKept, OneMoves, WaitsAlone, MoverAgrees, SweptHasEnded, Busy, On, Known
<1>6. CASE ~CleanupOnInitialize
  <2>1. /\ delegations'[x] = disk[x] /\ stateMachines'[x] = disk[x] /\ disk'[x] = disk[x]
        /\ environments' \subseteq environments /\ prepared' = prepared
        /\ x \in toResume' => disk[x] # "absent" /\ ~IsTerminalDelegation(disk[x])
    BY <1>6 DEF Initialize, Saved
  <2>2. disk[x] \in States /\ disk'[x] = disk[x]
    BY <1>1, <2>1 DEF TypeOK
  <2>3. x \in toResume' => Pending(x)'
    BY <2>1, <2>2, TerminalStates DEF Pending, States
  <2>4. LoadedInv(x)'
    BY <1>2, <2>1, <2>3 DEF LoadedInv, MapsTogether, ResumedIsUndoneKept, OneMoves,
       WaitsAlone, MoverAgrees, SweptHasEnded, Busy, On, Known
  <2> QED BY <1>1, <1>2, <1>3, <2>1, <2>4 DEF IdRun, Nowhere
<1> QED BY <1>5, <1>6

\* A slot is moved while the daemon runs.
LEMMA StepIsUp ==
  ASSUME RunInv, NEW c \in Calls,
         \/ Start(c) \/ Consume(c) \/ Reclaim(c)
         \/ EventStatus(c) \/ EventSnapshot(c) \/ StreamEnds(c)
  PROVE  up /\ Frame(c)
<1>1. Frame(c)
  BY StepFrame DEF RunInv, Awake
<1>2. calls[c] # Idle
  BY <1>1 DEF Frame, SlotStep, Idle, Call
<1> QED BY <1>1, <1>2 DEF RunInv, DownIsEmpty

LEMMA AwakeKept ==
  ASSUME RunInv, [Next]_vars
  PROVE  Awake' /\ DownIsEmpty'
<1>0. TypeOK' /\ Working'
  BY TypeKept, WorkingKept DEF RunInv, Awake
<1> SUFFICES IdleIsFree' /\ Started' /\ DownIsEmpty'
  BY <1>0 DEF Awake
<1>1. ASSUME NEW c \in Calls,
             \/ Start(c) \/ Consume(c) \/ Reclaim(c)
             \/ EventStatus(c) \/ EventSnapshot(c) \/ StreamEnds(c)
      PROVE  IdleIsFree' /\ Started' /\ DownIsEmpty'
  <2>1. SlotStep(c) /\ up' /\ starts' = starts /\ owner' = owner
    BY <1>1, StepIsUp DEF Frame, process
  <2>2. IdleIsFree'
    BY <2>1 DEF RunInv, Awake, IdleIsFree, SlotStep, Idle, Call
  <2> QED BY <2>1, <2>2 DEF RunInv, Awake, Started, DownIsEmpty
<1>2. ASSUME NEW c \in Calls, NEW id \in Ids, Request(c, id) \/ Resume(c, id)
      PROVE  IdleIsFree' /\ Started' /\ DownIsEmpty'
  <2>1. /\ starts' = starts /\ up' = up /\ up
        /\ owner' = owner \/ owner' = [owner EXCEPT ![id] = starts]
    BY <1>2 DEF Request, Resume, Delegate, Cancel, SweepExpired, process, At
  <2>2. /\ calls'[c].pc # "idle" /\ \A d \in Calls \ {c} : calls'[d] = calls[d]
    BY <1>2 DEF Request, Resume, Delegate, Cancel, SweepExpired, Spawn, AwaitSave, Call,
       RunInv, Awake, TypeOK
  <2> QED BY <2>1, <2>2 DEF RunInv, Awake, TypeOK, IdleIsFree, Started, DownIsEmpty
<1>3. CASE Crash
  BY <1>3 DEF Crash, RunInv, Awake, IdleIsFree, Started, DownIsEmpty, Idle, Call
<1>4. CASE Initialize
  BY <1>4 DEF Initialize, RunInv, Awake, TypeOK, IdleIsFree, Started, DownIsEmpty
<1>5. CASE UNCHANGED vars
  BY <1>5 DEF vars, process, maps, RunInv, Awake, IdleIsFree, Started, DownIsEmpty
<1> QED BY <1>1, <1>2, <1>3, <1>4, <1>5 DEF Next

LEMMA RunKept ==
  ASSUME RunInv, [Next]_vars
  PROVE  RunInv'
<1>1. ASSUME NEW x \in Ids
      PROVE  IdRun(x)'
  <2>1. CASE UNCHANGED vars
    BY <2>1, UntouchedKept DEF vars, process, maps, storage, RunInv
  <2> QED BY <2>1, StepRun, RequestRun, CrashRun, InitializeRun DEF Next
<1> QED BY <1>1, AwakeKept DEF RunInv

LEMMA InitRun == Init => RunInv
<1> SUFFICES ASSUME Init PROVE RunInv
  OBVIOUS
<1>1. TypeOK /\ Working
  BY InitTypeOK, InitWorking
<1>2. IdleIsFree /\ Started /\ DownIsEmpty
  BY DEF Init, IdleIsFree, Started, DownIsEmpty, Idle, Call
<1>3. ASSUME NEW x \in Ids
      PROVE  IdRun(x)
  BY ConstantsAssumption DEF Init, Idle, Call, IdRun, Nowhere, LoadedInv, MapsTogether,
     ResumedIsUndoneKept, OneMoves, WaitsAlone, MoverAgrees, SweptHasEnded, Busy, On, Known
<1> QED BY <1>1, <1>2, <1>3 DEF RunInv, Awake

\* The inductive invariant of the service, whatever it does when it starts:
\* what holds of a delegation this start generated, of one that initialize()
\* loaded and of an id nobody generated.
THEOREM RunInvariant == Spec => []RunInv
<1>1. RunInv /\ [Next]_vars => RunInv'
  BY RunKept
<1> QED BY <1>1, InitRun, PTL DEF Spec

(***************************************************************************)
(* A daemon that cleans up when it starts: nothing is resumed, and a       *)
(* delegation belongs to the start that generated its id.                  *)
(***************************************************************************)
LEMMA OnlyOwn ==
  ASSUME RunInv, NoResumption, \A x \in Ids : PresentIsOwn(x)
  PROVE  CleanInv
<1>1. ASSUME NEW x \in Ids
      PROVE  IdInv(x)
  <2>1. CASE owner[x] = starts
    BY <2>1 DEF RunInv, IdRun
  <2>2. CASE owner[x] # starts
    <3>1. ~Known(x) /\ (\A c \in Calls : calls[c].id # x) /\ IdRun(x) /\ stateMachines[x] = "absent"
      BY <2>2 DEF PresentIsOwn, RunInv, IdRun, LoadedInv, MapsTogether, Known
    <3> QED BY <2>2, <3>1 DEF IdInv, IdRun, Nowhere, FreshIsNowhere, PresentIsOwn,
       MapsTogether, OneThread, EarlyIsAlone, ThreadAgrees, UndoneIsForgotten,
       SweptHasEnded, CancelHolds, EnvironmentHeld, PreparedHeld, CompletedHeld, Busy, On,
       Known
  <2> QED BY <2>1, <2>2
<1> QED BY <1>1 DEF CleanInv, RunInv, Awake

LEMMA NoResumptionKept ==
  ASSUME CleanInv, CleanupOnInitialize, [Next]_vars
  PROVE  NoResumption'
<1>1. ASSUME NEW c \in Calls,
             \/ Start(c) \/ Consume(c) \/ Reclaim(c)
             \/ EventStatus(c) \/ EventSnapshot(c) \/ StreamEnds(c)
      PROVE  NoResumption'
  <2>1. Frame(c)
    BY <1>1, StepFrame DEF CleanInv
  <2>2. calls[c].id \in Ids /\ NotResumed(calls[c].id)
    BY <2>1 DEF CleanInv, NoResumption, NotResumed, Frame, SlotStep, Working
  <2>3. calls'[c].pc \notin {"resumeDetach", "undoDetach"}
    BY <1>1, <2>2, NeverResumed DEF CleanInv
  <2> QED BY <2>1, <2>3 DEF CleanInv, Frame, SlotStep, process, NoResumption, Idle, Call
<1>2. ASSUME NEW c \in Calls, NEW id \in Ids, Request(c, id)
      PROVE  NoResumption'
  <2>1. /\ \E k : ~k.resume /\ k.pc \in {"validate", "persistCancel", "sweepTransport"}
                  /\ calls' = [calls EXCEPT ![c] = k]
        /\ toResume' = toResume
    BY <1>2 DEF Request, Delegate, Cancel, SweepExpired, Spawn, AwaitSave, Call, process,
       CleanInv, NoResumption
  <2> QED BY <2>1 DEF CleanInv, TypeOK, NoResumption
<1>3. ASSUME NEW c \in Calls, NEW id \in Ids, Resume(c, id)
      PROVE  FALSE
  BY <1>3 DEF Resume, CleanInv, NoResumption
<1>4. CASE Crash
  BY <1>4 DEF Crash, CleanInv, NoResumption, Idle, Call
<1>5. CASE Initialize
  BY <1>5 DEF Initialize, CleanInv, NoResumption
<1>6. CASE UNCHANGED vars
  BY <1>6 DEF vars, process, CleanInv, NoResumption
<1> QED BY <1>1, <1>2, <1>3, <1>4, <1>5, <1>6 DEF Next

LEMMA OwnKept ==
  ASSUME RunInv, RunInv', CleanInv, CleanupOnInitialize, [Next]_vars, NEW x \in Ids
  PROVE  PresentIsOwn(x)'
<1>1. PresentIsOwn(x)
  BY DEF CleanInv, IdInv
<1>2. ~up' => PresentIsOwn(x)'
  BY ConstantsAssumption DEF RunInv, DownIsEmpty, PresentIsOwn, Known, Idle, Call
<1>3. ASSUME NEW c \in Calls,
             \/ Start(c) \/ Consume(c) \/ Reclaim(c)
             \/ EventStatus(c) \/ EventSnapshot(c) \/ StreamEnds(c)
      PROVE  PresentIsOwn(x)'
  <2>1. Frame(c)
    BY <1>3, StepFrame DEF CleanInv
  <2> QED BY <1>1, <2>1, ConstantsAssumption DEF Frame, SlotStep, process, PresentIsOwn,
     Known, Idle, Call
<1>4. ASSUME NEW c \in Calls, NEW id \in Ids, Request(c, id)
      PROVE  PresentIsOwn(x)'
  <2>1. /\ \E k : k.id = id /\ calls' = [calls EXCEPT ![c] = k]
        /\ up /\ up' = up /\ starts' = starts
    BY <1>4 DEF Request, Delegate, Cancel, SweepExpired, Spawn, AwaitSave, Call, At, process
  <2>2. CASE Delegate(c, id)
    BY <1>1, <2>1, <2>2 DEF Delegate, PresentIsOwn, Known, maps, CleanInv, TypeOK
  <2>3. CASE Cancel(c, id) \/ SweepExpired(c, id)
    <3>1. /\ delegations[id] # "absent" /\ owner' = owner
          /\ \A y \in Ids \ {id} : delegations'[y] = delegations[y]
      BY <2>3 DEF Cancel, SweepExpired, Transition, Ended, Known, process, maps, CleanInv,
         TypeOK
    <3> QED BY <1>1, <2>1, <3>1 DEF PresentIsOwn, Known, CleanInv, TypeOK
  <2> QED BY <1>4, <2>2, <2>3 DEF Request
<1>5. ASSUME NEW c \in Calls, NEW id \in Ids, Resume(c, id)
      PROVE  FALSE
  BY <1>5 DEF Resume, CleanInv, NoResumption
<1>6. CASE Initialize
  BY <1>6, ConstantsAssumption DEF Initialize, RunInv, DownIsEmpty, PresentIsOwn, Known,
     maps, Idle, Call
<1>7. CASE UNCHANGED vars
  BY <1>1, <1>7 DEF vars, process, maps, PresentIsOwn, Known
<1>8. Crash => ~up'
  BY DEF Crash
<1> QED BY <1>2, <1>3, <1>4, <1>5, <1>6, <1>7, <1>8 DEF Next

\* The inductive invariant of a daemon that cleans up when it starts.
THEOREM CleanInvariant ==
  ASSUME CleanupOnInitialize
  PROVE  Spec => []CleanInv
<1> DEFINE Own == \A x \in Ids : PresentIsOwn(x)
<1>1. Init => NoResumption /\ Own
  BY ConstantsAssumption DEF Init, NoResumption, PresentIsOwn, Known, Idle, Call
<1>2. RunInv /\ NoResumption /\ Own => CleanInv
  BY OnlyOwn
<1>3. CleanInv /\ RunInv /\ RunInv' /\ [Next]_vars => NoResumption' /\ Own'
  BY NoResumptionKept, OwnKept
<1> HIDE DEF Own
<1> QED BY <1>1, <1>2, <1>3, RunInvariant, PTL DEF Spec

\* A delegate() that threw leaves neither an entry nor an environment nor
\* anything with the transport, for any number of delegations and calls, as the
\* releases and removals of its undo succeed.
THEOREM FailedGone == Spec => []FailedLeavesNothing
<1>1. RunInv => FailedLeavesNothing
  BY DEF RunInv, IdRun, IdInv, FailedLeavesNothing, MapsTogether, EnvironmentHeld,
     PreparedHeld, Busy, On, InFlight, Known
<1> QED BY <1>1, RunInvariant, PTL

\* A completed delegation is on disk, and has given back what it held, once
\* nothing of it is in flight - if its writes succeed.
THEOREM CompletedReclaimed ==
  ASSUME ~DiskFaults
  PROVE  Spec => []CompletedIsReclaimed
<1>1. RunInv => CompletedIsReclaimed
  BY DEF RunInv, IdRun, IdInv, CompletedIsReclaimed, CompletedHeld, Busy, On, InFlight
<1> QED BY <1>1, RunInvariant, PTL

(***************************************************************************)
(* What was loaded is kept.                                                *)
(***************************************************************************)
Keeps(x) ==
  delegations[x] \notin {"absent", "completed", "error", "cancelled", "expired"}
    => delegations'[x] # "absent"

LEMMA LoadedStep ==
  ASSUME RunInv, [Next]_vars, NEW x \in Ids, owner[x] # starts, up'
  PROVE  Keeps(x)
<1>1. Awake /\ LoadedInv(x)
  BY DEF RunInv, IdRun
<1>2. ASSUME NEW c \in Calls,
             \/ Start(c) \/ Consume(c) \/ Reclaim(c)
             \/ EventStatus(c) \/ EventSnapshot(c) \/ StreamEnds(c)
      PROVE  Keeps(x)
  <2>1. CASE x = calls[c].id
    BY <1>1, <1>2, <2>1, StartLoaded, ConsumeLoaded, ReclaimLoaded DEF Keeps
  <2>2. CASE x # calls[c].id
    BY <1>1, <1>2, <2>2, StepMaps DEF Awake, Keeps
  <2> QED BY <2>1, <2>2
<1>3. ASSUME NEW c \in Calls, NEW id \in Ids, Request(c, id) \/ Resume(c, id)
      PROVE  Keeps(x)
  <2>1. CASE Cancel(c, id)
    <3>1. PICK t : t \in DelegationNext(stateMachines[id], "CANCEL")
                   /\ delegations' = [delegations EXCEPT ![id] = t]
      BY <2>1 DEF Cancel, Transition
    <3>2. t # "absent" /\ delegations \in [Ids -> States]
      BY <1>1, <3>1, AcceptedTransition DEF Awake, TypeOK
    <3> QED BY <3>1, <3>2 DEF Keeps
  <2> QED BY <1>3, <2>1 DEF Request, Resume, Delegate, SweepExpired, maps, Keeps
<1>4. CASE Initialize
  BY <1>4 DEF Initialize, RunInv, DownIsEmpty, Keeps
<1>5. CASE UNCHANGED vars
  BY <1>5 DEF vars, maps, Keeps
<1>6. ~Crash
  BY DEF Crash
<1> QED BY <1>2, <1>3, <1>4, <1>5, <1>6 DEF Next

\* A failed resumption costs nothing: a delegation initialize() loaded keeps
\* its entry and its file until it has ended or the daemon stops.
THEOREM LoadedKept == Spec => LoadedIsKept
<1>1. RunInv /\ RunInv' /\ [Next]_vars =>
        [\A id \in Ids : Known(id) /\ owner[id] # starts /\ ~Ended(id) =>
           ~up' \/ (delegations'[id] # "absent" /\ disk'[id] # "absent")]_vars
  <2> SUFFICES ASSUME RunInv, RunInv', [Next]_vars, NEW id \in Ids, Known(id),
                      owner[id] # starts, ~Ended(id), up', ~UNCHANGED vars
               PROVE  delegations'[id] # "absent" /\ disk'[id] # "absent"
    OBVIOUS
  <2>1. delegations[id] \in DelegationStates
    BY DEF RunInv, Awake, TypeOK, Known, States
  <2>2. delegations'[id] # "absent"
    BY <2>1, LoadedStep, TerminalStates DEF Keeps, Known, Ended
  <2>3. up /\ owner'[id] # starts'
    <3>1. up
      BY DEF RunInv, DownIsEmpty, Known
    <3>2. ~Initialize /\ ~Crash
      BY <3>1 DEF Initialize, Crash
    <3>3. ASSUME NEW c \in Calls, NEW i \in Ids, Request(c, i) \/ Resume(c, i)
          PROVE  owner'[id] # starts'
      <4>1. CASE Delegate(c, i)
        <5>1. id # i
          BY <4>1 DEF Delegate, RunInv, IdRun, Nowhere, Known
        <5> QED BY <4>1, <5>1 DEF Delegate, RunInv, Awake, TypeOK
      <4> QED BY <3>3, <4>1 DEF Request, Resume, Cancel, SweepExpired, process
    <3>4. ASSUME NEW c \in Calls,
                 \/ Start(c) \/ Consume(c) \/ Reclaim(c)
                 \/ EventStatus(c) \/ EventSnapshot(c) \/ StreamEnds(c)
          PROVE  owner'[id] # starts'
      BY <3>4, StepIsUp DEF Frame, process
    <3> QED BY <3>1, <3>2, <3>3, <3>4 DEF Next
  <2> QED BY <2>2, <2>3 DEF RunInv, IdRun, LoadedInv, Known
<1> QED BY <1>1, RunInvariant, PTL DEF Spec, LoadedIsKept

(***************************************************************************)
(* What has ended stays ended.                                             *)
(***************************************************************************)
EndKept(x) ==
  /\ Known(x) /\ stateMachines[x] \in {"completed", "error", "cancelled", "expired"}
  => delegations'[x] \in {delegations[x], "absent"}

LEMMA TransitionEndKept ==
  ASSUME TypeOK, NEW i \in Ids, MapsTogether(i), NEW e, Transition(i, e)
  PROVE  EndKept(i)
<1>1. stateMachines[i] \in DelegationStates
  BY DEF Transition, Known, MapsTogether, TypeOK, States
<1> QED BY <1>1, AcceptedTransition DEF Transition, EndKept

LEMMA StepEndKept ==
  ASSUME RunInv, NEW c \in Calls, NEW i \in Ids, i = calls[c].id,
         \/ Start(c) \/ Consume(c) \/ Reclaim(c)
         \/ EventStatus(c) \/ EventSnapshot(c) \/ StreamEnds(c)
  PROVE  EndKept(i)
<1>1. TypeOK /\ MapsTogether(i) /\ delegations \in [Ids -> States]
  BY DEF RunInv, Awake, IdRun, IdInv, LoadedInv, TypeOK
<1>2. UNCHANGED delegations \/ Undo(c) \/ Forget(i) => EndKept(i)
  BY <1>1 DEF EndKept, Undo, Forget, maps
<1>3. StreamLost(c) => EndKept(i)
  BY <1>1, StreamLostEffect DEF EndKept, MapsTogether
<1>4. \A e : Transition(i, e) => EndKept(i)
  BY <1>1, TransitionEndKept
<1>5. CASE Start(c)
  <2>1. CASE Built(c)
    <3>1. On(c, i, {"validate", "build"}) /\ On(c, i, Early)
      BY <2>1 DEF Built, At, On, Early
    <3>2. \/ ~Known(i)
          \/ stateMachines[i] \notin {"completed", "error", "cancelled", "expired"}
      BY <3>1 DEF RunInv, IdRun, IdInv, EarlyIsAlone, LoadedInv, WaitsAlone, Pending
    <3> QED BY <3>2 DEF EndKept
  <2> QED BY <1>2, <1>4, <1>5, <2>1 DEF Start, ResumeDetached, ValidationFails, Validated,
     EnvironmentExists, BuildFails, InviteAccepted, InviteDeclined, InviteFails,
     DeclinePersisted, TransportPrepared, StreamConnected, StartSent, AcceptFails,
     AcceptDetached, UndoDetached, UndoTransport, UndoEnvironment, UndoFile, maps
<1>6. CASE Consume(c) \/ EventStatus(c) \/ EventSnapshot(c) \/ StreamEnds(c)
  <2>1. CASE Acknowledged(c)
    BY <1>3, <2>1 DEF Acknowledged, EndKept
  <2> QED BY <1>2, <1>3, <1>4, <1>6, <2>1 DEF Consume, SnapshotReceived, ReceiveFails,
     SnapshotPersisted, EventDone, DonePersisted, DoneDetached, DoneEnvironment,
     EventError, StreamBreaks, EndPersisted, EventStatus, EventSnapshot, StreamEnds, maps
<1>7. CASE Reclaim(c)
  BY <1>2, <1>3, <1>7 DEF Reclaim, CancelPersisted, CancelSent, CancelDetached,
     PersistFails, SweepTransport, SweepEnvironment, SweepSnapshots, SweepFile, maps
<1> QED BY <1>5, <1>6, <1>7

LEMMA EndsKept ==
  ASSUME RunInv, [Next]_vars, NEW x \in Ids
  PROVE  EndKept(x)
<1>0. TypeOK /\ \A y \in Ids : MapsTogether(y)
  BY DEF RunInv, Awake, IdRun, IdInv, LoadedInv
<1>1. ASSUME NEW c \in Calls,
             \/ Start(c) \/ Consume(c) \/ Reclaim(c)
             \/ EventStatus(c) \/ EventSnapshot(c) \/ StreamEnds(c)
      PROVE  EndKept(x)
  <2>1. CASE x = calls[c].id
    BY <1>1, <2>1, StepEndKept
  <2>2. CASE x # calls[c].id
    BY <1>0, <1>1, <2>2, StepMaps DEF EndKept
  <2> QED BY <2>1, <2>2
<1>2. ASSUME NEW c \in Calls, NEW id \in Ids, Request(c, id) \/ Resume(c, id)
      PROVE  EndKept(x)
  <2>1. CASE Cancel(c, id)
    <3>1. CASE x = id
      BY <1>0, <2>1, <3>1, TransitionEndKept DEF Cancel
    <3>2. CASE x # id
      BY <1>0, <2>1, <3>2 DEF Cancel, Transition, TypeOK, EndKept
    <3> QED BY <3>1, <3>2
  <2> QED BY <1>2, <2>1 DEF Request, Resume, Delegate, SweepExpired, maps, EndKept
<1>3. CASE Crash \/ UNCHANGED vars
  BY <1>3 DEF Crash, vars, maps, EndKept
<1>4. CASE Initialize
  BY <1>4 DEF Initialize, RunInv, DownIsEmpty, Known, EndKept
<1> QED BY <1>1, <1>2, <1>3, <1>4 DEF Next

\* Once its state machine has ended, a delegation keeps its state until it is
\* forgotten, whatever event, lost stream or cancellation still comes.
THEOREM MachineEndsFinal == Spec => MachineEndIsFinal
<1>1. RunInv /\ [Next]_vars =>
        [\A id \in Ids : Known(id) /\ IsTerminalDelegation(stateMachines[id]) =>
           delegations'[id] \in {delegations[id], "absent"}]_vars
  <2> SUFFICES ASSUME RunInv, [Next]_vars, NEW id \in Ids, Known(id),
                      IsTerminalDelegation(stateMachines[id])
               PROVE  delegations'[id] \in {delegations[id], "absent"}
    OBVIOUS
  <2>1. stateMachines[id] \in DelegationStates
    BY DEF RunInv, Awake, TypeOK, IdRun, IdInv, LoadedInv, MapsTogether, Known, States
  <2> QED BY <2>1, EndsKept, TerminalStates DEF EndKept
<1> QED BY <1>1, RunInvariant, PTL DEF Spec, MachineEndIsFinal

(***************************************************************************)
(* A started delegation has a listener.                                    *)
(***************************************************************************)
\* A step leaves its own delegation heard, or not started.
HeardStep(c, i) ==
  delegations'[i] \in {"started", "running"} =>
    \/ calls'[c].id = i /\ calls'[c].pc \in Consuming \cup {"start", "acceptDetach"}
    \/ /\ calls[c].pc \notin Consuming \cup {"start", "acceptDetach"}
       /\ delegations[i] \in {"started", "running"}

LEMMA StepHeard ==
  ASSUME CleanInv, ~SilentEnd, NEW c \in Calls, NEW i \in Ids, i = calls[c].id,
         \/ Start(c) \/ Consume(c) \/ Reclaim(c)
         \/ EventStatus(c) \/ EventSnapshot(c) \/ StreamEnds(c)
  PROVE  HeardStep(c, i)
<1>1. /\ TypeOK /\ calls[c].pc \notin {"resumeDetach", "undoDetach"} /\ ~calls[c].resume
      /\ delegations \in [Ids -> States] /\ calls \in [Calls -> Contexts]
  BY DEF CleanInv, NoResumption, TypeOK, Contexts
<1> USE <1>1 DEF At, Return, Await, AwaitSave, Spawn, Call, Idle, Known, Forget, maps,
        HeardStep, Consuming
<1>2. Undo(c) => HeardStep(c, i)
  BY DEF Undo
<1>3. StreamLost(c) => HeardStep(c, i)
  BY StreamLostEffect
<1>4. CASE Start(c)
  BY <1>2, <1>4, AcceptedTransition DEF Start, Transition, ResumeDetached,
     ValidationFails, Validated, Built, EnvironmentExists, BuildFails, InviteAccepted,
     InviteDeclined, InviteFails, DeclinePersisted, TransportPrepared, StreamConnected,
     StartSent, AcceptFails, AcceptDetached, UndoDetached, UndoTransport,
     UndoEnvironment, UndoFile
<1>5. CASE Consume(c) \/ EventStatus(c) \/ EventSnapshot(c) \/ StreamEnds(c)
  BY <1>3, <1>5, AcceptedTransition DEF Consume, Transition, SnapshotReceived,
     ReceiveFails, SnapshotPersisted, EventDone, Acknowledged, DonePersisted,
     DoneDetached, DoneEnvironment, EventError, StreamBreaks, EndPersisted, EventStatus,
     EventSnapshot, StreamEnds
<1>6. CASE Reclaim(c)
  BY <1>2, <1>3, <1>6 DEF Reclaim, CancelPersisted, CancelSent, CancelDetached,
     PersistFails, SweepTransport, SweepEnvironment, SweepSnapshots, SweepFile,
     PersistPoints
<1> QED BY <1>4, <1>5, <1>6

LEMMA HeardKept ==
  ASSUME CleanInv, CleanupOnInitialize, ~SilentEnd, StartedIsHeard, [Next]_vars
  PROVE  StartedIsHeard'
<1> SUFFICES ASSUME NEW x \in Ids, delegations'[x] \in {"started", "running"}
             PROVE  \E d \in Calls : calls'[d].id = x
                      /\ calls'[d].pc \in Consuming \cup {"start", "acceptDetach"}
  BY DEF StartedIsHeard, InFlight, Listening
<1>0. delegations[x] \in {"started", "running"} =>
        \E d \in Calls : calls[d].id = x
          /\ calls[d].pc \in Consuming \cup {"start", "acceptDetach"}
  BY DEF StartedIsHeard, InFlight, Listening
<1>1. ASSUME NEW c \in Calls,
             \/ Start(c) \/ Consume(c) \/ Reclaim(c)
             \/ EventStatus(c) \/ EventSnapshot(c) \/ StreamEnds(c)
      PROVE  \E d \in Calls : calls'[d].id = x
               /\ calls'[d].pc \in Consuming \cup {"start", "acceptDetach"}
  <2>1. Frame(c)
    BY <1>1, StepFrame DEF CleanInv
  <2>2. CASE x = calls[c].id
    BY <1>0, <1>1, <2>1, <2>2, StepHeard DEF HeardStep, Frame, SlotStep
  <2>3. CASE x # calls[c].id
    BY <1>0, <2>1, <2>3 DEF Frame, SlotStep
  <2> QED BY <2>2, <2>3
<1>2. ASSUME NEW c \in Calls, NEW id \in Ids, Request(c, id) \/ Resume(c, id)
      PROVE  \E d \in Calls : calls'[d].id = x
               /\ calls'[d].pc \in Consuming \cup {"start", "acceptDetach"}
  <2>1. calls[c].pc = "idle" /\ \A d \in Calls \ {c} : calls'[d] = calls[d]
    BY <1>2 DEF Request, Resume, Delegate, Cancel, SweepExpired, At, Spawn, AwaitSave,
       CleanInv, TypeOK
  <2>2. delegations[x] \in {"started", "running"}
    <3>1. CASE Cancel(c, id)
      <4>1. TypeOK /\ MapsTogether(id) /\ Transition(id, "CANCEL")
        BY <3>1 DEF Cancel, CleanInv, IdInv
      <4>2. delegations' = [delegations EXCEPT ![id] = "cancelled"]
        BY <4>1, EndEffect
      <4> QED BY <4>1, <4>2 DEF TypeOK
    <3> QED BY <1>2, <3>1 DEF Request, Resume, Delegate, SweepExpired, maps
  <2> QED BY <1>0, <2>1, <2>2 DEF Consuming
<1>3. CASE Crash
  BY <1>3 DEF Crash
<1>4. CASE Initialize \/ UNCHANGED vars
  BY <1>0, <1>4 DEF Initialize, vars, maps
<1> QED BY <1>1, <1>2, <1>3, <1>4 DEF Next

\* A started delegation has its START, the undo of it or the consumer of its
\* event stream in flight, if a stream never ends without a last event.
THEOREM StartedHeard ==
  ASSUME CleanupOnInitialize, ~SilentEnd
  PROVE  Spec => []StartedIsHeard
<1>1. Init => StartedIsHeard
  BY DEF Init, StartedIsHeard
<1>2. CleanInv /\ StartedIsHeard /\ [Next]_vars => StartedIsHeard'
  BY HeardKept
<1> QED BY <1>1, <1>2, CleanInvariant, PTL DEF Spec
(***************************************************************************)
(* What a caller sees of a delegation, and how a step changes it.          *)
(***************************************************************************)
PhaseOf(state) ==
  IF state \in {"created", "invited", "accepted"} THEN "offered"
  ELSE IF state \in {"started", "running"} THEN "started"
  ELSE IF state = "completed" THEN "completed"
  ELSE IF state \in {"error", "cancelled", "expired"} THEN "ended"
  ELSE "gone"
Phase(id) ==
  IF owner[id] = 0 \/ Busy(id, {"validate", "build"}) THEN "none"
  ELSE PhaseOf(delegations[id])

\* A delegation fails, or is forgotten.
Stays(id) == Phase(id)' = Phase(id)
Ends(id) == Phase(id) \in {"offered", "started"} /\ Phase(id)' = "ended"
Leaves(id) == Phase(id) # "gone" /\ Phase(id)' = "gone"

\* The steps of a call that neither hear the Executor nor send to it.
Unheard(c) ==
  \/ ValidationFails(c) \/ Validated(c) \/ EnvironmentExists(c) \/ BuildFails(c)
  \/ InviteFails(c) \/ DeclinePersisted(c) \/ TransportPrepared(c)
  \/ AcceptFails(c) \/ AcceptDetached(c)
  \/ UndoDetached(c) \/ UndoTransport(c) \/ UndoEnvironment(c) \/ UndoFile(c)
  \/ SnapshotReceived(c) \/ SnapshotPersisted(c) \/ Acknowledged(c)
  \/ DonePersisted(c) \/ DoneDetached(c) \/ DoneEnvironment(c) \/ EndPersisted(c)
  \/ CancelSent(c) \/ CancelDetached(c)

\* A call in flight is of this run, and alone before its record is made.
LEMMA PhaseInFlight ==
  ASSUME CleanInv, NEW c \in Calls, NEW i \in Ids, calls[c].id = i
  PROVE  Phase(i) = IF calls[c].pc \in {"validate", "build"} THEN "none"
                    ELSE PhaseOf(delegations[i])
<1>1. owner[i] # 0
  BY DEF CleanInv, IdInv, PresentIsOwn, Started
<1>2. Busy(i, {"validate", "build"}) <=> calls[c].pc \in {"validate", "build"}
  BY DEF CleanInv, IdInv, EarlyIsAlone, Busy, On
<1> QED BY <1>1, <1>2 DEF Phase

\* ... and stays so in a step of that call.
LEMMA PhaseAfter ==
  ASSUME CleanInv, NEW c \in Calls, NEW i \in Ids, calls[c].id = i, SlotStep(c),
         owner' = owner, calls'[c].pc \in {"validate", "build"} =>
                           calls[c].pc \in {"validate", "build"}
  PROVE  Phase(i)' = IF calls'[c].pc \in {"validate", "build"} THEN "none"
                     ELSE PhaseOf(delegations'[i])
<1>1. owner'[i] # 0
  BY DEF CleanInv, IdInv, PresentIsOwn, Started
<1>2. \A d \in Calls : calls'[d].id = i /\ d # c => calls'[d] = calls[d]
  BY DEF SlotStep
<1>3. Busy(i, {"validate", "build"})' => calls'[c].pc \in {"validate", "build"}
  BY <1>2 DEF CleanInv, IdInv, EarlyIsAlone, Busy, On, SlotStep
<1>4. calls'[c].pc \in {"validate", "build"} => Busy(i, {"validate", "build"})'
  BY DEF SlotStep, Busy, On, Idle, Call
<1> QED BY <1>1, <1>3, <1>4 DEF Phase

LEMMA UnheardReport ==
  ASSUME CleanInv, NEW c \in Calls, NEW i \in Ids, i = calls[c].id, Unheard(c)
  PROVE  /\ SlotStep(c)
         /\ \/ Stays(i) \/ Ends(i) \/ Leaves(i)
            \/ calls[c].pc = "ack" /\ Phase(i) = "started" /\ Phase(i)' = "completed"
         /\ calls'[c].pc \notin {"start", "receive", "ack"}
         /\ calls'[c].pc = "consume" => calls[c].pc = "persistSnapshot"
         /\ calls'[c].pc = "persistSnapshot" => calls[c].pc = "receive"
<1>1. Start(c) \/ Consume(c) \/ Reclaim(c)
  BY DEF Unheard, Start, Consume, Reclaim
<1>2. SlotStep(c) /\ owner' = owner
  BY <1>1, StepFrame DEF Frame, CleanInv, process
<1>3. /\ TypeOK /\ ~calls[c].resume /\ calls \in [Calls -> Contexts]
      /\ delegations \in [Ids -> States] /\ IdInv(i)
      /\ calls[c].pc \notin {"resumeDetach", "undoDetach"}
  BY DEF CleanInv, NoResumption, TypeOK, Contexts
<1> DEFINE moves ==
      /\ calls'[c].pc \notin {"start", "receive", "ack"}
      /\ calls'[c].pc = "consume" => calls[c].pc = "persistSnapshot"
      /\ calls'[c].pc = "persistSnapshot" => calls[c].pc = "receive"
      /\ calls'[c].pc = "validate" => calls[c].pc \in {"validate", "build"}
      /\ calls'[c].pc = "build" => calls[c].pc \in {"validate", "build"}
<1> DEFINE early == calls[c].pc \in {"validate", "build"}
<1> DEFINE early2 == calls'[c].pc \in {"validate", "build"}
<1> USE <1>3 DEF At, Return, Await, AwaitSave, Call, Idle, maps
<1>4. Undo(c) => moves /\ ~early2 /\ delegations'[i] = "absent"
  BY DEF Undo, Forget
<1>5. StreamLost(c) => /\ moves /\ ~early2
                       /\ \/ delegations'[i] = delegations[i]
                          \/ /\ delegations'[i] = "error"
                             /\ delegations[i] \notin {"absent", "completed", "error", "cancelled", "expired"}
  BY StreamLostEffect
<1>6. /\ moves
      /\ \/ early /\ early2
         \/ ~early2 /\ delegations'[i] = "absent"
         \/ ~early /\ ~early2 /\ delegations'[i] = delegations[i]
         \/ /\ ~early /\ ~early2 /\ delegations'[i] = "error"
            /\ delegations[i] \notin {"absent", "completed", "error", "cancelled", "expired"}
         \/ /\ calls[c].pc = "ack" /\ ~early2 /\ delegations'[i] = "completed"
            /\ delegations[i] \in {"started", "running"}
  <2>1. CASE ValidationFails(c) \/ Validated(c)
    <3>1. early => delegations[i] = "absent"
      BY DEF IdInv, EarlyIsAlone, Known, On
    <3> QED BY <2>1, <3>1 DEF ValidationFails, Validated
  <2>2. CASE EnvironmentExists(c) \/ BuildFails(c) \/ InviteFails(c) \/ DeclinePersisted(c)
             \/ AcceptDetached(c)
    BY <1>4, <2>2 DEF EnvironmentExists, BuildFails, InviteFails, DeclinePersisted,
       AcceptDetached
  <2>3. CASE TransportPrepared(c) \/ AcceptFails(c) \/ UndoDetached(c) \/ UndoTransport(c)
             \/ UndoEnvironment(c) \/ UndoFile(c)
    BY <2>3 DEF TransportPrepared, AcceptFails, UndoDetached, UndoTransport, UndoEnvironment,
       UndoFile
  <2>4. CASE SnapshotReceived(c) \/ SnapshotPersisted(c) \/ DonePersisted(c) \/ DoneDetached(c)
             \/ DoneEnvironment(c) \/ EndPersisted(c) \/ CancelSent(c) \/ CancelDetached(c)
    BY <2>4 DEF SnapshotReceived, SnapshotPersisted, DonePersisted, DoneDetached,
       DoneEnvironment, EndPersisted, CancelSent, CancelDetached
  <2>5. CASE Acknowledged(c)
    <3>1. calls[c].pc = "ack" /\ delegations[i] = stateMachines[i]
      BY <2>5 DEF Acknowledged, IdInv, ThreadAgrees, Busy, On, Consuming
    <3> QED BY <1>5, <2>5, <3>1 DEF Acknowledged
  <2> QED BY <2>1, <2>2, <2>3, <2>4, <2>5 DEF Unheard
<1>7. Phase(i) = IF early THEN "none" ELSE PhaseOf(delegations[i])
  BY PhaseInFlight
<1>8. Phase(i)' = IF early2 THEN "none" ELSE PhaseOf(delegations'[i])
  BY <1>2, <1>6, PhaseAfter
<1>9. delegations[i] \in DelegationStates \cup {"absent"}
  BY DEF States
<1>10. \/ Stays(i) \/ Ends(i) \/ Leaves(i)
       \/ calls[c].pc = "ack" /\ Phase(i) = "started" /\ Phase(i)' = "completed"
  BY <1>6, <1>7, <1>8, <1>9 DEF Stays, Ends, Leaves, PhaseOf, DelegationStates
<1> QED BY <1>2, <1>6, <1>10

\* The steps that hear the Executor, or send to it.
LEMMA HeardReport ==
  ASSUME CleanInv, NEW c \in Calls, NEW i \in Ids, i = calls[c].id
  PROVE  /\ Built(c) =>
              SlotStep(c) /\ calls'[c].pc = "invite"
              /\ Phase(i) = "none" /\ Phase(i)' = "offered"
         /\ InviteAccepted(c) \/ InviteDeclined(c) =>
              /\ SlotStep(c) /\ (Stays(i) \/ Ends(i) \/ Leaves(i))
              /\ calls'[c].pc \in {"prepare", "persistDeclined", "undoTransport"}
         /\ StreamConnected(c) =>
              /\ SlotStep(c) /\ calls[c].pc = "connect"
              /\ \/ /\ calls'[c].pc = "start"
                    /\ Phase(i) = "offered" /\ Phase(i)' = "started"
                 \/ calls'[c].pc = "acceptDetach" /\ Stays(i)
         /\ StartSent(c) =>
              SlotStep(c) /\ Stays(i) /\ calls[c].pc = "start" /\ calls'[c].pc = "consume"
         /\ CancelPersisted(c) => SlotStep(c) /\ Stays(i) /\ calls'[c].pc = "sendCancel"
         /\ EventStatus(c) => Stays(i) /\ calls' = calls
         /\ EventSnapshot(c) =>
              SlotStep(c) /\ Stays(i) /\ calls[c].pc = "consume" /\ calls'[c].pc = "receive"
         /\ EventDone(c) =>
              /\ SlotStep(c) /\ Stays(i) /\ calls[c].pc = "consume"
              /\ calls'[c].pc = IF Known(i) THEN "ack" ELSE "idle"
         /\ EventError(c) \/ StreamBreaks(c) =>
              /\ SlotStep(c) /\ (Stays(i) \/ Ends(i)) /\ calls[c].pc = "consume"
              /\ calls'[c].pc \in {"persistError", "persistLost", "idle"}
<1>1. /\ TypeOK /\ MapsTogether(i) /\ ~calls[c].resume /\ calls \in [Calls -> Contexts]
      /\ delegations \in [Ids -> States] /\ stateMachines \in [Ids -> States]
      /\ ThreadAgrees(i) /\ EarlyIsAlone(i)
  BY DEF CleanInv, IdInv, NoResumption, TypeOK, Contexts
<1>2. ASSUME Start(c) \/ Consume(c) \/ Reclaim(c) \/ EventSnapshot(c)
      PROVE  SlotStep(c) /\ owner' = owner
  BY <1>2, StepSlot, StepFrame DEF Frame, CleanInv, process
<1>3. ASSUME Start(c) \/ Consume(c) \/ Reclaim(c) \/ EventSnapshot(c),
             calls'[c].pc \notin {"validate", "build"}, calls[c].pc \notin {"validate", "build"},
             delegations'[i] = delegations[i]
      PROVE  Stays(i)
  BY <1>2, <1>3, PhaseInFlight, PhaseAfter DEF Stays
<1>4. ASSUME Start(c) \/ Consume(c) \/ Reclaim(c) \/ EventSnapshot(c),
             calls'[c].pc \notin {"validate", "build"}, calls[c].pc \notin {"validate", "build"}
      PROVE  Phase(i) = PhaseOf(delegations[i]) /\ Phase(i)' = PhaseOf(delegations'[i])
  BY <1>2, <1>4, PhaseInFlight, PhaseAfter
<1> USE <1>1 DEF At, Return, Await, AwaitSave, Spawn, Call, Idle, maps
<1>5. ASSUME Built(c)
      PROVE  /\ SlotStep(c) /\ calls'[c].pc = "invite"
             /\ Phase(i) = "none" /\ Phase(i)' = "offered"
  <2>1. Start(c) /\ calls[c].pc = "build" /\ calls'[c].pc = "invite"
        /\ delegations'[i] = "invited"
    BY <1>5 DEF Built, Start
  <2> QED BY <1>2, <2>1, PhaseInFlight, PhaseAfter DEF PhaseOf
<1>6. ASSUME NEW e, e \in {"RECEIVE_ACCEPT", "RECEIVE_ERROR"}, Transition(i, e)
      PROVE  /\ delegations[i] # "absent"
             /\ stateMachines[i] \notin {"completed", "error", "cancelled", "expired", "absent"}
             /\ delegations'[i] = IF e = "RECEIVE_ACCEPT" THEN "accepted" ELSE "error"
  <2>1. delegations[i] # "absent" /\ stateMachines[i] \in DelegationStates
    BY <1>6 DEF Transition, Known, MapsTogether, States
  <2> QED BY <1>6, <2>1, AcceptedTransition DEF Transition, DelegationStates
<1>7. ASSUME InviteAccepted(c) \/ InviteDeclined(c)
      PROVE  /\ SlotStep(c) /\ (Stays(i) \/ Ends(i) \/ Leaves(i))
             /\ calls'[c].pc \in {"prepare", "persistDeclined", "undoTransport"}
  <2>1. Start(c) /\ calls[c].pc = "invite" /\ delegations[i] = stateMachines[i]
    BY <1>7 DEF InviteAccepted, InviteDeclined, Start, ThreadAgrees, Busy, On, Starting
  <2>2. CASE Undo(c)
    <3>1. calls'[c].pc = "undoTransport" /\ delegations'[i] = "absent"
      BY <2>2 DEF Undo, Forget
    <3> QED BY <1>2, <1>4, <2>1, <3>1 DEF PhaseOf, Leaves, Stays
  <2>3. CASE Transition(i, "RECEIVE_ACCEPT") /\ Await(c, "prepare")
    <3>1. calls'[c].pc = "prepare"
      BY <2>3
    <3>2. delegations[i] = "invited"
      BY <2>1, <2>3 DEF Transition, DelegationNext, DelegationTarget
    <3> QED BY <1>2, <1>4, <1>6, <2>1, <2>3, <3>1, <3>2 DEF PhaseOf, Stays
  <2>4. CASE Transition(i, "RECEIVE_ERROR") /\ AwaitSave(c, "persistDeclined", i)
    <3>1. calls'[c].pc = "persistDeclined"
      BY <2>4
    <3> QED BY <1>2, <1>4, <1>6, <2>1, <2>4, <3>1 DEF PhaseOf, Ends, States, DelegationStates
  <2> QED BY <1>7, <2>2, <2>3, <2>4 DEF InviteAccepted, InviteDeclined
<1>8. ASSUME StreamConnected(c)
      PROVE  /\ SlotStep(c) /\ calls[c].pc = "connect"
             /\ \/ /\ calls'[c].pc = "start"
                   /\ Phase(i) = "offered" /\ Phase(i)' = "started"
                \/ calls'[c].pc = "acceptDetach" /\ Stays(i)
  <2>1. Start(c) /\ calls[c].pc = "connect" /\ delegations[i] = stateMachines[i]
    BY <1>8 DEF StreamConnected, Start, ThreadAgrees, Busy, On, Starting
  <2>2. CASE Transition(i, "SEND_START") /\ Await(c, "start")
    <3>1. delegations[i] = "accepted" /\ delegations'[i] = "started"
          /\ calls'[c].pc = "start"
      BY <2>1, <2>2, AcceptedTransition DEF Transition
    <3> QED BY <1>2, <1>4, <2>1, <3>1 DEF PhaseOf
  <2>3. CASE Await(c, "acceptDetach") /\ UNCHANGED maps
    BY <1>2, <1>3, <2>1, <2>3
  <2> QED BY <1>8, <2>2, <2>3 DEF StreamConnected
<1>9. ASSUME StartSent(c)
      PROVE  SlotStep(c) /\ Stays(i) /\ calls[c].pc = "start" /\ calls'[c].pc = "consume"
  BY <1>2, <1>3, <1>9 DEF StartSent, Start
<1>10. ASSUME CancelPersisted(c)
       PROVE  SlotStep(c) /\ Stays(i) /\ calls'[c].pc = "sendCancel"
  BY <1>2, <1>3, <1>10 DEF CancelPersisted, Reclaim
<1>11. ASSUME EventStatus(c)
       PROVE  Stays(i) /\ calls' = calls
  <2>1. /\ calls' = calls /\ owner' = owner /\ calls[c].pc = "consume"
        /\ delegations[i] = "started" /\ delegations'[i] = "running"
    BY <1>11, AcceptedTransition DEF EventStatus, Transition, process, ThreadAgrees,
       Busy, On, Consuming
  <2>2. Busy(i, {"validate", "build"})' <=> Busy(i, {"validate", "build"})
    BY <2>1 DEF Busy, On
  <2> QED BY <2>1, <2>2 DEF Stays, Phase, PhaseOf
<1>12. ASSUME EventSnapshot(c)
       PROVE  SlotStep(c) /\ Stays(i) /\ calls[c].pc = "consume" /\ calls'[c].pc = "receive"
  BY <1>2, <1>3, <1>12 DEF EventSnapshot
<1>13. ASSUME EventDone(c)
       PROVE  /\ SlotStep(c) /\ Stays(i) /\ calls[c].pc = "consume"
              /\ calls'[c].pc = IF Known(i) THEN "ack" ELSE "idle"
  BY <1>2, <1>3, <1>13 DEF EventDone, Consume
<1>14. ASSUME EventError(c) \/ StreamBreaks(c)
       PROVE  /\ SlotStep(c) /\ (Stays(i) \/ Ends(i)) /\ calls[c].pc = "consume"
              /\ calls'[c].pc \in {"persistError", "persistLost", "idle"}
  <2>1. Consume(c) /\ calls[c].pc = "consume" /\ delegations[i] = stateMachines[i]
    BY <1>14 DEF EventError, StreamBreaks, Consume, ThreadAgrees, Busy, On, Consuming
  <2>2. CASE StreamLost(c)
    <3>1. /\ calls'[c].pc \in {"persistLost", "idle"}
          /\ \/ delegations'[i] = delegations[i]
             \/ /\ delegations'[i] = "error"
                /\ delegations[i] \notin {"absent", "completed", "error", "cancelled", "expired"}
      BY <2>2, StreamLostEffect
    <3> QED BY <1>2, <1>4, <2>1, <3>1 DEF PhaseOf, Ends, Stays, States, DelegationStates
  <2>3. CASE Transition(i, "RECEIVE_ERROR") /\ AwaitSave(c, "persistError", i)
    <3>1. calls'[c].pc = "persistError"
      BY <2>3
    <3> QED BY <1>2, <1>4, <1>6, <2>1, <2>3, <3>1 DEF PhaseOf, Ends, States, DelegationStates
  <2>4. CASE Return(c) /\ UNCHANGED maps
    BY <1>2, <1>3, <2>1, <2>4
  <2> QED BY <1>14, <2>2, <2>3, <2>4 DEF EventError, StreamBreaks
<1> QED BY <1>5, <1>7, <1>8, <1>9, <1>10, <1>11, <1>12, <1>13, <1>14

\* What a caller asks for, and the daemon's life.
LEMMA AskedReport ==
  ASSUME CleanInv, NEW c \in Calls, NEW i \in Ids, Delegate(c, i) \/ Cancel(c, i)
  PROVE  /\ Stays(i) \/ Ends(i)
         /\ calls[c].pc = "idle" /\ \A d \in Calls \ {c} : calls'[d] = calls[d]
         /\ calls'[c].pc \in {"validate", "persistCancel"}
<1>1. /\ TypeOK /\ MapsTogether(i) /\ EarlyIsAlone(i) /\ IdleIsFree /\ starts # 0
      /\ calls \in [Calls -> Contexts] /\ owner \in [Ids -> Nat]
      /\ delegations[i] \in States /\ NoId \notin Ids
  BY ConstantsAssumption DEF CleanInv, IdInv, TypeOK, Contexts, Started
<1>2. CASE Delegate(c, i)
  <2>1. /\ owner[i] = 0 /\ calls[c].pc = "idle" /\ calls'[c].pc = "validate"
        /\ calls'[c].id = i /\ \A d \in Calls \ {c} : calls'[d] = calls[d]
    BY <1>1, <1>2 DEF Delegate, At, Spawn, Call
  <2> QED BY <2>1 DEF Stays, Phase, Busy, On
<1>3. CASE Cancel(c, i)
  <2>1. /\ calls[c].pc = "idle" /\ calls'[c].pc = "persistCancel"
        /\ owner' = owner /\ \A d \in Calls \ {c} : calls'[d] = calls[d]
    BY <1>1, <1>3 DEF Cancel, At, AwaitSave, Call, process
  <2>2. /\ stateMachines[i] \notin {"completed", "error", "cancelled", "expired", "absent"}
        /\ delegations[i] # "absent" /\ delegations'[i] = "cancelled"
    BY <1>1, <1>3, EndEffect DEF Cancel, TypeOK
  <2>3. ~Busy(i, {"validate", "build"})
    BY <1>1, <2>2 DEF EarlyIsAlone, Busy, On, Known
  <2>4. ~Busy(i, {"validate", "build"})'
    BY <2>1, <2>3 DEF Busy, On
  <2>5. owner[i] # 0 /\ owner'[i] # 0
    BY <2>1, <2>2 DEF CleanInv, IdInv, FreshIsNowhere, Known
  <2>6. delegations[i] # "completed"
    BY <1>1, <2>2 DEF MapsTogether
  <2> QED BY <1>1, <2>1, <2>2, <2>3, <2>4, <2>5, <2>6
          DEF Phase, PhaseOf, Stays, Ends, States, DelegationStates
<1> QED BY <1>2, <1>3

LEMMA LifeReport ==
  ASSUME CleanInv, CleanupOnInitialize, NEW i \in Ids, Crash \/ Initialize
  PROVE  /\ Stays(i) \/ Leaves(i)
         /\ calls' = calls \/ \A c \in Calls : calls'[c].pc = "idle"
<1>1. CASE Crash
  <2>1. /\ delegations'[i] = "absent" /\ owner' = owner
        /\ \A c \in Calls : calls'[c].pc = "idle"
    BY <1>1 DEF Crash, Idle, Call
  <2>2. ~Busy(i, {"validate", "build"})'
    BY <2>1 DEF Busy, On
  <2>3. CASE owner[i] = 0
    BY <2>1, <2>3 DEF Phase, Stays
  <2>4. CASE owner[i] # 0
    BY <2>1, <2>2, <2>4 DEF Phase, PhaseOf, Stays, Leaves
  <2> QED BY <2>1, <2>3, <2>4
<1>2. CASE Initialize
  <2>1. calls' = calls /\ owner' = owner /\ delegations' = delegations
    BY <1>2 DEF Initialize, maps
  <2>2. Busy(i, {"validate", "build"})' <=> Busy(i, {"validate", "build"})
    BY <2>1 DEF Busy, On
  <2> QED BY <2>1, <2>2 DEF Phase, Stays
<1> QED BY <1>1, <1>2
=============================================================================
