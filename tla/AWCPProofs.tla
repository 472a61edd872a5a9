------------------------------ MODULE AWCPProofs ------------------------------
(***************************************************************************)
(* Proofs about AWCP, for every number of calls in flight and of starts of *)
(* either process.  What holds of each service alone is taken from its own *)
(* proofs, by way of its instance.                                         *)
(***************************************************************************)
EXTENDS AWCP, TLAPS

(***************************************************************************)
(* Each service behaves as its own specification says.                     *)
(***************************************************************************)
LEMMA ServiceConstants == D!ConstantsAssumption /\ E!ConstantsAssumption
  BY ConstantsAssumption DEF D!ConstantsAssumption, E!ConstantsAssumption

LEMMA DelegatorIsIdle ==
  ASSUME UNCHANGED delegator
  PROVE  UNCHANGED D!vars
  BY DEF delegator, D!vars, D!process, D!maps, D!storage

LEMMA ExecutorIsIdle ==
  ASSUME UNCHANGED executor
  PROVE  UNCHANGED E!vars
  BY DEF executor, E!vars, E!process, E!maps, E!storage

LEMMA DelegatorSteps ==
  ASSUME NEW c \in DCalls, DelegatorStep(c)
  PROVE  [D!Next]_(D!vars)
<1>1. CASE DelegatorAlone(c)
  BY <1>1 DEF DelegatorAlone, DelegatorWorks, D!Next, D!Start, D!Consume, D!Reclaim
<1>2. CASE Invites(c) \/ HearsAnswer(c) \/ Subscribes(c) \/ SendsCancel(c)
  BY <1>2 DEF Invites, HearsAnswer, Subscribes, SendsCancel, D!Next, D!Start, D!Reclaim
<1>3. CASE ReadsEvent(c)
  BY <1>3, DelegatorIsIdle DEF ReadsEvent, D!Next, D!Consume
<1> QED BY <1>1, <1>2, <1>3 DEF DelegatorStep

LEMMA DelegatorRuns ==
  ASSUME [Next]_vars
  PROVE  [D!Next]_(D!vars)
<1>1. CASE DelegatorAsked
  BY <1>1 DEF DelegatorAsked, DSlot, D!Next, D!Request
<1>2. CASE DelegatorStops \/ DelegatorStarts
  BY <1>2 DEF DelegatorStops, DelegatorStarts, D!Next
<1>3. CASE StreamCutHere
  BY <1>3 DEF StreamCutHere, D!Next, D!Consume
<1>4. CASE UNCHANGED delegator
  BY <1>4, DelegatorIsIdle
<1>5. CASE \/ \E w \in ECalls : ExecutorWorks(w)
           \/ \E w \in ESlot, kind \in Kinds : ExecutorReceives(w, kind)
           \/ \E kind \in Kinds : ExecutorRefuses(kind)
           \/ ExecutorForgets \/ ExecutorSweeps \/ StreamCut
           \/ ExecutorStops \/ ExecutorStarts \/ UNCHANGED vars
  BY <1>4, <1>5 DEF ExecutorWorks, ExecutorReceives, ExecutorRefuses, ExecutorForgets,
     ExecutorSweeps, StreamCut, ExecutorStops, ExecutorStarts, vars
<1> QED BY <1>1, <1>2, <1>3, <1>5, DelegatorSteps DEF Next

LEMMA ExecutorRuns ==
  ASSUME [Next]_vars
  PROVE  [E!Next]_(E!vars)
<1>1. CASE \E w \in ECalls : ExecutorWorks(w)
  BY <1>1 DEF ExecutorWorks, E!Next
<1>2. CASE \E w \in ESlot, kind \in Kinds : ExecutorReceives(w, kind)
  BY <1>2 DEF ExecutorReceives, Handles, ESlot, E!Next, E!Request
<1>3. CASE ExecutorForgets
  BY <1>3, ExecutorIsIdle DEF ExecutorForgets, ESlot, E!Next, E!Request
<1>4. CASE ExecutorSweeps
  BY <1>4 DEF ExecutorSweeps, ESlot, E!Next, E!Request
<1>5. CASE StreamCut \/ ExecutorStops \/ ExecutorStarts
  BY <1>5 DEF StreamCut, ExecutorStops, ExecutorStarts, E!Next
<1>6. CASE \E c \in DCalls : Subscribes(c)
  BY <1>6 DEF Subscribes, E!Next
<1>7. CASE UNCHANGED executor
  BY <1>7, ExecutorIsIdle
<1>8. CASE \/ \E c \in DCalls : \/ DelegatorAlone(c) \/ Invites(c) \/ HearsAnswer(c)
                                \/ ReadsEvent(c) \/ SendsCancel(c)
           \/ DelegatorAsked \/ DelegatorStops \/ DelegatorStarts
           \/ \E kind \in Kinds : ExecutorRefuses(kind)
           \/ StreamCutHere \/ UNCHANGED vars
  BY <1>7, <1>8 DEF DelegatorAlone, Invites, HearsAnswer, ReadsEvent, SendsCancel,
     DelegatorAsked, DelegatorStops, DelegatorStarts, ExecutorRefuses, StreamCutHere, vars
<1> QED BY <1>1, <1>2, <1>3, <1>4, <1>5, <1>6, <1>8 DEF Next, DelegatorStep

\* In each other's company the two services do what their own specifications
\* allow: what either module assumes of its peer is what the other one does.
THEOREM ServicesRun == Spec => D!Spec /\ E!Spec
<1>1. Init => D!Init /\ E!Init
  BY DEF Init
<1>2. [Next]_vars => [D!Next]_(D!vars) /\ [E!Next]_(E!vars)
  BY DelegatorRuns, ExecutorRuns
<1> QED BY <1>1, <1>2, PTL DEF Spec, D!Spec, E!Spec

(***************************************************************************)
(* What holds of each service here, from its own theorems.                 *)
(***************************************************************************)
Services ==
  /\ D!CleanInv /\ D!FailedLeavesNothing /\ D!CompletedIsReclaimed /\ D!StartedIsHeard
  /\ E!OnceInv /\ E!ActiveHasWorker /\ E!DoneMeansCompleted

\* The inductive invariants of the services hold side by side.
THEOREM ServicesHold == Spec => []Services
<1>1. D!Spec => []D!CleanInv
  BY ServiceConstants, D!CleanInvariant
<1>2. D!Spec => []D!FailedLeavesNothing /\ []D!CompletedIsReclaimed /\ []D!StartedIsHeard
  BY ServiceConstants, D!FailedGone, D!CompletedReclaimed, D!StartedHeard
<1>3. E!Spec => []E!OnceInv
  BY ServiceConstants, E!OnceInvariant
<1>4. E!Spec => []E!ActiveHasWorker /\ []E!DoneMeansCompleted
  BY ServiceConstants, E!WorkersAtWork, E!DoneCompleted
<1>5. D!CleanInv /\ D!FailedLeavesNothing /\ D!CompletedIsReclaimed /\ D!StartedIsHeard
        /\ E!OnceInv /\ E!ActiveHasWorker /\ E!DoneMeansCompleted => Services
  BY DEF Services
<1> QED BY <1>1, <1>2, <1>3, <1>4, <1>5, ServicesRun, PTL

(***************************************************************************)
(* The invariant of the exchange.                                          *)
(***************************************************************************)
DBusy(pcs) == \E c \in DCalls : dCalls[c].pc \in pcs
EBusy(pcs) == E!Busy(Id, pcs)
State == assignments[Id].state
Said(event) == \E k \in 1..Len(unread) : unread[k] = event
Following == {"consume", "receive", "persistSnapshot"}

\* Nothing has begun at the Executor before START was sent, and what is said
\* and recorded as done has been done.
WorkIsAsked ==
  /\ View \in {"none", "offered"} => work = "none"
  /\ work = "none" => /\ "START" \notin wire /\ ~EBusy(E!Thread)
                      /\ State \notin {"active", "completed"}
  /\ "START" \in wire => /\ work = "requested" /\ ~EBusy(E!Thread)
                         /\ State \notin {"active", "completed"}
  /\ EBusy(E!Unstarted) => work = "requested"
  /\ EBusy(E!Executing) => work = "running"
  /\ Said("done") \/ State = "completed" \/ DBusy({"ack"}) => work = "done"

\* A request is answered by the call that serves it.
On(w, pcs) == E!On(w, Id, pcs)
ServesItsRequest ==
  \A w \in ECalls :
    /\ serving[w] = "START" => On(w, {"persistStart"})
    /\ serving[w] = "CANCEL" => On(w, {"persistCancel", "detachCancel"})
    /\ serving[w] = "INVITE" => On(w, {"admission", "persistInvite"})
    /\ serving[w] # "ack"

\* START was taken, and the task is on its way; a confirmed CANCEL has ended
\* the assignment.
Begun == minted[Id] = 1 /\ State # "pending" /\ ~EBusy({"persistStart"})
Over == minted[Id] = 1 /\ State \notin {"pending", "active", "completed"}
AnswersMean ==
  /\ "START" \in answers \/ DBusy(Following) => Begun
  /\ "CANCEL" \in answers => Over

\* A stream that has ended has said so to its reader.
EndIsToRead ==
  Connected /\ stream[Id].on = 0 =>
    unread # <<>> /\ unread[Len(unread)] \in {"done", "error", "lost"}

ExchangeInv ==
  TypeOK /\ WorkIsAsked /\ ServesItsRequest /\ AnswersMean /\ EndIsToRead

(***************************************************************************)
(* The last word of a broken connection is that it broke.                  *)
(***************************************************************************)
LEMMA BrokenStream ==
  ASSUME NEW events \in Seq(Events), NEW b \in Broken(events)
  PROVE  /\ b \in Seq(Events) /\ b # <<>> /\ b[Len(b)] = "lost"
         /\ \A k \in 1..Len(b) : b[k] = "done" =>
              \E j \in 1..Len(events) : events[j] = "done"
<1>1. PICK n \in 0..Len(events) : b = Append(SubSeq(events, 1, n), "lost")
  BY DEF Broken
<1>2. SubSeq(events, 1, n) \in Seq(Events) /\ Len(SubSeq(events, 1, n)) = n
      /\ \A k \in 1..n : SubSeq(events, 1, n)[k] = events[k]
  OBVIOUS
<1> QED BY <1>1, <1>2 DEF Events

(***************************************************************************)
(* The properties follow from the two invariants.                          *)
(***************************************************************************)
LEMMA InFlightHere ==
  ASSUME Services
  PROVE  /\ \A c \in DCalls : dCalls[c].pc # "idle" => dCalls[c].id = Id
         /\ \A w \in ECalls : eCalls[w].pc # "idle" => eCalls[w].id = Id
  BY DEF Services, D!CleanInv, D!Working, E!OnceInv, E!ExecutorInv, E!SlotsNamed

LEMMA WaitsJustified ==
  ASSUME Services, ExchangeInv
  PROVE  WaitIsJustified
<1> SUFFICES ASSUME NEW c \in DCalls, D!At(c, "consume"), unread = <<>>
             PROVE  \E w \in ECalls : /\ stream[Id].on # 0 /\ stream[Id].on = eCalls[w].emitter
                                      /\ eCalls[w].pc \in E!Working
  BY DEF WaitIsJustified
<1>1. Connected /\ DBusy(Following)
  BY DEF D!At, Connected, Listening, DBusy, Following
<1>2. stream[Id].on # 0 /\ Begun
  BY <1>1 DEF ExchangeInv, EndIsToRead, AnswersMean
<1>3. E!IdInv(Id)
  BY DEF Services, E!OnceInv
<1>4. State = "active" /\ stream[Id].on = 1
  BY <1>2, <1>3 DEF E!IdInv, E!StreamIsLive, E!StreamAgrees, Begun, State
<1>5. PICK w \in ECalls : eCalls[w].id = Id /\ E!Worker(w)
  BY <1>4 DEF Services, E!ActiveHasWorker, E!Active, E!InFlight, State
<1>6. eCalls[w].pc \in E!Working
  BY <1>2, <1>5 DEF E!Worker, Begun, EBusy, E!Busy, E!On
<1>7. eCalls[w].emitter = 1
  BY <1>3, <1>5, <1>6 DEF E!IdInv, E!OneObject, E!On
<1> QED BY <1>2, <1>4, <1>6, <1>7

LEMMA ConfirmedHolds ==
  ASSUME ExchangeInv
  PROVE  ConfirmedCancelHolds
  BY DEF ExchangeInv, AnswersMean, Over, State, ConfirmedCancelHolds

ViewAgrees == View = D!Phase(Id)

LEMMA ViewIsPhase == Services => ViewAgrees
<1> SUFFICES ASSUME Services PROVE View = D!Phase(Id)
  BY DEF ViewAgrees
<1>1. (\E c \in DCalls : Building(c)) <=> D!Busy(Id, {"validate", "build"})
  BY InFlightHere DEF Building, D!Busy, D!On
<1>2. owner[Id] = 0 \/ (\E c \in DCalls : Building(c)) => delegations[Id] = "absent"
  BY <1>1 DEF Services, D!CleanInv, D!IdInv, D!FreshIsNowhere, D!EarlyIsAlone, D!Known, D!Busy
<1>3. CASE owner[Id] = 0 \/ \E c \in DCalls : Building(c)
  BY <1>1, <1>2, <1>3 DEF View, D!Phase, D!Known
<1>4. CASE ~(owner[Id] = 0 \/ \E c \in DCalls : Building(c))
  BY <1>1, <1>4 DEF View, D!Phase, D!PhaseOf, D!Known
<1> QED BY <1>3, <1>4

LEMMA ViewIsPhaseAfter == Services' => ViewAgrees'
  BY ViewIsPhase, PTL

(***************************************************************************)
(* Steps of the Delegator.                                                 *)
(***************************************************************************)
\* No call starts to follow the stream, or to acknowledge.
Quiet ==
  /\ Connected' => Connected
  /\ DBusy({"ack"})' => DBusy({"ack"})
  /\ DBusy(Following)' => DBusy(Following)
Kept == View' = View
Ended == View \in {"offered", "started"} /\ View' = "ended"
Gone == View # "gone" /\ View' = "gone"
Completed == View = "started" /\ View' = "completed" /\ DBusy({"ack"})

LEMMA SlotQuiet ==
  ASSUME NEW c \in DCalls, \A d \in DCalls \ {c} : dCalls'[d] = dCalls[d],
         dCalls'[c].pc \notin {"start", "receive", "ack"},
         dCalls'[c].pc = "consume" => dCalls[c].pc = "persistSnapshot",
         dCalls'[c].pc = "persistSnapshot" => dCalls[c].pc = "receive"
  PROVE  Quiet
<1>1. Listening(c)' => Listening(c)
  BY DEF Listening
<1>2. dCalls'[c].pc \in Following => dCalls[c].pc \in Following
  BY DEF Following
<1> QED BY <1>1, <1>2 DEF Quiet, Connected, Listening, DBusy

\* The slot of a step is in flight for the delegation.
LEMMA SlotHere ==
  ASSUME Services, NEW c \in DCalls, dCalls[c].pc # "idle"
  PROVE  Id = dCalls[c].id
  BY InFlightHere

LEMMA AloneViewed ==
  ASSUME Services, Services', NEW c \in DCalls, DelegatorWorks(c)
  PROVE  Quiet /\ (Kept \/ Ended \/ Gone \/ Completed)
<1>1. D!CleanInv /\ D!Unheard(c)
  BY DEF DelegatorWorks, D!Unheard, D!InviteFails, Services
<1>2. dCalls[c].pc # "idle"
  BY DEF DelegatorWorks, D!At, D!ValidationFails, D!Validated, D!EnvironmentExists,
     D!BuildFails, D!InviteFails, D!DeclinePersisted, D!TransportPrepared,
     D!AcceptFails, D!AcceptDetached, D!UndoDetached, D!UndoTransport,
     D!UndoEnvironment, D!UndoFile, D!SnapshotReceived, D!SnapshotPersisted,
     D!Acknowledged, D!DonePersisted, D!DoneDetached, D!DoneEnvironment,
     D!EndPersisted, D!CancelSent, D!CancelDetached
<1>3. /\ D!SlotStep(c)
      /\ \/ D!Stays(Id) \/ D!Ends(Id) \/ D!Leaves(Id)
         \/ dCalls[c].pc = "ack" /\ D!Phase(Id) = "started" /\ D!Phase(Id)' = "completed"
      /\ dCalls'[c].pc \notin {"start", "receive", "ack"}
      /\ dCalls'[c].pc = "consume" => dCalls[c].pc = "persistSnapshot"
      /\ dCalls'[c].pc = "persistSnapshot" => dCalls[c].pc = "receive"
  BY <1>1, <1>2, SlotHere, D!UnheardReport, ServiceConstants
<1>4. Quiet
  BY <1>3, SlotQuiet DEF D!SlotStep
<1>5. View = D!Phase(Id) /\ View' = D!Phase(Id)'
  BY ViewIsPhase, ViewIsPhaseAfter DEF ViewAgrees
<1>6. dCalls[c].pc = "ack" => DBusy({"ack"})
  BY DEF DBusy
<1> QED BY <1>3, <1>4, <1>5, <1>6 DEF D!Stays, D!Ends, D!Leaves, Kept, Ended, Gone, Completed

\* What the invariant of the exchange asks of a step the Executor takes no
\* part in.
LEMMA DelegatorKeeps ==
  ASSUME ExchangeInv, TypeOK', UNCHANGED <<executor, serving, work>>,
         "START" \in wire' => "START" \in wire, answers' \subseteq answers,
         View' \in {"none", "offered"} => View \in {"none", "offered"},
         DBusy({"ack"})' => DBusy({"ack"}) \/ Said("done"),
         DBusy(Following)' => DBusy(Following) \/ "START" \in answers,
         Said("done")' => Said("done"),
         EndIsToRead'
  PROVE  ExchangeInv'
<1>1. /\ eCalls' = eCalls /\ assignments' = assignments /\ minted' = minted
      /\ serving' = serving /\ work' = work
  BY DEF executor
<1>2. /\ State' = State
      /\ \A pcs : EBusy(pcs)' <=> EBusy(pcs)
      /\ \A w \in ECalls : \A pcs : On(w, pcs)' <=> On(w, pcs)
  BY <1>1 DEF State, EBusy, E!Busy, On, E!On
<1>3. (Begun' <=> Begun) /\ (Over' <=> Over)
  BY <1>1, <1>2 DEF Begun, Over
<1>4. WorkIsAsked'
  BY <1>1, <1>2 DEF ExchangeInv, WorkIsAsked
<1>5. ServesItsRequest'
  BY <1>1, <1>2 DEF ExchangeInv, ServesItsRequest
<1>6. AnswersMean'
  BY <1>3 DEF ExchangeInv, AnswersMean
<1> QED BY <1>4, <1>5, <1>6 DEF ExchangeInv

\* ... when what there is to read stays, or nobody reads.
LEMMA SameUnread ==
  ASSUME ExchangeInv, Connected' => Connected, stream' = stream, Stream({unread})
  PROVE  EndIsToRead' /\ (Said("done")' => Said("done")) /\ unread' \in Seq(Events)
<1>1. CASE Connected'
  <2>1. unread' = unread
    BY <1>1 DEF Stream
  <2> QED BY <1>1, <2>1 DEF ExchangeInv, EndIsToRead, Said, TypeOK
<1>2. CASE ~Connected'
  <2>1. unread' = <<>>
    BY <1>2 DEF Stream
  <2> QED BY <1>2, <2>1 DEF EndIsToRead, Said, Events
<1> QED BY <1>1, <1>2

LEMMA AloneKeeps ==
  ASSUME Services, Services', ExchangeInv, NEW c \in DCalls, DelegatorAlone(c)
  PROVE  ExchangeInv' /\ [Promise!Next]_<<View, work>>
<1>1. /\ UNCHANGED <<executor, wire, serving, work>> /\ Stream({unread})
      /\ answers' \subseteq answers /\ stream' = stream
  BY DEF DelegatorAlone, Expected, executor
<1>2. Quiet /\ (Kept \/ Ended \/ Gone \/ Completed)
  BY AloneViewed DEF DelegatorAlone
<1>3. Connected' => Connected
  BY <1>2 DEF Quiet
<1>4. EndIsToRead' /\ (Said("done")' => Said("done")) /\ unread' \in Seq(Events)
  BY <1>1, <1>3, SameUnread
<1>5. TypeOK'
  BY <1>1, <1>4 DEF ExchangeInv, TypeOK
<1>6. View' \in {"none", "offered"} => View \in {"none", "offered"}
  BY <1>2 DEF Kept, Ended, Gone, Completed
<1>7. ExchangeInv'
  BY <1>1, <1>2, <1>4, <1>5, <1>6, DelegatorKeeps DEF Quiet
<1>8. DBusy({"ack"}) => work = "done"
  BY DEF ExchangeInv, WorkIsAsked
<1>9. [Promise!Next]_<<View, work>>
  BY <1>1, <1>2, <1>8 DEF Kept, Ended, Gone, Completed, Promise!Next, Promise!End,
     Promise!Forget, Promise!Complete
<1> QED BY <1>7, <1>9

\* A step that neither ends the delegation nor starts it.
LEMMA Unmoved ==
  ASSUME Kept \/ Ended \/ Gone, UNCHANGED work
  PROVE  /\ [Promise!Next]_<<View, work>>
         /\ View' \in {"none", "offered"} => View \in {"none", "offered"}
  BY DEF Kept, Ended, Gone, Promise!Next, Promise!End, Promise!Forget

\* One call follows the stream: when it stops, nobody does.
LEMMA Disconnects ==
  ASSUME Services, NEW c \in DCalls, dCalls[c].pc = "consume",
         \A d \in DCalls \ {c} : dCalls'[d] = dCalls[d],
         dCalls'[c].pc \notin Following \cup {"start"}
  PROVE  ~Connected'
<1> SUFFICES ASSUME NEW d \in DCalls, dCalls'[d].pc \in Following \cup {"start"}
             PROVE  FALSE
  BY DEF Connected, Listening, Following
<1>1. d # c /\ dCalls[d].pc \in Following \cup {"start"}
  OBVIOUS
<1>2. D!On(c, Id, D!Thread) /\ D!On(d, Id, D!Thread)
  BY <1>1, InFlightHere DEF D!On, D!Thread, D!Consuming, D!Starting, Following
<1> QED BY <1>1, <1>2 DEF Services, D!CleanInv, D!IdInv, D!OneThread

\* The lemmas about a call's step, for the delegation.
LEMMA HeardViewed ==
  ASSUME Services, Services', NEW c \in DCalls, dCalls[c].pc # "idle"
  PROVE  /\ D!Built(c) => Quiet /\ View = "none" /\ View' = "offered"
         /\ D!InviteAccepted(c) \/ D!InviteDeclined(c) => Quiet /\ (Kept \/ Ended \/ Gone)
         /\ D!StartSent(c) => /\ Kept /\ (Connected' => Connected)
                              /\ DBusy({"ack"})' => DBusy({"ack"})
         /\ D!CancelPersisted(c) => Quiet /\ Kept
         /\ D!EventStatus(c) => Quiet /\ Kept
         /\ D!EventSnapshot(c) => /\ Kept /\ (Connected' => Connected)
                                  /\ DBusy({"ack"})' => DBusy({"ack"})
                                  /\ DBusy(Following)
         /\ D!EventDone(c) =>
              Kept /\ ~Connected' /\ (DBusy(Following)' => DBusy(Following))
         /\ D!EventError(c) \/ D!StreamBreaks(c) =>
              Quiet /\ ~Connected' /\ (Kept \/ Ended)
<1>1. Id = dCalls[c].id /\ D!CleanInv /\ View = D!Phase(Id) /\ View' = D!Phase(Id)'
  BY SlotHere, ViewIsPhase, ViewIsPhaseAfter DEF ViewAgrees, Services
<1>2. ASSUME D!Built(c) PROVE Quiet /\ View = "none" /\ View' = "offered"
  BY <1>1, <1>2, D!HeardReport, ServiceConstants, SlotQuiet DEF D!SlotStep
<1>3. ASSUME D!InviteAccepted(c) \/ D!InviteDeclined(c)
      PROVE  Quiet /\ (Kept \/ Ended \/ Gone)
  <2>1. /\ D!SlotStep(c) /\ (D!Stays(Id) \/ D!Ends(Id) \/ D!Leaves(Id))
        /\ dCalls'[c].pc \in {"prepare", "persistDeclined", "undoTransport"}
    BY <1>1, <1>3, D!HeardReport, ServiceConstants
  <2> QED BY <1>1, <2>1, SlotQuiet
          DEF D!SlotStep, D!Stays, D!Ends, D!Leaves, Kept, Ended, Gone
<1>4. ASSUME D!StartSent(c)
      PROVE  Kept /\ (Connected' => Connected) /\ (DBusy({"ack"})' => DBusy({"ack"}))
  <2>1. D!SlotStep(c) /\ D!Stays(Id) /\ dCalls[c].pc = "start" /\ dCalls'[c].pc = "consume"
    BY <1>1, <1>4, D!HeardReport, ServiceConstants
  <2> QED BY <1>1, <2>1 DEF D!SlotStep, D!Stays, Kept, Connected, Listening, DBusy
<1>5. ASSUME D!CancelPersisted(c) PROVE Quiet /\ Kept
  <2>1. D!SlotStep(c) /\ D!Stays(Id) /\ dCalls'[c].pc = "sendCancel"
    BY <1>1, <1>5, D!HeardReport, ServiceConstants
  <2> QED BY <1>1, <2>1, SlotQuiet DEF D!SlotStep, D!Stays, Kept
<1>6. ASSUME D!EventStatus(c) PROVE Quiet /\ Kept
  <2>1. D!Stays(Id) /\ dCalls' = dCalls
    BY <1>1, <1>6, D!HeardReport, ServiceConstants
  <2> QED BY <1>1, <2>1 DEF D!Stays, Kept, Quiet, Connected, Listening, DBusy
<1>7. ASSUME D!EventSnapshot(c)
      PROVE  /\ Kept /\ (Connected' => Connected) /\ (DBusy({"ack"})' => DBusy({"ack"}))
             /\ DBusy(Following)
  <2>1. D!SlotStep(c) /\ D!Stays(Id) /\ dCalls[c].pc = "consume" /\ dCalls'[c].pc = "receive"
    BY <1>1, <1>7, D!HeardReport, ServiceConstants
  <2> QED BY <1>1, <2>1 DEF D!SlotStep, D!Stays, Kept, Connected, Listening, DBusy, Following
<1>8. ASSUME D!EventDone(c)
      PROVE  Kept /\ ~Connected' /\ (DBusy(Following)' => DBusy(Following))
  <2>1. /\ D!SlotStep(c) /\ D!Stays(Id) /\ dCalls[c].pc = "consume"
        /\ dCalls'[c].pc \in {"ack", "idle"}
    BY <1>1, <1>8, D!HeardReport, ServiceConstants
  <2> QED BY <1>1, <2>1, Disconnects DEF D!SlotStep, D!Stays, Kept, DBusy, Following
<1>9. ASSUME D!EventError(c) \/ D!StreamBreaks(c)
      PROVE  Quiet /\ ~Connected' /\ (Kept \/ Ended)
  <2>1. /\ D!SlotStep(c) /\ (D!Stays(Id) \/ D!Ends(Id)) /\ dCalls[c].pc = "consume"
        /\ dCalls'[c].pc \in {"persistError", "persistLost", "idle"}
    BY <1>1, <1>9, D!HeardReport, ServiceConstants
  <2>2. \A d \in DCalls \ {c} : dCalls'[d] = dCalls[d]
    BY <2>1 DEF D!SlotStep
  <2>3. Quiet
    BY <2>1, <2>2, SlotQuiet
  <2>4. ~Connected'
    <3>1. dCalls'[c].pc \notin Following \cup {"start"}
      BY <2>1 DEF Following
    <3> QED BY <2>1, <2>2, <3>1, Disconnects
  <2>5. Kept \/ Ended
    BY <1>1, <2>1 DEF D!Stays, D!Ends, Kept, Ended
  <2> QED BY <2>3, <2>4, <2>5
<1> QED BY <1>2, <1>3, <1>4, <1>5, <1>6, <1>7, <1>8, <1>9

\* Nothing is read and nobody begins to: what is to be read is as it was.
LEMMA UnreadAsWas ==
  ASSUME ExchangeInv, UNCHANGED <<executor, unread>>, Connected' => Connected
  PROVE  EndIsToRead' /\ (Said("done")' => Said("done"))
<1>1. stream' = stream /\ unread' = unread
  BY DEF executor
<1> QED BY <1>1 DEF ExchangeInv, EndIsToRead, Said

LEMMA InvitesKeeps ==
  ASSUME Services, Services', ExchangeInv, NEW c \in DCalls, Invites(c) \/ SendsCancel(c)
  PROVE  ExchangeInv' /\ [Promise!Next]_<<View, work>>
<1>1. /\ UNCHANGED <<executor, serving, answers, unread, work>>
      /\ wire' \in {wire \cup {"INVITE"}, wire \cup {"CANCEL"}}
  BY DEF Invites, SendsCancel, Send
<1>2. dCalls[c].pc # "idle"
  BY DEF Invites, SendsCancel, D!Built, D!CancelPersisted, D!At
<1>3. Quiet /\ (Kept \/ (View = "none" /\ View' = "offered"))
  BY <1>2, HeardViewed DEF Invites, SendsCancel
<1>4. EndIsToRead' /\ (Said("done")' => Said("done"))
  BY <1>1, <1>3, UnreadAsWas DEF Quiet
<1>5. TypeOK'
  BY <1>1 DEF ExchangeInv, TypeOK, Kinds
<1>6. ExchangeInv'
  BY <1>1, <1>3, <1>4, <1>5, DelegatorKeeps DEF Quiet, Kept
<1>7. [Promise!Next]_<<View, work>>
  BY <1>1, <1>3 DEF Kept, Promise!Next, Promise!Offer
<1> QED BY <1>6, <1>7

LEMMA HearsKeeps ==
  ASSUME Services, Services', ExchangeInv, NEW c \in DCalls, HearsAnswer(c)
  PROVE  ExchangeInv' /\ [Promise!Next]_<<View, work>>
<1>1. /\ UNCHANGED <<executor, wire, serving, unread, work>>
      /\ answers' \subseteq answers
  BY DEF HearsAnswer, Expected
<1>2. dCalls[c].pc # "idle"
  BY DEF HearsAnswer, D!InviteAccepted, D!InviteDeclined, D!StartSent, D!At
<1>3. /\ Connected' => Connected
      /\ DBusy({"ack"})' => DBusy({"ack"})
      /\ DBusy(Following)' => DBusy(Following) \/ "START" \in answers
      /\ Kept \/ Ended \/ Gone
  BY <1>2, HeardViewed DEF HearsAnswer, Quiet
<1>4. EndIsToRead' /\ (Said("done")' => Said("done"))
  BY <1>1, <1>3, UnreadAsWas
<1>5. TypeOK'
  BY <1>1 DEF ExchangeInv, TypeOK
<1> QED BY <1>1, <1>3, <1>4, <1>5, Unmoved, DelegatorKeeps

LEMMA LifeKeeps ==
  ASSUME Services, Services', ExchangeInv,
         DelegatorAsked \/ DelegatorStops \/ DelegatorStarts
  PROVE  ExchangeInv' /\ [Promise!Next]_<<View, work>>
<1>1. D!CleanInv /\ View = D!Phase(Id) /\ View' = D!Phase(Id)'
  BY ViewIsPhase, ViewIsPhaseAfter DEF ViewAgrees, Services
<1>2. /\ UNCHANGED <<executor, wire, serving, work>> /\ answers' \subseteq answers
      /\ \/ UNCHANGED unread
         \/ Stream({unread})
      /\ stream' = stream
  BY DEF DelegatorAsked, DelegatorStops, DelegatorStarts, network, Expected, executor
<1>3. Quiet /\ (Kept \/ Ended \/ Gone)
  <2>1. CASE DelegatorAsked
    <3>1. PICK c \in DCalls : D!Delegate(c, Id) \/ D!Cancel(c, Id)
      BY <2>1 DEF DelegatorAsked, DSlot
    <3>2. /\ D!Stays(Id) \/ D!Ends(Id)
          /\ \A d \in DCalls \ {c} : dCalls'[d] = dCalls[d]
          /\ dCalls'[c].pc \in {"validate", "persistCancel"}
      BY <1>1, <3>1, D!AskedReport, ServiceConstants
    <3> QED BY <1>1, <3>2, SlotQuiet DEF D!Stays, D!Ends, Kept, Ended
  <2>2. CASE DelegatorStops \/ DelegatorStarts
    <3>1. /\ D!Stays(Id) \/ D!Leaves(Id)
          /\ dCalls' = dCalls \/ \A c \in DCalls : dCalls'[c].pc = "idle"
      BY <1>1, <2>2, D!LifeReport, ServiceConstants DEF DelegatorStops, DelegatorStarts
    <3> QED BY <1>1, <3>1 DEF D!Stays, D!Leaves, Kept, Gone, Quiet, Connected,
            Listening, DBusy, Following
  <2> QED BY <2>1, <2>2
<1>4. /\ EndIsToRead' /\ (Said("done")' => Said("done")) /\ unread' \in Seq(Events)
  BY <1>2, <1>3, UnreadAsWas, SameUnread DEF Quiet, ExchangeInv, TypeOK
<1>5. TypeOK'
  BY <1>2, <1>4 DEF ExchangeInv, TypeOK
<1> QED BY <1>2, <1>3, <1>4, <1>5, Unmoved, DelegatorKeeps DEF Quiet

LEMMA UntouchedViewed ==
  ASSUME UNCHANGED delegator
  PROVE  Kept /\ Quiet
  BY DEF delegator, Kept, View, Building, D!Known, Quiet, Connected, Listening, DBusy

LEMMA ReadsKeeps ==
  ASSUME Services, Services', ExchangeInv, NEW c \in DCalls, ReadsEvent(c)
  PROVE  ExchangeInv' /\ [Promise!Next]_<<View, work>>
<1> DEFINE event == Head(unread)
<1>1. /\ UNCHANGED <<executor, serving, answers, work>> /\ stream' = stream
      /\ unread # <<>> /\ Stream({Tail(unread)}) /\ wire' \in {wire, wire \cup {"ack"}}
      /\ dCalls[c].pc = "consume"
  BY DEF ReadsEvent, executor, Send, D!At
<1>2. unread \in Seq(Events) /\ unread' \in {Tail(unread), <<>>}
  BY <1>1 DEF ExchangeInv, TypeOK, Stream
<1>3. Said("done")' => Said("done")
  <2>1. CASE unread' = Tail(unread)
    <3>1. Len(Tail(unread)) = Len(unread) - 1 /\ Len(unread) \in Nat
          /\ \A k \in 1..Len(Tail(unread)) : Tail(unread)[k] = unread[k + 1]
      BY <1>1, <1>2
    <3> QED BY <2>1, <3>1 DEF Said
  <2>2. CASE unread' = <<>>
    <3>1. Len(<<>>) = 0
      OBVIOUS
    <3> QED BY <2>2, <3>1 DEF Said
  <2> QED BY <1>2, <2>1, <2>2
<1>4. TypeOK'
  <2>1. Tail(unread) \in Seq(Events) /\ <<>> \in Seq(Events)
    <3>1. \A S : \A s \in Seq(S) : s # <<>> => Tail(s) \in Seq(S)
      OBVIOUS
    <3>2. \A S : <<>> \in Seq(S)
      OBVIOUS
    <3> QED BY <1>1, <1>2, <3>1, <3>2
  <2>2. unread' \in Seq(Events)
    BY <1>2, <2>1
  <2> QED BY <1>1, <2>2 DEF ExchangeInv, TypeOK, Kinds
<1>5. CASE event \in {"status", "snapshot"}
  <2>1. /\ Kept /\ (Connected' => Connected)
        /\ DBusy({"ack"})' => DBusy({"ack"})
        /\ DBusy(Following)' => DBusy(Following)
    <3>1. D!EventStatus(c) \/ D!EventSnapshot(c) \/ UNCHANGED delegator
      BY <1>5 DEF ReadsEvent
    <3> QED BY <1>1, <3>1, HeardViewed, UntouchedViewed DEF Quiet
  <2>2. EndIsToRead'
    <3> SUFFICES ASSUME Connected', stream[Id].on = 0
                 PROVE  unread' # <<>> /\ unread'[Len(unread')] \in {"done", "error", "lost"}
      BY <1>1 DEF EndIsToRead
    <3>1. unread[Len(unread)] \in {"done", "error", "lost"}
      BY <2>1 DEF ExchangeInv, EndIsToRead
    <3>2. Len(unread) > 1 /\ unread' = Tail(unread)
      BY <1>1, <1>2, <1>5, <3>1 DEF Stream
    <3> QED BY <1>2, <3>1, <3>2
  <2> QED BY <1>1, <1>3, <1>4, <2>1, <2>2, Unmoved, DelegatorKeeps
<1>6. CASE event \notin {"status", "snapshot"}
  <2>1. /\ ~Connected' /\ (Kept \/ Ended)
        /\ DBusy({"ack"})' => DBusy({"ack"}) \/ Said("done")
        /\ DBusy(Following)' => DBusy(Following)
    <3>1. CASE event = "done"
      <4>1. Said("done")
        BY <1>1, <1>2, <3>1 DEF Said
      <4>2. D!EventDone(c)
        BY <1>6, <3>1 DEF ReadsEvent
      <4> QED BY <1>1, <4>1, <4>2, HeardViewed
    <3>2. CASE event # "done"
      <4>1. D!EventError(c) \/ D!StreamBreaks(c)
        BY <1>6, <3>2 DEF ReadsEvent
      <4> QED BY <1>1, <4>1, HeardViewed DEF Quiet
    <3> QED BY <3>1, <3>2
  <2>2. EndIsToRead'
    BY <2>1 DEF EndIsToRead
  <2> QED BY <1>1, <1>3, <1>4, <2>1, <2>2, Unmoved, DelegatorKeeps
<1> QED BY <1>5, <1>6

LEMMA CutHereKeeps ==
  ASSUME Services, Services', ExchangeInv, StreamCutHere
  PROVE  ExchangeInv' /\ [Promise!Next]_<<View, work>>
<1>1. PICK c \in DCalls : D!StreamBreaks(c)
  BY DEF StreamCutHere
<1>2. /\ UNCHANGED <<executor, wire, serving, answers, work>> /\ unread' = <<>>
      /\ dCalls[c].pc # "idle"
  BY <1>1 DEF StreamCutHere, D!StreamBreaks, D!At
<1>3. Quiet /\ ~Connected' /\ (Kept \/ Ended)
  BY <1>1, <1>2, HeardViewed
<1>4. EndIsToRead' /\ ~Said("done")'
  BY <1>2, <1>3 DEF EndIsToRead, Said
<1>5. TypeOK'
  BY <1>2 DEF ExchangeInv, TypeOK
<1> QED BY <1>2, <1>3, <1>4, <1>5, Unmoved, DelegatorKeeps DEF Quiet

\* The GET is answered, and START goes out.
LEMMA SubscribesKeeps ==
  ASSUME Services, Services', ExchangeInv, NEW c \in DCalls, Subscribes(c)
  PROVE  ExchangeInv' /\ [Promise!Next]_<<View, work>>
<1>1. /\ D!StreamConnected(c) /\ E!SubscribeTask(Id)
      /\ Stream({IF stream'[Id].on = 0 THEN <<stream'[Id].heard>> ELSE <<>>})
      /\ IF dCalls'[c].pc = "start"
         THEN wire' = wire \cup {"START"} /\ work' = "requested"
         ELSE wire' = wire /\ work' = work
      /\ serving' = serving /\ answers' = answers
  BY DEF Subscribes, Send
<1>2. dCalls[c].pc # "idle" /\ D!CleanInv /\ E!OnceInv /\ E!OnceInv'
  BY <1>1 DEF D!StreamConnected, D!At, Services
<1>3. View = D!Phase(Id) /\ View' = D!Phase(Id)' /\ Id = dCalls[c].id
  BY <1>2, SlotHere, ViewIsPhase, ViewIsPhaseAfter DEF ViewAgrees
<1>4. /\ \A d \in DCalls \ {c} : dCalls'[d] = dCalls[d]
      /\ dCalls[c].pc = "connect"
      /\ \/ dCalls'[c].pc = "start" /\ View = "offered" /\ View' = "started"
         \/ dCalls'[c].pc = "acceptDetach" /\ View' = View
  BY <1>1, <1>2, <1>3, D!HeardReport, ServiceConstants DEF D!SlotStep, D!Stays
<1>5. /\ DBusy({"ack"})' => DBusy({"ack"})
      /\ DBusy(Following)' => DBusy(Following)
  BY <1>4 DEF DBusy, Following
<1>6. /\ minted' = minted /\ eCalls' = eCalls /\ assignments' = assignments
      /\ IF State \in {"pending", "active"} THEN stream'[Id].on # 0
         ELSE /\ stream'[Id].on = 0
              /\ stream'[Id].heard = IF State = "completed" THEN "done" ELSE "error"
  <2>1. ~E!Crash
    BY <1>1 DEF E!SubscribeTask, E!Crash, E!Die, E!process
  <2> QED BY <1>1, <1>2, <2>1, E!LifeReport, ServiceConstants DEF State
<1>7. /\ State' = State
      /\ \A pcs : EBusy(pcs)' <=> EBusy(pcs)
      /\ \A w \in ECalls : \A pcs : On(w, pcs)' <=> On(w, pcs)
  BY <1>6 DEF State, EBusy, E!Busy, On, E!On
<1>8. (Begun' <=> Begun) /\ (Over' <=> Over)
  BY <1>6, <1>7 DEF Begun, Over
<1>9. unread' \in Seq(Events) /\ (Said("done")' => State = "completed")
  <2>1. unread' = <<>> \/ unread' = <<"error">> \/ (unread' = <<"done">> /\ State = "completed")
    BY <1>1, <1>6 DEF Stream
  <2>2. /\ <<>> \in Seq(Events) /\ Len(<<>>) = 0
        /\ \A e \in Events : /\ <<e>> \in Seq(Events) /\ Len(<<e>>) = 1
                            /\ <<e>>[1] = e
    OBVIOUS
  <2>3. "error" \in Events /\ "done" \in Events
    BY DEF Events
  <2>4. unread' \in Seq(Events)
    BY <2>1, <2>2, <2>3
  <2>5. ASSUME Said("done")' PROVE State = "completed"
    <3>1. PICK k \in 1..Len(unread') : unread'[k] = "done"
      BY <2>5 DEF Said
    <3> QED BY <2>1, <2>2, <2>3, <3>1
  <2> QED BY <2>4, <2>5
<1>10. EndIsToRead'
  <2> SUFFICES ASSUME Connected', stream'[Id].on = 0
               PROVE  unread' # <<>> /\ unread'[Len(unread')] \in {"done", "error", "lost"}
    BY DEF EndIsToRead
  <2>1. unread' = <<stream'[Id].heard>> /\ stream'[Id].heard \in {"done", "error"}
    BY <1>1, <1>6 DEF Stream
  <2>2. \A e \in {"done", "error"} : <<e>> # <<>> /\ Len(<<e>>) = 1 /\ <<e>>[1] = e
    OBVIOUS
  <2> QED BY <2>1, <2>2
<1>11. TypeOK'
  BY <1>1, <1>9 DEF ExchangeInv, TypeOK, Kinds
<1>12. WorkIsAsked' /\ [Promise!Next]_<<View, work>>
  <2>1. CASE dCalls'[c].pc = "start"
    <3>1. work = "none" /\ View = "offered" /\ View' = "started" /\ work' = "requested"
      BY <1>1, <1>4, <2>1 DEF ExchangeInv, WorkIsAsked
    <3> QED BY <1>1, <1>5, <1>7, <1>9, <3>1
            DEF ExchangeInv, WorkIsAsked, Promise!Next, Promise!Start, E!Thread,
                EBusy, E!Busy, E!On, E!Unstarted, E!Executing
  <2>2. CASE dCalls'[c].pc # "start"
    BY <1>1, <1>4, <1>5, <1>7, <1>9, <2>2 DEF ExchangeInv, WorkIsAsked
  <2> QED BY <2>1, <2>2
<1>13. ServesItsRequest' /\ AnswersMean'
  BY <1>1, <1>5, <1>7, <1>8 DEF ExchangeInv, ServesItsRequest, AnswersMean
<1> QED BY <1>10, <1>11, <1>12, <1>13 DEF ExchangeInv

(***************************************************************************)
(* Steps of the Executor.                                                  *)
(***************************************************************************)
\* What is known of the delegation at the Executor, in one place.
ExecutorIsSound ==
  /\ E!IdInv(Id) /\ E!OnceInv
  /\ eCalls \in [ECalls -> E!Contexts] /\ stream[Id].on \in Nat
  /\ stream[Id].on # 0 => stream[Id].heard = "nothing" /\ eUp

LEMMA ExecutorSound == Services => ExecutorIsSound
<1> SUFFICES ASSUME Services PROVE ExecutorIsSound
  OBVIOUS
<1>1. E!OnceInv /\ E!IdInv(Id) /\ E!TypeOK
  BY DEF Services, E!OnceInv, E!ExecutorInv
<1>2. stream[Id].on \in Nat
  BY <1>1 DEF E!TypeOK, E!Streams
<1>3. stream[Id].on # 0 => stream[Id].heard = "nothing" /\ eUp
  BY <1>1 DEF E!IdInv, E!StreamAgrees, E!OnceInv, E!DownIsSilent, E!TypeOK
<1> QED BY <1>1, <1>2, <1>3 DEF E!TypeOK, ExecutorIsSound

LEMMA ExecutorSoundAfter == Services' => ExecutorIsSound'
  BY ExecutorSound, PTL

InFlightIsHere ==
  /\ \A c \in DCalls : dCalls[c].pc # "idle" => dCalls[c].id = Id
  /\ \A w \in ECalls : eCalls[w].pc # "idle" => eCalls[w].id = Id

LEMMA InFlightNow == Services => InFlightIsHere
  BY InFlightHere DEF InFlightIsHere

LEMMA InFlightAfter == Services' => InFlightIsHere'
  BY InFlightNow, PTL

\* A step of the Executor that leaves its calls and records alone, or that
\* nobody takes.
LEMMA StillKeeps ==
  ASSUME ExchangeInv, UNCHANGED delegator, eCalls' = eCalls,
         assignments' = assignments, minted' = minted, wire' \subseteq wire,
         UNCHANGED <<serving, answers, work>>, unread' \in Seq(Events),
         Said("done")' => Said("done"), EndIsToRead'
  PROVE  ExchangeInv' /\ [Promise!Next]_<<View, work>>
<1>1. Kept /\ Quiet
  BY UntouchedViewed
<1>2. /\ State' = State
      /\ \A pcs : EBusy(pcs)' <=> EBusy(pcs)
      /\ \A w \in ECalls : \A pcs : On(w, pcs)' <=> On(w, pcs)
  BY DEF State, EBusy, E!Busy, On, E!On
<1>3. (Begun' <=> Begun) /\ (Over' <=> Over)
  BY <1>2 DEF Begun, Over
<1>4. TypeOK'
  BY DEF ExchangeInv, TypeOK
<1>5. WorkIsAsked'
  BY <1>1, <1>2 DEF ExchangeInv, WorkIsAsked, Kept, Quiet
<1>6. ServesItsRequest' /\ AnswersMean'
  BY <1>1, <1>2, <1>3 DEF ExchangeInv, ServesItsRequest, AnswersMean, Quiet
<1> QED BY <1>1, <1>4, <1>5, <1>6 DEF ExchangeInv, Kept

LEMMA CutKeeps ==
  ASSUME Services, Services', ExchangeInv, StreamCut
  PROVE  ExchangeInv' /\ [Promise!Next]_<<View, work>>
<1>1. /\ E!Unsubscribe(Id) /\ UNCHANGED <<delegator, wire, serving, answers, work>>
      /\ Stream(Broken(unread)) /\ unread \in Seq(Events)
  BY DEF StreamCut, ExchangeInv, TypeOK
<1>2. /\ eCalls' = eCalls /\ assignments' = assignments /\ minted' = minted
      /\ stream'[Id].on = 0
  <2>1. ~E!Crash
    BY <1>1 DEF E!Unsubscribe, E!Crash, E!Die, E!process
  <2> QED BY <1>1, <2>1, ExecutorSound, E!LifeReport, ServiceConstants DEF ExecutorIsSound
<1>3. CASE Connected'
  <2>1. unread' \in Broken(unread)
    BY <1>1, <1>3 DEF Stream
  <2>2. /\ unread' \in Seq(Events) /\ unread' # <<>> /\ unread'[Len(unread')] = "lost"
        /\ Said("done")' => Said("done")
    BY <1>1, <2>1, BrokenStream DEF Said
  <2> QED BY <1>1, <1>2, <2>2, StillKeeps DEF EndIsToRead
<1>4. CASE ~Connected'
  <2>1. unread' = <<>> /\ <<>> \in Seq(Events) /\ ~Said("done")'
    BY <1>1, <1>4 DEF Stream, Said
  <2> QED BY <1>1, <1>2, <1>4, <2>1, StillKeeps DEF EndIsToRead
<1> QED BY <1>3, <1>4

LEMMA RefusesKeeps ==
  ASSUME Services, Services', ExchangeInv,
         (\E kind \in Kinds : ExecutorRefuses(kind)) \/ ExecutorStarts \/ UNCHANGED vars
  PROVE  ExchangeInv' /\ [Promise!Next]_<<View, work>>
<1>1. /\ UNCHANGED <<delegator, serving, answers, unread, work>> /\ wire' \subseteq wire
      /\ UNCHANGED executor \/ E!Initialize
  BY DEF ExecutorRefuses, Receive, ExecutorStarts, vars, network
<1>2. /\ eCalls' = eCalls /\ assignments' = assignments /\ minted' = minted
      /\ stream' = stream
  <2>1. CASE UNCHANGED executor
    BY <2>1 DEF executor
  <2>2. CASE E!Initialize
    <3>1. ~E!Crash
      BY <2>2 DEF E!Initialize, E!Crash, E!Die
    <3>2. eCalls' = eCalls /\ assignments' = assignments /\ minted' = minted
      BY <2>2, <3>1, ExecutorSound, E!LifeReport, ServiceConstants DEF ExecutorIsSound,
         E!Initialize, E!maps
    <3> QED BY <2>2, <3>2 DEF E!Initialize
  <2> QED BY <1>1, <2>1, <2>2
<1>3. Quiet
  BY <1>1, UntouchedViewed
<1>4. EndIsToRead' /\ (Said("done")' => Said("done"))
  BY <1>1, <1>2, <1>3 DEF ExchangeInv, EndIsToRead, Said, Quiet
<1>5. unread' \in Seq(Events)
  BY <1>1 DEF ExchangeInv, TypeOK
<1> QED BY <1>1, <1>2, <1>4, <1>5, StillKeeps

LEMMA StopsKeeps ==
  ASSUME Services, Services', ExchangeInv, ExecutorStops
  PROVE  ExchangeInv' /\ [Promise!Next]_<<View, work>>
<1>1. /\ E!Crash /\ serving' = [w \in ECalls |-> Nobody]
      /\ work' = (IF work = "running" THEN "failed" ELSE work)
      /\ UNCHANGED <<delegator, wire, answers>>
      /\ Stream(IF stream[Id].on = 0 /\ unread = <<>> THEN {unread} ELSE Broken(unread))
      /\ unread \in Seq(Events)
  BY DEF ExecutorStops, ExchangeInv, TypeOK
<1>2. /\ minted' = minted /\ State' = "absent" /\ stream'[Id].on = 0
      /\ \A w \in ECalls : eCalls'[w].pc = "idle"
  <2>1. /\ minted' = minted /\ State' = "absent" /\ stream'[Id].on = 0
        /\ \A w \in ECalls : eCalls'[w] = E!Idle
    BY <1>1, ExecutorSound, E!LifeReport, ServiceConstants
     DEF State, ExecutorIsSound
  <2> QED BY <2>1 DEF E!Idle, E!Call
<1>3. ~EBusy(E!Thread)' /\ ~EBusy(E!Unstarted)' /\ ~EBusy(E!Executing)'
      /\ ~EBusy({"persistStart"})'
  BY <1>2 DEF EBusy, E!Busy, E!On, E!Thread, E!Unstarted, E!Executing
<1>4. Kept /\ Quiet
  BY <1>1, UntouchedViewed
<1>5. EndIsToRead' /\ unread' \in Seq(Events) /\ (Said("done")' => Said("done"))
  <2>1. CASE ~Connected'
    <3>1. unread' = <<>> /\ <<>> \in Seq(Events) /\ ~Said("done")'
      BY <1>1, <2>1 DEF Stream, Said
    <3> QED BY <2>1, <3>1 DEF EndIsToRead
  <2>2. CASE Connected'
    <3>1. ~(stream[Id].on = 0 /\ unread = <<>>)
      BY <1>4, <2>2 DEF Quiet, ExchangeInv, EndIsToRead
    <3>2. unread' \in Broken(unread)
      BY <1>1, <2>2, <3>1 DEF Stream
    <3>3. /\ unread' \in Seq(Events) /\ unread' # <<>> /\ unread'[Len(unread')] = "lost"
          /\ Said("done")' => Said("done")
      BY <1>1, <3>2, BrokenStream DEF Said
    <3> QED BY <3>3 DEF EndIsToRead
  <2> QED BY <2>1, <2>2
<1>6. TypeOK'
  BY <1>1, <1>5 DEF ExchangeInv, TypeOK, Nobody
<1>7. WorkIsAsked'
  BY <1>1, <1>2, <1>3, <1>4, <1>5 DEF ExchangeInv, WorkIsAsked, Kept, Quiet
<1>8. ServesItsRequest' /\ AnswersMean'
  BY <1>1, <1>2, <1>3, <1>4 DEF ExchangeInv, ServesItsRequest, AnswersMean, Begun, Over,
     Quiet, Nobody
<1>9. [Promise!Next]_<<View, work>>
  BY <1>1, <1>4 DEF Kept, Promise!Next, Promise!Stop
<1> QED BY <1>5, <1>6, <1>7, <1>8, <1>9 DEF ExchangeInv

\* What the Executor's step sends to the subscriber.  The stream stays open
\* or shut, or it ends with an event.
SaysItsEnd ==
  \/ stream'[Id].on = stream[Id].on
  \/ /\ stream[Id].on # 0 /\ stream'[Id].on = 0
     /\ eUp' => stream'[Id].heard \in {"done", "error"}

LEMMA AppendedEvent ==
  ASSUME NEW events \in Seq(Events), NEW e \in Events
  PROVE  /\ Append(events, e) \in Seq(Events) /\ Append(events, e) # <<>>
         /\ Append(events, e)[Len(Append(events, e))] = e
         /\ \A k \in 1..Len(Append(events, e)) : Append(events, e)[k] = "done" =>
              e = "done" \/ \E j \in 1..Len(events) : events[j] = "done"
<1>1. /\ Append(events, e) \in Seq(Events) /\ Len(Append(events, e)) = Len(events) + 1
      /\ \A k \in 1..Len(events) : Append(events, e)[k] = events[k]
      /\ Append(events, e)[Len(events) + 1] = e /\ Len(events) \in Nat
  OBVIOUS
<1>2. Append(events, e) # <<>>
  BY <1>1
<1> QED BY <1>1, <1>2

LEMMA EmissionKeeps ==
  ASSUME Services, Services', ExchangeInv, NEW w \in ECalls, Stream(Emitted(w)),
         Connected' => Connected, SaysItsEnd,
         eCalls'[w].pc = "execute" => eCalls[w].emitter # 0
  PROVE  /\ EndIsToRead' /\ unread' \in Seq(Events)
         /\ Said("done")' =>
              Said("done") \/ (stream[Id].on # 0 /\ stream'[Id].heard = "done")
<1> DEFINE Says(events) == \E k \in 1..Len(events) : events[k] = "done"
           Ends(events) == events # <<>> /\ events[Len(events)] \in {"done", "error", "lost"}
           Told == Said("done") \/ (stream[Id].on # 0 /\ stream'[Id].heard = "done")
           sent == IF stream[Id].on # 0 /\ stream'[Id].heard = "done"
                   THEN {Append(unread, "done"), unread \o <<"snapshot", "done">>}
                   ELSE IF stream[Id].on # 0 /\ stream'[Id].heard = "error"
                   THEN {Append(unread, "error")}
                   ELSE IF eCalls'[w].pc = "execute" /\ stream[Id].on = eCalls[w].emitter
                   THEN {Append(unread, "status")}
                   ELSE {unread}
<1>1. unread \in Seq(Events) /\ ExecutorIsSound /\ ExecutorIsSound'
  BY ExecutorSound, ExecutorSoundAfter DEF ExchangeInv, TypeOK
<1>2. CASE ~Connected'
  <2>1. unread' = <<>> /\ <<>> \in Seq(Events) /\ ~Said("done")'
    BY <1>2 DEF Stream, Said
  <2> QED BY <1>2, <2>1 DEF EndIsToRead
<1>3. CASE Connected'
  <2>1. unread' \in Emitted(w)
    BY <1>3 DEF Stream
  <2>2. \A e \in {"status", "snapshot", "done", "error"} :
          /\ Append(unread, e) \in Seq(Events) /\ (e \in {"done", "error"} => Ends(Append(unread, e)))
          /\ Says(Append(unread, e)) => e = "done" \/ Says(unread)
    BY <1>1, AppendedEvent DEF Events
  <2>3. LET both == unread \o <<"snapshot", "done">> IN
          both \in Seq(Events) /\ Ends(both)
    <3>1. "snapshot" \in Events /\ "done" \in Events
      BY DEF Events
    <3>2. <<"snapshot", "done">> \in Seq(Events) /\ Len(<<"snapshot", "done">>) = 2
      BY <3>1
    <3> QED BY <1>1, <3>2
  <2>5. \A events \in sent : events \in Seq(Events) /\ (Says(events) => Told)
    BY <1>1, <2>2, <2>3 DEF Said
  <2>6. CASE eUp' \/ (stream[Id].on = 0 /\ unread = <<>>)
    <3>1. unread' \in sent
      BY <2>1, <2>6 DEF Emitted
    <3>2. stream'[Id].on = 0 => Ends(unread')
      <4>1. CASE stream[Id].on = 0
        <5>1. Ends(unread)
          BY <1>3, <4>1 DEF ExchangeInv, EndIsToRead
        <5>2. sent = {unread}
          BY <4>1
        <5> QED BY <3>1, <5>1, <5>2
      <4>2. CASE stream[Id].on # 0 /\ stream'[Id].on = 0
        <5>1. stream'[Id].heard \in {"done", "error"}
          BY <2>6, <4>2 DEF SaysItsEnd
        <5> QED BY <2>2, <2>3, <3>1, <4>2, <5>1
      <4> QED BY <4>1, <4>2
    <3> QED BY <2>5, <3>1, <3>2 DEF EndIsToRead, Said
  <2>7. CASE ~(eUp' \/ (stream[Id].on = 0 /\ unread = <<>>))
    <3>1. PICK events \in sent : unread' \in Broken(events)
      BY <2>1, <2>7 DEF Emitted
    <3>2. /\ unread' \in Seq(Events) /\ unread' # <<>> /\ unread'[Len(unread')] = "lost"
          /\ Says(unread') => Says(events)
      BY <2>5, <3>1, BrokenStream
    <3> QED BY <2>5, <3>2 DEF EndIsToRead, Said
  <2> QED BY <2>6, <2>7
<1> QED BY <1>2, <1>3

\* A call of the Executor that settles.
Settled(w) ==
  /\ E!Onward(w, Id) /\ E!Tells(w, Id) /\ eCalls[w].id = Id
  /\ \A v \in ECalls : eCalls'[v].pc # "idle" => eCalls'[v].id = Id
  /\ IF eUp' THEN /\ \A v \in ECalls \ {w} : eCalls'[v] = eCalls[v]
                  /\ E!Serves(eCalls[w].pc, eCalls'[w].pc)
             ELSE /\ State' = "absent"
                  /\ \A v \in ECalls : eCalls'[v].pc = "idle"

LEMMA SettlesSo ==
  ASSUME Services, Services', NEW w \in ECalls, E!Settle(w)
  PROVE  Settled(w)
<1>1. eCalls[w].pc # "idle"
  BY DEF E!Settle, E!At, E!AdmissionRefused, E!AdmissionPassed, E!InviteDiscarded,
     E!Redetached, E!AnswerPersisted, E!StartPersisted, E!Prepared, E!SetUp, E!Executed,
     E!Captured, E!TaskFails, E!TaskPersisted, E!Detached, E!CancelPersisted,
     E!PersistFails, E!Unlinked, E!SweepTransport, E!SweepWorkspace, E!SweepFile, E!Working
<1>2. Id = eCalls[w].id /\ E!OnceInv
  BY <1>1, InFlightNow, ExecutorSound DEF InFlightIsHere, ExecutorIsSound
<1>3. /\ E!Onward(w, Id) /\ E!Tells(w, Id)
      /\ IF eUp' THEN /\ \A v \in ECalls : v # w => eCalls'[v] = eCalls[v]
                      /\ eCalls'[w].id \in {Id, NoId}
                      /\ E!Serves(eCalls[w].pc, eCalls'[w].pc)
         ELSE ~E!Known(Id)' /\ \A v \in ECalls : eCalls'[v] = E!Idle
  BY <1>2, E!SettleReport, ServiceConstants
<1>4. E!Idle.pc = "idle"
  BY DEF E!Idle, E!Call
<1>5. ~E!Known(Id)' => State' = "absent"
  BY DEF E!Known, State
<1> QED BY <1>2, <1>3, <1>4, <1>5, InFlightAfter DEF Settled, InFlightIsHere

\* How the task stands, and how it then stands.
LEMMA WorkGoesOn ==
  ASSUME Services, Services', ExchangeInv, NEW w \in ECalls, Settled(w),
         work' = Progress(w)
  PROVE  /\ eCalls'[w].pc = "execute" => work = "requested" /\ work' = "running" /\ eUp'
         /\ eCalls[w].pc \in E!Executing => work = "running"
         /\ eCalls[w].pc \in E!Executing /\ eCalls'[w].pc # "capture" =>
              work' = IF State' = "completed" THEN "done" ELSE "failed"
         /\ eCalls[w].pc \notin E!Executing /\ eCalls'[w].pc # "execute" =>
              work' = IF ~eUp' /\ work = "running" THEN "failed" ELSE work
         /\ eCalls'[w].pc = "capture" => eCalls[w].pc = "execute" /\ work' = work /\ eUp'
<1>1. eCalls'[w].pc = "execute" => eUp' /\ eCalls[w].pc = "setup"
  BY DEF Settled, E!Serves
<1>2. eCalls'[w].pc = "capture" => eUp' /\ eCalls[w].pc = "execute"
  BY DEF Settled, E!Serves
<1>3. eCalls[w].pc = "setup" => work = "requested"
  BY DEF Settled, ExchangeInv, WorkIsAsked, EBusy, E!Busy, E!On, E!Unstarted
<1>4. eCalls[w].pc \in E!Executing => work = "running"
  BY DEF Settled, ExchangeInv, WorkIsAsked, EBusy, E!Busy, E!On
<1> QED BY <1>1, <1>2, <1>3, <1>4 DEF Progress, State, E!Executing

LEMMA WorksKeepsWork ==
  ASSUME Services, Services', ExchangeInv, NEW w \in ECalls, Settled(w),
         work' = Progress(w), UNCHANGED <<delegator, wire>>,
         Said("done")' =>
           Said("done") \/ (stream[Id].on # 0 /\ stream'[Id].heard = "done")
  PROVE  WorkIsAsked' /\ [Promise!Next]_<<View, work>>
<1>1. Kept /\ Quiet
  BY UntouchedViewed
<1>2. ExecutorIsSound /\ ExecutorIsSound'
  BY ExecutorSound, ExecutorSoundAfter
<1>3. /\ eCalls[w].pc \in E!Thread => EBusy(E!Thread)
      /\ eCalls[w].pc \in E!Executing => eCalls[w].pc \in E!Thread
      /\ eCalls[w].pc = "setup" => eCalls[w].pc \in E!Thread
      /\ eCalls'[w].pc = "execute" => eCalls[w].pc = "setup"
  BY DEF Settled, EBusy, E!Busy, E!On, E!Thread, E!Executing, E!Serves
<1>4. ~EBusy(E!Thread) => work' = IF ~eUp' /\ work = "running" THEN "failed" ELSE work
  BY <1>3, WorkGoesOn
<1>5. /\ EBusy(E!Thread)' => EBusy(E!Thread)
      /\ State' = "active" => State = "active"
      /\ State' = "completed" =>
           \/ State = "completed"
           \/ /\ State = "active" /\ eUp'
              /\ eCalls[w].pc = "capture" /\ eCalls'[w].pc = "persistDone"
  BY DEF Settled, E!Onward, EBusy, State
<1>6. ~EBusy(E!Thread) /\ State \notin {"active", "completed"} =>
        ~EBusy(E!Thread)' /\ State' \notin {"active", "completed"}
  BY <1>5
<1>7. View' \in {"none", "offered"} => work' = "none"
  BY <1>1, <1>4 DEF ExchangeInv, WorkIsAsked, Kept
<1>8. work' = "none" => work = "none"
  BY WorkGoesOn DEF ExchangeInv, TypeOK
<1>9. work' = "none" => /\ "START" \notin wire' /\ ~EBusy(E!Thread)'
                        /\ State' \notin {"active", "completed"}
  BY <1>6, <1>8 DEF ExchangeInv, WorkIsAsked
<1>10. "START" \in wire' => /\ work' = "requested" /\ ~EBusy(E!Thread)'
                            /\ State' \notin {"active", "completed"}
  BY <1>4, <1>6 DEF ExchangeInv, WorkIsAsked
<1>11. EBusy(E!Unstarted)' => work' = "requested"
  <2> SUFFICES ASSUME EBusy(E!Unstarted)' PROVE work' = "requested"
    OBVIOUS
  <2>1. EBusy(E!Unstarted) /\ work = "requested"
    BY DEF Settled, E!Onward, EBusy, ExchangeInv, WorkIsAsked
  <2>2. PICK v \in ECalls : eCalls'[v].id = Id /\ eCalls'[v].pc \in E!Unstarted
    BY DEF EBusy, E!Busy, E!On
  <2>3. eCalls[w].pc \notin E!Executing
    BY <2>1, WorkGoesOn
  <2>4. eCalls'[w].pc # "execute"
    <3> SUFFICES ASSUME eCalls'[w].pc = "execute" PROVE FALSE
      OBVIOUS
    <3>1. eCalls'[w].id = Id
      BY DEF Settled
    <3>2. \A u, x \in ECalls : E!On(u, Id, E!Thread)' /\ E!On(x, Id, E!Thread)' => u = x
      BY <1>2 DEF ExecutorIsSound, E!IdInv, E!OneThread
    <3>3. E!On(w, Id, E!Thread)' /\ E!On(v, Id, E!Thread)'
      BY <2>2, <3>1 DEF E!On, E!Thread, E!Unstarted
    <3>4. v = w
      BY <3>2, <3>3
    <3> QED BY <2>2, <3>4 DEF E!Unstarted
  <2> QED BY <2>1, <2>3, <2>4, WorkGoesOn
<1>12. EBusy(E!Executing)' => work' = "running"
  <2> SUFFICES ASSUME EBusy(E!Executing)' PROVE work' = "running"
    OBVIOUS
  <2>1. PICK v \in ECalls : eCalls'[v].id = Id /\ eCalls'[v].pc \in E!Executing
    BY DEF EBusy, E!Busy, E!On
  <2>2. eUp'
    BY <2>1 DEF Settled, E!Executing
  <2>3. CASE v = w
    BY <2>1, <2>3, WorkGoesOn DEF E!Executing
  <2>4. CASE v # w
    <3>1. eCalls'[v] = eCalls[v]
      BY <2>2, <2>4 DEF Settled
    <3>2. E!On(v, Id, E!Thread) /\ work = "running"
      BY <2>1, <3>1 DEF E!On, E!Thread, E!Executing, ExchangeInv, WorkIsAsked, EBusy, E!Busy
    <3>3. ~E!On(w, Id, E!Thread)
      BY <1>2, <2>4, <3>2 DEF ExecutorIsSound, E!IdInv, E!OneThread
    <3>4. eCalls[w].pc \notin E!Thread
      BY <3>3 DEF Settled, E!On
    <3> QED BY <1>3, <2>2, <3>2, <3>4, WorkGoesOn
  <2> QED BY <2>3, <2>4
<1>13. Said("done")' \/ State' = "completed" \/ DBusy({"ack"})' => work' = "done"
  <2>1. work = "done" => work' = "done"
    BY WorkGoesOn
  <2>2. eCalls[w].pc = "capture" /\ eCalls'[w].pc = "persistDone" /\ State' = "completed"
          => work' = "done"
    BY WorkGoesOn DEF E!Executing
  <2>3. State' = "completed" => work' = "done"
    BY <1>5, <2>1, <2>2 DEF ExchangeInv, WorkIsAsked
  <2>4. Said("done")' => work' = "done"
    <3>1. stream[Id].on # 0 /\ stream'[Id].heard = "done" => work' = "done"
      BY <1>2, <2>2 DEF Settled, E!Tells, ExecutorIsSound, State
    <3> QED BY <2>1, <3>1 DEF ExchangeInv, WorkIsAsked
  <2> QED BY <1>1, <2>1, <2>3, <2>4 DEF ExchangeInv, WorkIsAsked, Quiet
<1>14. [Promise!Next]_<<View, work>>
  <2>1. \/ work' = work
        \/ work = "requested" /\ work' = "running"
        \/ work = "running" /\ work' \in {"done", "failed"}
    BY WorkGoesOn
  <2> QED BY <1>1, <2>1 DEF Kept, Promise!Next, Promise!Execute, Promise!Stop
<1> QED BY <1>7, <1>9, <1>10, <1>11, <1>12, <1>13, <1>14 DEF WorkIsAsked

\* The answer a call gives when it returns.
Replies(w) == eUp' /\ serving[w] # Nobody /\ eCalls'[w].pc \in {"idle", "prepare"}
Answer(w) == IF eCalls[w].pc = "admission" THEN "declined" ELSE serving[w]

LEMMA WorksKeepsAnswers ==
  ASSUME Services, Services', ExchangeInv, NEW w \in ECalls, Settled(w),
         UNCHANGED delegator,
         serving' = IF ~eUp' THEN [v \in ECalls |-> Nobody]
                    ELSE [serving EXCEPT ![w] = IF Replies(w) THEN Nobody ELSE @],
         answers' \in {answers} \cup (IF Replies(w) THEN {answers \cup {Answer(w)}} ELSE {})
  PROVE  /\ ServesItsRequest' /\ AnswersMean'
         /\ serving' \in [ECalls -> Kinds \cup {Nobody}]
         /\ answers' \in SUBSET (Kinds \cup {"declined"})
<1>1. ExecutorIsSound /\ ExecutorIsSound' /\ Quiet
  BY ExecutorSound, ExecutorSoundAfter, UntouchedViewed
<1>2. serving \in [ECalls -> Kinds \cup {Nobody}] /\ answers \in SUBSET (Kinds \cup {"declined"})
  BY DEF ExchangeInv, TypeOK
<1>3. ServesItsRequest'
  <2>1. CASE ~eUp'
    BY <2>1 DEF ServesItsRequest, Nobody
  <2>2. CASE eUp'
    <3> SUFFICES ASSUME NEW v \in ECalls
                 PROVE  /\ serving'[v] = "START" => On(v, {"persistStart"})'
                        /\ serving'[v] = "CANCEL" => On(v, {"persistCancel", "detachCancel"})'
                        /\ serving'[v] = "INVITE" => On(v, {"admission", "persistInvite"})'
                        /\ serving'[v] # "ack"
      BY DEF ServesItsRequest
    <3>1. CASE v # w
      BY <1>2, <2>2, <3>1 DEF Settled, ExchangeInv, ServesItsRequest, On, E!On
    <3>2. CASE v = w
      <4>1. serving'[w] = IF Replies(w) THEN Nobody ELSE serving[w]
        BY <1>2, <2>2
      <4>2. CASE Replies(w) \/ serving[w] = Nobody
        BY <3>2, <4>1, <4>2 DEF Nobody
      <4>3. CASE ~Replies(w) /\ serving[w] # Nobody
        <5>1. eCalls'[w].pc \notin {"idle", "prepare"} /\ eCalls'[w].id = Id
          BY <2>2, <4>3 DEF Replies, Settled
        <5> QED BY <2>2, <3>2, <4>1, <4>3, <5>1
                DEF Settled, E!Serves, ExchangeInv, ServesItsRequest, On, E!On
      <4> QED BY <4>2, <4>3
    <3> QED BY <3>1, <3>2
  <2> QED BY <2>1, <2>2
<1>4. minted[Id] = 1 => minted'[Id] = 1
  BY DEF Settled, E!Onward
<1>5. minted[Id] = 1 /\ State # "pending" => State' # "pending"
  BY DEF Settled, E!Onward, State
<1>6. Begun => Begun'
  BY <1>4, <1>5 DEF Begun, Settled, E!Onward, EBusy
<1>7. Over => Over'
  BY <1>4, <1>5 DEF Over, Settled, E!Onward, State
<1>8. "START" \in answers' => Begun'
  <2>1. CASE "START" \in answers
    BY <1>6, <2>1 DEF ExchangeInv, AnswersMean
  <2>2. CASE Replies(w) /\ Answer(w) = "START"
    <3>1. serving[w] = "START" /\ eCalls[w].pc = "persistStart" /\ eCalls[w].id = Id
      BY <2>2 DEF Answer, ExchangeInv, ServesItsRequest, On, E!On
    <3>2. eCalls'[w].pc = "prepare" /\ eCalls'[w].id = Id
      BY <2>2, <3>1 DEF Replies, Settled, E!Serves
    <3>3. minted[Id] = 1 /\ State # "pending"
      BY <1>1, <3>1 DEF ExecutorIsSound, E!IdInv, E!InvitedOnce, E!PendingIsUntouched,
         E!Busy, E!On, E!Thread, State
    <3>4. ~EBusy({"persistStart"})'
      <4> SUFFICES ASSUME NEW v \in ECalls, E!On(v, Id, {"persistStart"})' PROVE FALSE
        BY DEF EBusy, E!Busy
      <4>1. \A u, x \in ECalls : E!On(u, Id, E!Thread)' /\ E!On(x, Id, E!Thread)' => u = x
        BY <1>1 DEF ExecutorIsSound, E!IdInv, E!OneThread
      <4>2. E!On(w, Id, E!Thread)' /\ E!On(v, Id, E!Thread)'
        BY <3>2 DEF E!On, E!Thread
      <4>3. v = w
        BY <4>1, <4>2
      <4> QED BY <3>2, <4>3 DEF E!On
    <3> QED BY <1>4, <1>5, <3>3, <3>4 DEF Begun
  <2> QED BY <2>1, <2>2
<1>9. "CANCEL" \in answers' => Over'
  <2>1. CASE "CANCEL" \in answers
    BY <1>7, <2>1 DEF ExchangeInv, AnswersMean
  <2>2. CASE Replies(w) /\ Answer(w) = "CANCEL"
    <3>1. /\ eCalls[w].pc \in {"persistCancel", "detachCancel"} /\ eCalls[w].id = Id
      BY <2>2 DEF Answer, ExchangeInv, ServesItsRequest, On, E!On
    <3>2. Over
      BY <1>1, <3>1 DEF ExecutorIsSound, E!IdInv, E!InvitedOnce, E!PendingIsUntouched,
         E!ActiveIsAtWork, E!CompletedIsSettled, E!Busy, E!On, E!Cancelling, State, Over
    <3> QED BY <1>7, <3>2
  <2> QED BY <2>1, <2>2
<1>10. AnswersMean'
  BY <1>1, <1>6, <1>8, <1>9 DEF AnswersMean, ExchangeInv, Quiet
<1>11. Answer(w) \in Kinds \cup {"declined"} \/ ~Replies(w)
  BY <1>2 DEF Answer, Replies
<1> QED BY <1>2, <1>3, <1>10, <1>11

LEMMA WorksKeeps ==
  ASSUME Services, Services', ExchangeInv, NEW w \in ECalls, ExecutorWorks(w)
  PROVE  ExchangeInv' /\ [Promise!Next]_<<View, work>>
<1>1. /\ E!Settle(w) /\ UNCHANGED <<delegator, wire>>
      /\ Stream(Emitted(w)) /\ work' = Progress(w)
      /\ serving' = IF ~eUp' THEN [v \in ECalls |-> Nobody]
                    ELSE [serving EXCEPT ![w] = IF Replies(w) THEN Nobody ELSE @]
      /\ answers' = IF Replies(w) /\ Awaited(Answer(w)) THEN answers \cup {Answer(w)}
                    ELSE answers
  BY DEF ExecutorWorks, Replies, Answer
<1>2. Settled(w) /\ ExecutorIsSound /\ ExecutorIsSound' /\ Quiet
  BY <1>1, SettlesSo, ExecutorSound, ExecutorSoundAfter, UntouchedViewed
<1>3. eCalls'[w].pc = "execute" => eCalls[w].emitter # 0
  <2>1. eCalls'[w].pc = "execute" => E!On(w, Id, E!Working)
    BY <1>2 DEF Settled, E!Serves, E!On, E!Working
  <2> QED BY <1>2, <2>1 DEF ExecutorIsSound, E!IdInv, E!OneObject
<1>4. SaysItsEnd
  BY <1>2 DEF Settled, E!Tells, SaysItsEnd
<1>5. /\ EndIsToRead' /\ unread' \in Seq(Events)
      /\ Said("done")' =>
           Said("done") \/ (stream[Id].on # 0 /\ stream'[Id].heard = "done")
  BY <1>1, <1>2, <1>3, <1>4, EmissionKeeps DEF Quiet
<1>6. WorkIsAsked' /\ [Promise!Next]_<<View, work>>
  BY <1>1, <1>2, <1>5, WorksKeepsWork
<1>7. answers' \in {answers} \cup (IF Replies(w) THEN {answers \cup {Answer(w)}} ELSE {})
  BY <1>1
<1>8. /\ ServesItsRequest' /\ AnswersMean'
      /\ serving' \in [ECalls -> Kinds \cup {Nobody}]
      /\ answers' \in SUBSET (Kinds \cup {"declined"})
  BY <1>1, <1>2, <1>7, WorksKeepsAnswers
<1>9. work' \in {"none", "requested", "running", "done", "failed"}
  BY <1>1, <1>2, WorkGoesOn DEF ExchangeInv, TypeOK
<1>10. TypeOK'
  BY <1>1, <1>5, <1>8, <1>9 DEF ExchangeInv, TypeOK
<1> QED BY <1>5, <1>6, <1>8, <1>10 DEF ExchangeInv

\* A request that is taken, into a free slot.
LEMMA ReceivesKeeps ==
  ASSUME Services, Services', ExchangeInv, NEW w \in ESlot, NEW kind \in Kinds,
         ExecutorReceives(w, kind)
  PROVE  ExchangeInv' /\ [Promise!Next]_<<View, work>>
<1>1. /\ kind \in wire /\ wire' = wire \ {kind} /\ Handles(w, kind)
      /\ serving' = [serving EXCEPT ![w] = kind] /\ UNCHANGED <<delegator, answers, work>>
      /\ Stream(Emitted(w)) /\ w \in ECalls
  BY DEF ExecutorReceives, Receive, ESlot
<1>2. ExecutorIsSound /\ ExecutorIsSound' /\ Quiet /\ Kept
  BY <1>1, ExecutorSound, ExecutorSoundAfter, UntouchedViewed
<1>3. E!Request(w, Id)
  BY <1>1 DEF Handles, E!Request
<1>4. /\ eUp' /\ minted' = minted /\ eCalls[w].pc = "idle" /\ eCalls'[w].id = Id
      /\ \A v \in ECalls : v # w => eCalls'[v] = eCalls[v]
      /\ kind = "INVITE" => /\ eCalls'[w].pc = "admission" /\ State' = State
                            /\ stream[Id].on = 0 /\ stream'[Id].on = 0
      /\ kind = "START" => /\ eCalls'[w].pc = "persistStart" /\ stream' = stream
                           /\ State = "pending" /\ State' = "active"
      /\ kind = "CANCEL" => /\ eCalls'[w].pc = "persistCancel" /\ State' = "error"
                            /\ IF stream[Id].on = 0 THEN stream'[Id] = stream[Id]
                               ELSE stream'[Id].on = 0 /\ stream'[Id].heard = "error"
      /\ kind \in {"INVITE", "START", "CANCEL"}
  BY <1>1, <1>2, <1>3, E!RequestReport, ServiceConstants
     DEF ExecutorIsSound, Handles, State, E!NoStream
<1>5. SaysItsEnd /\ ~(stream[Id].on # 0 /\ stream'[Id].heard = "done")
  BY <1>2, <1>4 DEF SaysItsEnd, ExecutorIsSound
<1>6. EndIsToRead' /\ unread' \in Seq(Events) /\ (Said("done")' => Said("done"))
  <2>1. eCalls'[w].pc # "execute"
    BY <1>4
  <2> QED BY <1>1, <1>2, <1>5, <2>1, EmissionKeeps DEF Quiet
<1>7. TypeOK'
  BY <1>1, <1>6 DEF ExchangeInv, TypeOK
<1>8. /\ EBusy(E!Thread)' => EBusy(E!Thread) \/ kind = "START"
      /\ EBusy(E!Unstarted)' => EBusy(E!Unstarted) \/ kind = "START"
      /\ EBusy(E!Executing)' => EBusy(E!Executing)
      /\ EBusy({"persistStart"})' => EBusy({"persistStart"}) \/ kind = "START"
  BY <1>4 DEF EBusy, E!Busy, E!On, E!Thread, E!Unstarted, E!Executing
<1>9. kind = "START" => work = "requested"
  BY <1>1 DEF ExchangeInv, WorkIsAsked
<1>10. /\ State' = "active" => State = "active" \/ kind = "START"
       /\ State' = "completed" => State = "completed"
       /\ State' = "pending" => State = "pending"
  BY <1>4
<1>11. WorkIsAsked'
  BY <1>1, <1>2, <1>6, <1>8, <1>9, <1>10 DEF ExchangeInv, WorkIsAsked, Kept, Quiet
<1>12. ServesItsRequest'
  <2>1. serving' \in [ECalls -> Kinds \cup {Nobody}] /\ serving'[w] = kind
        /\ \A v \in ECalls \ {w} : serving'[v] = serving[v]
    BY <1>1 DEF ExchangeInv, TypeOK
  <2> QED BY <1>4, <2>1 DEF ExchangeInv, ServesItsRequest, On, E!On
<1>13. (Begun => Begun') /\ (Over => Over')
  BY <1>4, <1>8, <1>10 DEF Begun, Over
<1>14. AnswersMean'
  BY <1>1, <1>2, <1>13 DEF ExchangeInv, AnswersMean, Quiet
<1> QED BY <1>1, <1>2, <1>6, <1>7, <1>11, <1>12, <1>14 DEF ExchangeInv, Kept

\* The acknowledgement, and the sweep.
LEMMA ForgetsKeeps ==
  ASSUME Services, Services', ExchangeInv, ExecutorForgets \/ ExecutorSweeps
  PROVE  ExchangeInv' /\ [Promise!Next]_<<View, work>>
<1>1. /\ UNCHANGED <<delegator, serving, answers, unread, work>> /\ wire' \subseteq wire
      /\ \/ UNCHANGED executor
         \/ \E w \in ECalls : E!AcknowledgeResult(w, Id) \/ E!SweepExpired(w, Id)
  BY DEF ExecutorForgets, ExecutorSweeps, Receive, network, ESlot
<1>2. ExecutorIsSound /\ Quiet /\ Kept /\ unread \in Seq(Events)
  BY <1>1, ExecutorSound, UntouchedViewed DEF ExchangeInv, TypeOK
<1>3. stream' = stream => EndIsToRead' /\ (Said("done")' => Said("done"))
  BY <1>1, <1>2 DEF ExchangeInv, EndIsToRead, Said, Quiet
<1>4. CASE UNCHANGED executor
  <2>1. /\ eCalls' = eCalls /\ assignments' = assignments /\ minted' = minted
        /\ stream' = stream
    BY <1>4 DEF executor
  <2> QED BY <1>1, <1>2, <1>3, <2>1, StillKeeps
<1>5. CASE \E w \in ECalls : E!AcknowledgeResult(w, Id) \/ E!SweepExpired(w, Id)
  <2>1. PICK w \in ECalls : E!AcknowledgeResult(w, Id) \/ E!SweepExpired(w, Id)
    BY <1>5
  <2>2. /\ minted' = minted /\ eCalls[w].pc = "idle" /\ stream' = stream
        /\ \A v \in ECalls : v # w => eCalls'[v] = eCalls[v]
        /\ eCalls'[w].pc \in {"unlink", "sweepTransport"}
        /\ State' \in {State, "absent"}
    BY <1>2, <2>1, E!RequestReport, ServiceConstants DEF ExecutorIsSound, E!Request, State
  <2>3. /\ EBusy(E!Thread)' => EBusy(E!Thread)
        /\ EBusy(E!Unstarted)' => EBusy(E!Unstarted)
        /\ EBusy(E!Executing)' => EBusy(E!Executing)
        /\ EBusy({"persistStart"})' => EBusy({"persistStart"})
    BY <2>2 DEF EBusy, E!Busy, E!On, E!Thread, E!Unstarted, E!Executing
  <2>4. WorkIsAsked'
    BY <1>1, <1>2, <1>3, <2>2, <2>3 DEF ExchangeInv, WorkIsAsked, Kept, Quiet
  <2>5. ServesItsRequest'
    BY <1>1, <2>2 DEF ExchangeInv, ServesItsRequest, On, E!On
  <2>6. AnswersMean'
    BY <1>1, <1>2, <2>2, <2>3 DEF ExchangeInv, AnswersMean, Begun, Over, Quiet
  <2>7. TypeOK'
    BY <1>1 DEF ExchangeInv, TypeOK
  <2> QED BY <1>1, <1>2, <1>3, <2>2, <2>4, <2>5, <2>6, <2>7 DEF ExchangeInv, Kept
<1> QED BY <1>1, <1>4, <1>5

(***************************************************************************)
(* The theorems.                                                           *)
(***************************************************************************)
LEMMA ExchangeStarts == Init => ExchangeInv /\ View = "none"
<1> SUFFICES ASSUME Init PROVE ExchangeInv /\ View = "none"
  OBVIOUS
<1>1. /\ wire = {} /\ answers = {} /\ unread = <<>> /\ work = "none"
      /\ serving = [w \in ECalls |-> Nobody]
      /\ dCalls = [c \in DCalls |-> D!Idle] /\ eCalls = [w \in ECalls |-> E!Idle]
      /\ owner = [id \in {Id} |-> 0] /\ assignments = [id \in {Id} |-> E!NoRecord]
  BY DEF Init, D!Init, E!Init
<1>2. (\A c \in DCalls : dCalls[c].pc = "idle") /\ (\A w \in ECalls : eCalls[w].pc = "idle")
  BY <1>1 DEF D!Idle, D!Call, E!Idle, E!Call
<1>3. State = "absent" /\ View = "none"
  <2>1. owner[Id] = 0 /\ delegations[Id] = "absent" /\ assignments[Id].state = "absent"
    BY <1>1 DEF Init, D!Init, E!NoRecord, E!Assignment
  <2> QED BY <2>1 DEF State, View, D!Known
<1>4. /\ ~Connected /\ ~DBusy({"ack"}) /\ ~DBusy(Following)
      /\ ~EBusy(E!Thread) /\ ~EBusy(E!Unstarted) /\ ~EBusy(E!Executing)
  BY <1>2 DEF Connected, Listening, DBusy, Following, EBusy, E!Busy, E!On,
     E!Thread, E!Unstarted, E!Executing
<1>5. ~Said("done") /\ <<>> \in Seq(Events)
  BY <1>1 DEF Said
<1>6. TypeOK
  BY <1>1, <1>5 DEF TypeOK
<1> QED BY <1>1, <1>3, <1>4, <1>5, <1>6 DEF ExchangeInv, WorkIsAsked, ServesItsRequest,
        AnswersMean, EndIsToRead, Nobody

LEMMA ExchangeSteps ==
  ASSUME Services, Services', ExchangeInv, [Next]_vars
  PROVE  ExchangeInv' /\ [Promise!Next]_<<View, work>>
<1>1. ASSUME NEW c \in DCalls, DelegatorStep(c)
      PROVE  ExchangeInv' /\ [Promise!Next]_<<View, work>>
  BY <1>1, AloneKeeps, InvitesKeeps, HearsKeeps, SubscribesKeeps, ReadsKeeps
     DEF DelegatorStep
<1>2. CASE DelegatorAsked \/ DelegatorStops \/ DelegatorStarts
  BY <1>2, LifeKeeps
<1>3. ASSUME NEW w \in ECalls, ExecutorWorks(w)
      PROVE  ExchangeInv' /\ [Promise!Next]_<<View, work>>
  BY <1>3, WorksKeeps
<1>4. ASSUME NEW w \in ESlot, NEW kind \in Kinds, ExecutorReceives(w, kind)
      PROVE  ExchangeInv' /\ [Promise!Next]_<<View, work>>
  BY <1>4, ReceivesKeeps
<1>5. CASE (\E kind \in Kinds : ExecutorRefuses(kind)) \/ ExecutorStarts \/ UNCHANGED vars
  BY <1>5, RefusesKeeps
<1>6. CASE ExecutorForgets \/ ExecutorSweeps
  BY <1>6, ForgetsKeeps
<1>7. CASE StreamCut \/ StreamCutHere \/ ExecutorStops
  BY <1>7, CutKeeps, CutHereKeeps, StopsKeeps
<1> QED BY <1>1, <1>2, <1>3, <1>4, <1>5, <1>6, <1>7 DEF Next

\* What the exchange of the two services keeps to, whatever is delayed, lost or
\* cut and whoever crashes: the work is where the requests, the answers and
\* the events say it is.
THEOREM ExchangeInvariant == Spec => []ExchangeInv
<1>1. Init => ExchangeInv
  BY ExchangeStarts
<1>2. Services /\ Services' /\ ExchangeInv /\ [Next]_vars => ExchangeInv'
  BY ExchangeSteps
<1> QED BY <1>1, <1>2, ServicesHold, PTL DEF Spec

\* Each service keeps its own invariants in the other's company: what either
\* module assumes of its peer is what the other one does.
THEOREM ServicesKeep == Spec => []ServicesKeepTheirInvariants
<1>1. Services /\ ExchangeInv => ServicesKeepTheirInvariants
  BY DEF Services, ExchangeInv, ServicesKeepTheirInvariants, E!OnceInv
<1> QED BY <1>1, ServicesHold, ExchangeInvariant, PTL

\* consumeTaskEvents() never waits for a task that is over, or one that reports
\* to an emitter nobody listens to.
THEOREM WaitsAreJustified == Spec => []WaitIsJustified
<1>1. Services /\ ExchangeInv => WaitIsJustified
  BY WaitsJustified
<1> QED BY <1>1, ServicesHold, ExchangeInvariant, PTL

\* What cancelDelegation() confirmed stays cancelled, whatever request is
\* still on its way.
THEOREM ConfirmedCancels == Spec => []ConfirmedCancelHolds
<1>1. ExchangeInv => ConfirmedCancelHolds
  BY ConfirmedHolds
<1> QED BY <1>1, ExchangeInvariant, PTL

\* The system keeps the promise of DelegatedTask, its liveness aside: the work
\* is executed at most once and only after START, and "completed" is said
\* only of work that was done.
THEOREM PromiseKept == Spec => Promise!Spec
<1>1. Init => Promise!Init
  BY ExchangeStarts DEF Promise!Init, Init
<1>2. Services /\ Services' /\ ExchangeInv /\ [Next]_vars => [Promise!Next]_(Promise!vars)
  BY ExchangeSteps DEF Promise!vars
<1> QED BY <1>1, <1>2, ServicesHold, ExchangeInvariant, PTL DEF Spec, Promise!Spec
=============================================================================
