-------------------------- MODULE DaemonClientsProofs --------------------------
(***************************************************************************)
(* Proofs about DaemonClients, for any number of MCP servers, scripts and  *)
(* delegations: types, at most one service among the clients that went on, *)
(* and that only ended delegations are said to be cancelled.               *)
(***************************************************************************)
EXTENDS DaemonClients, TLAPS

Places == {"idle", "gone"} \cup Waiting

\* Where the processes are, and who serves whom: what Exit changes.
Serving ==
  /\ pc \in [Clients -> Places]
  /\ port \in Clients \cup {None}
  /\ service \subseteq {p \in Clients : pc[p] \notin {"idle", "probe", "initialize", "gone"}}
  /\ port # None => port \in service
  /\ home \in [Ids -> service \cup {None}]
  /\ \A p \in Clients : pc[p] = "listen" => p \in service
  /\ OneService

\* What the clients know, and the delegations.
Knowing ==
  /\ stored \subseteq Ids
  /\ state \in [Ids -> {"none", "running", "ended"}]
  /\ task \in [Clients -> Ids \cup {None}]
  /\ todo \in [Servers -> SUBSET Ids] /\ listed \in [Servers -> SUBSET Ids]
  /\ \A p \in Servers : todo[p] \subseteq listed[p]
  /\ said \subseteq Ids
  /\ told \subseteq Ids

\* A client that waits for an answer or polls does so for a delegation.
Tasked == \A p \in Clients : pc[p] \in {"answer", "poll"} => task[p] \in Ids

\* Of the delegations an MCP server set out to cancel, those it is through
\* with have ended.
CancelProgress ==
  \A p \in Servers : pc[p] = "cancel" =>
    \A id \in listed[p] \ todo[p] : state[id] = "ended"

IInv == Serving /\ Knowing /\ Tasked /\ CancelProgress /\ CancelledHaveEnded

LEMMA InvTyped == IInv => TypeOK /\ OneService /\ CancelledHaveEnded
  BY DEF IInv, Serving, Knowing, TypeOK, Places

\* A process that ends takes its service along and leaves the others' alone.
LEMMA ExitKeeps ==
  ASSUME Serving, NEW p \in Clients, pc[p] \in Waiting, Exit(p)
  PROVE  Serving'
<1> USE ClientsAssumption DEF Serving, Exit, To
<1>1. pc' \in [Clients -> Places]
  BY DEF Places
<1>2. /\ port' \in Clients \cup {None}
      /\ service' \subseteq {q \in Clients : pc'[q] \notin {"idle", "probe", "initialize", "gone"}}
      /\ port' # None => port' \in service'
  OBVIOUS
<1>3. home' \in [Ids -> service' \cup {None}]
  OBVIOUS
<1>4. OneService'
  BY DEF OneService
<1>5. \A q \in Clients : pc'[q] = "listen" => q \in service'
  BY DEF Waiting
<1> QED BY <1>1, <1>2, <1>3, <1>4, <1>5

\* A client that goes on, to a place where it need not listen, changes
\* nothing about services.
LEMMA MoveKeeps ==
  ASSUME Serving, NEW p \in Clients, pc[p] \in Waiting \ {"listen"},
         NEW place \in Waiting \ {"listen"}, To(p, place),
         place \notin {"probe", "initialize"}, UNCHANGED <<port, service, home>>
  PROVE  Serving'
<1> USE DEF Serving, To
<1>1. pc' \in [Clients -> Places]
  BY DEF Places
<1>2. service' \subseteq {q \in Clients : pc'[q] \notin {"idle", "probe", "initialize", "gone"}}
  BY DEF Waiting
<1>3. OneService'
  BY DEF OneService
<1> QED BY <1>1, <1>2, <1>3

\* Progress of the cancellations survives what neither comes to a
\* cancellation nor takes an end back.
LEMMA ProgressKept ==
  ASSUME CancelProgress, CancelledHaveEnded,
         UNCHANGED <<todo, listed, said>>,
         \A p \in Servers : pc'[p] = "cancel" => pc[p] = "cancel",
         \A id \in said : state'[id] = state[id],
         \A p \in Servers : pc[p] = "cancel" =>
           \A id \in listed[p] : state[id] = "ended" => state'[id] = "ended"
  PROVE  CancelProgress' /\ CancelledHaveEnded'
  BY DEF CancelProgress, CancelledHaveEnded

LEMMA InitInv == Init => IInv
<1> SUFFICES ASSUME Init PROVE IInv
  OBVIOUS
<1> USE ClientsAssumption DEF Init
<1>1. Serving
  BY DEF Serving, Places, OneService
<1>2. Knowing
  BY DEF Knowing
<1>3. CancelProgress /\ CancelledHaveEnded
  BY DEF CancelProgress, CancelledHaveEnded
<1>4. Tasked
  BY DEF Tasked
<1> QED BY <1>1, <1>2, <1>3, <1>4 DEF IInv

\* The start of a client, up to the daemon in it.
LEMMA StartingKeeps ==
  ASSUME IInv, NEW p \in Clients, Launch(p) \/ Starting(p)
  PROVE  IInv'
<1> USE ClientsAssumption DEF IInv, Clients
<1>1. /\ UNCHANGED <<state, answers>> /\ stored' \subseteq stored
      /\ \A q \in Servers : pc'[q] = "cancel" => pc[q] = "cancel"
      /\ \A q \in Clients : pc'[q] \in {"answer", "poll"} => pc[q] \in {"answer", "poll"}
  BY DEF Launch, Starting, Probe, Initialize, Listen, ListenFails, Healthy,
         Exit, To, delegations, answers, Serving, Places
<1>2. Knowing'
  BY <1>1 DEF Knowing, answers
<1>3. CancelProgress' /\ CancelledHaveEnded'
  BY <1>1, ProgressKept DEF answers
<1>4. Serving'
  <2>1. CASE Launch(p)
    BY <2>1 DEF Serving, Launch, To, OneService, Places, Waiting, delegations
  <2>2. CASE Probe(p)
    BY <2>2 DEF Serving, Probe, To, OneService, Places, Waiting, delegations
  <2>3. CASE Initialize(p)
    BY <2>3 DEF Serving, Initialize, To, OneService, Places, Waiting
  <2>4. CASE Listen(p)
    BY <2>4 DEF Serving, Listen, To, OneService, Places, Waiting, delegations
  <2>5. CASE ListenFails(p)
    BY <2>5, ExitKeeps DEF ListenFails, Waiting
  <2>6. CASE Healthy(p)
    <3>1. CASE Exit(p)
      BY <2>6, <3>1, ExitKeeps DEF Healthy, Waiting
    <3>2. CASE To(p, "ready") /\ UNCHANGED <<port, service, delegations>>
      BY <2>6, <3>2, MoveKeeps DEF Healthy, Waiting, delegations
    <3> QED BY <2>6, <3>1, <3>2 DEF Healthy
  <2> QED BY <2>1, <2>2, <2>3, <2>4, <2>5, <2>6 DEF Starting
<1>5. Tasked'
  BY <1>1 DEF Tasked, answers
<1> QED BY <1>2, <1>3, <1>4, <1>5

\* A tool or a script that returns.
LEMMA ReturnsKeeps ==
  ASSUME Serving, Tasked, NEW p \in Clients, pc[p] \in {"answer", "poll"},
         Returns(p), Knowing, task' = [task EXCEPT ![p] = None]
  PROVE  /\ Serving' /\ Tasked' /\ UNCHANGED <<stored, state>>
         /\ \A q \in Servers : pc'[q] = "cancel" => pc[q] = "cancel"
<1>1. CASE p \in Scripts
  <2>1. Exit(p)
    BY <1>1 DEF Returns
  <2>2. Serving'
    BY <2>1, ExitKeeps DEF Waiting
  <2> QED BY <2>1, <2>2 DEF Exit, To, Serving, Tasked, Knowing
<1>2. CASE p \notin Scripts
  <2>1. To(p, "ready") /\ UNCHANGED <<port, service, delegations>>
    BY <1>2 DEF Returns
  <2>2. UNCHANGED <<port, service, home, stored, state>>
    BY <2>1 DEF delegations
  <2>3. Serving'
    BY <2>1, <2>2, MoveKeeps DEF Waiting
  <2> QED BY <2>1, <2>2, <2>3 DEF To, Serving, Tasked, Knowing
<1> QED BY <1>1, <1>2

\* A client that begins to poll.
LEMMA PollKeeps ==
  ASSUME Serving, Tasked, Knowing, NEW p \in Clients, pc[p] \in {"ready", "answer"},
         To(p, "poll"), UNCHANGED <<port, service, home>>,
         task' \in [Clients -> Ids \cup {None}], task'[p] \in Ids,
         \A q \in Clients \ {p} : task'[q] = task[q]
  PROVE  /\ Serving' /\ Tasked'
         /\ \A q \in Servers : pc'[q] = "cancel" => pc[q] = "cancel"
<1>1. Serving'
  BY MoveKeeps DEF Waiting
<1> QED BY <1>1 DEF To, Serving, Tasked, Knowing

LEMMA WorkingKeeps ==
  ASSUME IInv, NEW p \in Clients, Working(p)
  PROVE  IInv'
<1> USE ClientsAssumption DEF IInv
<1>1. CASE Requested(p)
  <2>1. Exit(p) /\ UNCHANGED answers /\ pc[p] = "ready" /\ UNCHANGED <<stored, state>>
    BY <1>1 DEF Requested, Exit
  <2>2. Serving'
    BY <2>1, ExitKeeps DEF Waiting
  <2>3. CancelProgress' /\ CancelledHaveEnded'
    BY <2>1, ProgressKept DEF answers, Exit, To, Serving
  <2>4. Tasked'
    BY <2>1 DEF Tasked, Exit, To, Serving, answers
  <2> QED BY <2>1, <2>2, <2>3, <2>4 DEF Knowing, answers
<1>2. CASE Answered(p)
  <2>1. /\ Serving' /\ Tasked' /\ UNCHANGED <<stored, state, todo, listed, said>>
        /\ \A q \in Servers : pc'[q] = "cancel" => pc[q] = "cancel"
        /\ task' \in [Clients -> Ids \cup {None}]
    <3>1. CASE Returns(p) /\ task' = [task EXCEPT ![p] = None]
      BY <1>2, <3>1, ReturnsKeeps DEF Answered, Knowing
    <3>2. CASE To(p, "poll") /\ UNCHANGED <<port, service, delegations, task>>
      <4>1. UNCHANGED <<port, service, home, stored, state, task, todo, listed, said>>
        BY <1>2, <3>2 DEF Answered, delegations
      <4>2. pc[p] = "answer" /\ task[p] \in Ids
        BY <1>2 DEF Answered, Tasked
      <4> QED BY <3>2, <4>1, <4>2, PollKeeps DEF Knowing
    <3> QED BY <1>2, <3>1, <3>2 DEF Answered
  <2>2. told' \subseteq Ids
    BY <1>2 DEF Answered, Tasked, Knowing
  <2>3. CancelProgress' /\ CancelledHaveEnded'
    BY <2>1, ProgressKept
  <2> QED BY <2>1, <2>2, <2>3 DEF Knowing
<1>3. CASE Poll(p) \/ WaitTimeout(p)
  <2>1. /\ pc[p] = "poll" /\ Returns(p) /\ task' = [task EXCEPT ![p] = None]
        /\ UNCHANGED <<todo, listed, said, told>>
    BY <1>3 DEF Poll, WaitTimeout
  <2>2. /\ Serving' /\ Tasked' /\ UNCHANGED <<stored, state>>
        /\ \A q \in Servers : pc'[q] = "cancel" => pc[q] = "cancel"
    BY <2>1, ReturnsKeeps
  <2>3. CancelProgress' /\ CancelledHaveEnded'
    BY <2>1, <2>2, ProgressKept
  <2> QED BY <2>1, <2>2, <2>3 DEF Knowing
<1>4. ASSUME NEW id \in Ids, Delegate(p, id)
      PROVE  IInv'
  <2>1. Serving'
    BY <1>4 DEF Delegate, Serving, To, OneService, Places, Waiting
  <2>2. Knowing'
    BY <1>4 DEF Delegate, Knowing
  <2>3. Tasked'
    BY <1>4 DEF Delegate, Tasked, To, Knowing, Serving
  <2>4. state[id] # "ended" /\ \A i \in Ids \ {id} : state'[i] = state[i]
    BY <1>4 DEF Delegate, Knowing
  <2>5. CancelledHaveEnded'
    BY <1>4, <2>4 DEF Delegate, CancelledHaveEnded, Knowing
  <2>6. CancelProgress'
    BY <1>4, <2>4 DEF Delegate, CancelProgress, Knowing, To, Serving
  <2> QED BY <2>1, <2>2, <2>3, <2>5, <2>6
<1>5. ASSUME NEW id \in Ids, Await(p, id)
      PROVE  IInv'
  <2>1. /\ UNCHANGED <<port, service, home, stored, state, todo, listed, said, told>>
        /\ pc[p] = "ready" /\ To(p, "poll") /\ task' = [task EXCEPT ![p] = id]
    BY <1>5 DEF Await, delegations
  <2>2. /\ Serving' /\ Tasked'
        /\ \A q \in Servers : pc'[q] = "cancel" => pc[q] = "cancel"
    BY <2>1, PollKeeps DEF Knowing
  <2>3. CancelProgress' /\ CancelledHaveEnded'
    BY <2>1, <2>2, ProgressKept
  <2> QED BY <2>1, <2>2, <2>3 DEF Knowing
<1> QED BY <1>1, <1>2, <1>3, <1>4, <1>5 DEF Working

\* Signals, and the close of a daemon.
LEMMA SignalKeeps ==
  ASSUME IInv, NEW p \in Clients, Killed(p) \/ Interrupt(p) \/ Close(p)
  PROVE  IInv'
<1> USE ClientsAssumption DEF IInv, Clients
<1>1. /\ UNCHANGED <<stored, state, answers>> /\ pc[p] \in Waiting
      /\ \A q \in Servers : pc'[q] = "cancel" => pc[q] = "cancel"
      /\ \A q \in Clients : pc'[q] \in {"answer", "poll"} => pc[q] \in {"answer", "poll"}
  BY DEF Killed, Interrupt, Close, Exit, To, Serving, Waiting
<1>2. Serving'
  <2>1. CASE Exit(p)
    BY <1>1, <2>1, ExitKeeps
  <2>2. CASE ~Exit(p)
    <3>1. /\ pc[p] \in {"ready", "answer", "poll", "cancel"} /\ To(p, "closing")
          /\ home' = [id \in Ids |-> IF home[id] = p THEN None ELSE home[id]]
          /\ UNCHANGED <<port, service>>
      BY <2>2 DEF Killed, Close, Interrupt
    <3> QED BY <3>1 DEF Serving, To, OneService, Places, Waiting
  <2> QED BY <2>1, <2>2
<1>3. Knowing'
  BY <1>1 DEF Knowing, answers
<1>4. Tasked'
  BY <1>1 DEF Tasked, answers
<1>5. CancelProgress' /\ CancelledHaveEnded'
  BY <1>1, ProgressKept DEF answers
<1> QED BY <1>2, <1>3, <1>4, <1>5

\* delegate_cancel with all.
LEMMA CancelKeeps ==
  ASSUME IInv, NEW p \in Servers,
         \/ CancelAll(p) \/ CancelledAll(p)
         \/ \E id \in Ids : CancelOne(p, id)
  PROVE  IInv'
<1> USE ClientsAssumption DEF IInv
<1>0. p \in Clients
  BY DEF Clients
<1>1. Serving'
  <2>1. /\ UNCHANGED <<port, service, home>>
        /\ \/ UNCHANGED pc
           \/ /\ pc[p] \in {"ready", "cancel"}
              /\ To(p, "ready") \/ To(p, "cancel")
    BY DEF CancelAll, CancelledAll, CancelOne, CancelEnds, delegations
  <2>2. CASE UNCHANGED pc
    BY <2>1, <2>2 DEF Serving, OneService
  <2>3. CASE ~UNCHANGED pc
    BY <1>0, <2>1, <2>3, MoveKeeps DEF Waiting
  <2> QED BY <2>2, <2>3
<1>2. Tasked'
  BY <1>0 DEF Tasked, CancelAll, CancelledAll, CancelOne, CancelEnds, To, Serving
<1>3. CASE CancelAll(p)
  <2>1. Knowing'
    BY <1>3 DEF Knowing, CancelAll, delegations
  <2>2. CancelProgress'
    BY <1>0, <1>3 DEF CancelProgress, CancelAll, delegations, To, Serving, Knowing
  <2> QED BY <1>1, <1>2, <1>3, <2>1, <2>2 DEF CancelledHaveEnded, CancelAll, delegations
<1>4. CASE CancelledAll(p)
  <2>1. Knowing'
    BY <1>4 DEF Knowing, CancelledAll, CancelEnds, delegations
  <2>2. CancelProgress'
    BY <1>0, <1>4 DEF CancelProgress, CancelledAll, CancelEnds, delegations, To, Serving,
       Knowing
  <2>3. \A id \in listed[p] : state[id] = "ended"
    BY <1>4 DEF CancelProgress, CancelledAll
  <2>4. CancelledHaveEnded'
    BY <1>4, <2>3 DEF CancelledHaveEnded, CancelledAll, delegations
  <2> QED BY <1>1, <1>2, <2>1, <2>2, <2>4
<1>5. ASSUME NEW id \in Ids, CancelOne(p, id)
      PROVE  IInv'
  <2>1. /\ UNCHANGED <<stored, task, said, told>>
        /\ \/ /\ state' = [state EXCEPT ![id] = "ended"]
              /\ todo' = [todo EXCEPT ![p] = @ \ {id}]
              /\ UNCHANGED <<pc, listed>>
           \/ /\ UNCHANGED state /\ To(p, "ready")
              /\ listed' = [listed EXCEPT ![p] = {}] /\ todo' = [todo EXCEPT ![p] = {}]
    BY <1>5 DEF CancelOne, CancelEnds
  <2>2. Knowing'
    BY <2>1 DEF Knowing
  <2>3. CancelProgress'
    <3>1. CASE state' = [state EXCEPT ![id] = "ended"] /\ UNCHANGED <<pc, listed>>
               /\ todo' = [todo EXCEPT ![p] = @ \ {id}]
      <4>1. \A i \in Ids : state[i] = "ended" \/ i = id => state'[i] = "ended"
        BY <3>1 DEF Knowing
      <4>2. \A q \in Servers : listed[q] \in SUBSET Ids
                               /\ todo[q] \ {id} \subseteq todo'[q]
        BY <3>1 DEF Knowing
      <4> QED BY <3>1, <4>1, <4>2 DEF CancelProgress
    <3>2. CASE /\ UNCHANGED state /\ To(p, "ready")
               /\ listed' = [listed EXCEPT ![p] = {}] /\ todo' = [todo EXCEPT ![p] = {}]
      <4>1. \A q \in Servers \ {p} : UNCHANGED <<pc[q], listed[q], todo[q]>>
        BY <1>0, <3>2 DEF Knowing, To, Serving
      <4>2. pc'[p] = "ready"
        BY <1>0, <3>2 DEF To, Serving
      <4> QED BY <3>2, <4>1, <4>2 DEF CancelProgress
    <3> QED BY <2>1, <3>1, <3>2
  <2>4. CancelledHaveEnded'
    BY <2>1 DEF CancelledHaveEnded, Knowing
  <2> QED BY <1>1, <1>2, <2>2, <2>3, <2>4
<1> QED BY <1>3, <1>4, <1>5

LEMMA NextInv == IInv /\ [Next]_vars => IInv'
<1> SUFFICES ASSUME IInv, [Next]_vars PROVE IInv'
  OBVIOUS
<1>1. ASSUME NEW p \in Clients, Launch(p) \/ Starting(p) \/ Working(p) \/ Killed(p)
      PROVE  IInv'
  BY <1>1, StartingKeeps, WorkingKeeps, SignalKeeps
<1>2. ASSUME NEW p \in Servers,
             \/ Interrupt(p) \/ Close(p) \/ CancelAll(p) \/ CancelledAll(p)
             \/ \E id \in Ids : CancelOne(p, id)
      PROVE  IInv'
  BY <1>2, SignalKeeps, CancelKeeps DEF Clients
<1>3. ASSUME NEW id \in Ids, Ends(id)
      PROVE  IInv'
  <2> USE <1>3 DEF IInv, Ends, processes, answers
  <2>1. Serving'
    BY DEF Serving, OneService
  <2>2. Knowing' /\ Tasked'
    BY DEF Knowing, Tasked
  <2>3. CancelProgress' /\ CancelledHaveEnded'
    BY DEF CancelProgress, CancelledHaveEnded, Knowing
  <2> QED BY <2>1, <2>2, <2>3
<1>4. CASE UNCHANGED vars
  BY <1>4 DEF IInv, Serving, OneService, Knowing, Tasked, CancelProgress,
              CancelledHaveEnded, vars, processes, delegations, answers
<1> QED BY <1>1, <1>2, <1>3, <1>4 DEF Next

\* The invariant of the module: what the clients are and know, however their
\* starts, exits and cancellations interleave.
THEOREM ClientsInvariant == Spec => []IInv
  BY InitInv, NextInv, PTL DEF Spec

\* Every variable keeps to its type; the daemon on the port is a client whose
\* service is made.
THEOREM TypeCorrect == Spec => []TypeOK
  BY ClientsInvariant, InvTyped, PTL

\* Clients that start a daemon at the same time leave one service among those
\* that went on (auto-daemon.ts, daemon.ts).
THEOREM OneDaemon == Spec => []OneService
  BY ClientsInvariant, InvTyped, PTL

\* delegate_cancel says of no delegation that it was cancelled unless it has
\* ended.
THEOREM CancelledEnded == Spec => []CancelledHaveEnded
  BY ClientsInvariant, InvTyped, PTL
=============================================================================
