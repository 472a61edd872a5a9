------------------------- MODULE TunnelListenerProofs -------------------------
(***************************************************************************)
(* Proofs about TunnelListener: its invariant TunnelInv is inductive, for  *)
(* any number of sockets, requests and streams and any retry limit.        *)
(***************************************************************************)
EXTENDS TunnelListener, TLAPS

TunnelInv == TypeOK /\ OneConnection /\ StreamsFollowConnection /\ SilenceIsReported

\* What a 'close' event does to the sockets and the timer.
LEMMA ClosedKeeps ==
  ASSUME TunnelInv, NEW s \in Sockets, socket[s] \in Live, Closed(s),
         UNCHANGED <<running, ws>>
  PROVE  /\ OneConnection' /\ StreamsFollowConnection' /\ SilenceIsReported'
         /\ timers' \in Nat /\ retryCount' \in 0..MaxRetries /\ gaveUp' \in BOOLEAN
         /\ socket' \in [Sockets -> Live \cup {"closed"}]
         /\ subscribed' \in [SseStreams -> Sockets \cup {NoSocket}]
         /\ sseStreams' \subseteq SseStreams /\ replaying' \subseteq SseStreams
<1> USE TunnelAssumption DEF TunnelInv, Closed
<1>1. timers = 0 /\ Connected = {s}
  BY DEF OneConnection, Connected, TypeOK
<1>2. Connected' = {}
  BY <1>1 DEF Connected, TypeOK, Live
<1>3. /\ timers' \in {0, 1} /\ retryCount' \in 0..MaxRetries
      /\ gaveUp' \in BOOLEAN
  BY <1>1 DEF MaybeReconnect, TypeOK
<1>4. OneConnection'
  BY <1>2, <1>3 DEF OneConnection
<1>5. SilenceIsReported'
  BY <1>1, <1>2 DEF SilenceIsReported, MaybeReconnect, TypeOK
<1>6. \A x \in SseStreams : subscribed'[x] = NoSocket
  BY DEF CleanupSseStreams, StreamsFollowConnection, TypeOK
<1>7. StreamsFollowConnection'
  BY <1>6 DEF StreamsFollowConnection
<1>8. socket' \in [Sockets -> Live \cup {"closed"}]
  BY DEF TypeOK
<1>9. /\ subscribed' \in [SseStreams -> Sockets \cup {NoSocket}]
      /\ sseStreams' \subseteq SseStreams /\ replaying' \subseteq SseStreams
  BY DEF CleanupSseStreams, TypeOK
<1> QED BY <1>3, <1>4, <1>5, <1>7, <1>8, <1>9

\* A promise is settled with an outcome of the type.
LEMMA SettleTyped ==
  ASSUME TypeOK, NEW s \in Sockets, NEW outcome \in Outcomes, Settle(s, outcome)
  PROVE  promise' \in [outcome : Outcomes, of : Sockets \cup {NoSocket}]
  BY DEF TypeOK, Settle

\* A connection attempt, when there is neither a connection nor a timer left.
LEMMA ConnectKeeps ==
  ASSUME TunnelInv, Connected = {}, timers' = 0,
         \E s \in Sockets : Connect(s),
         UNCHANGED <<asked, streams>>
  PROVE  /\ OneConnection' /\ StreamsFollowConnection' /\ SilenceIsReported'
         /\ socket' \in [Sockets -> Live \cup {"closed"}]
         /\ ws' \in Sockets \cup {NoSocket}
<1> USE DEF TunnelInv
<1>1. PICK s \in Sockets : Connect(s)
  OBVIOUS
<1>2. socket' \in [Sockets -> Live \cup {"closed"}] /\ ws' = s
  BY <1>1 DEF Connect, TypeOK, Live
<1>3. Connected' = {s}
  BY <1>1 DEF Connect, Connected, TypeOK, Live
<1>4. \A x \in SseStreams : subscribed[x] = NoSocket
  BY DEF StreamsFollowConnection
<1>5. StreamsFollowConnection'
  BY <1>4 DEF StreamsFollowConnection, streams
<1> QED BY <1>2, <1>3, <1>5 DEF OneConnection, SilenceIsReported

LEMMA InitInv == Init => TunnelInv
<1> SUFFICES ASSUME Init PROVE TunnelInv
  OBVIOUS
<1> USE TunnelAssumption DEF Init
<1>1. TypeOK
  <2>1. /\ promise \in [outcome : Outcomes, of : Sockets \cup {NoSocket}]
        /\ 0 \in 0..MaxRetries
    BY DEF Outcomes
  <2> QED BY <2>1 DEF TypeOK
<1>2. Connected = {}
  BY DEF Connected, Live
<1>3. OneConnection /\ StreamsFollowConnection /\ SilenceIsReported
  BY <1>2 DEF OneConnection, StreamsFollowConnection, SilenceIsReported
<1> QED BY <1>1, <1>3 DEF TunnelInv

LEMMA NextInv == TunnelInv /\ [Next]_vars => TunnelInv'
<1> SUFFICES ASSUME TunnelInv, [Next]_vars PROVE TunnelInv'
  OBVIOUS
<1> USE TunnelAssumption
<1>1. CASE UNCHANGED vars
  BY <1>1 DEF vars, connection, streams, TunnelInv, TypeOK, OneConnection,
     Connected, StreamsFollowConnection, SilenceIsReported
<1>2. CASE Start
  <2>1. timers' = 0 /\ Connected = {} /\ \E s \in Sockets : Connect(s)
    BY <1>2 DEF Start
  <2>2. /\ OneConnection' /\ StreamsFollowConnection' /\ SilenceIsReported'
        /\ socket' \in [Sockets -> Live \cup {"closed"}]
        /\ ws' \in Sockets \cup {NoSocket}
    BY <1>2, <2>1, ConnectKeeps DEF Start
  <2>3. promise' \in [outcome : Outcomes, of : Sockets \cup {NoSocket}]
    BY <1>2 DEF Start, Outcomes
  <2> QED BY <1>2, <2>2, <2>3 DEF Start, TunnelInv, TypeOK, streams
<1>3. CASE Stop
  <2>1. Connected' = Connected /\ ~running'
    BY <1>3 DEF Stop, Connected, TunnelInv, TypeOK, Live
  <2>2. TypeOK'
    BY <1>3 DEF Stop, CleanupSseStreams, TunnelInv, TypeOK, Live
  <2>3. \A x \in SseStreams : subscribed'[x] = NoSocket
    BY <1>3 DEF Stop, CleanupSseStreams, TunnelInv, StreamsFollowConnection, TypeOK
  <2>4. StreamsFollowConnection'
    BY <2>3 DEF StreamsFollowConnection
  <2> QED BY <1>3, <2>1, <2>2, <2>4
          DEF Stop, TunnelInv, OneConnection, SilenceIsReported
<1>4. CASE TimerFires
  <2>1. timers = 1 /\ timers' = 0 /\ Connected = {}
    BY <1>4 DEF TimerFires, TunnelInv, TypeOK, OneConnection
  <2>2. CASE running
    <3>1. /\ OneConnection' /\ StreamsFollowConnection' /\ SilenceIsReported'
          /\ socket' \in [Sockets -> Live \cup {"closed"}]
          /\ ws' \in Sockets \cup {NoSocket}
      BY <1>4, <2>1, <2>2, ConnectKeeps DEF TimerFires
    <3> QED BY <1>4, <2>1, <3>1 DEF TimerFires, TunnelInv, TypeOK, streams
  <2>3. CASE ~running
    BY <1>4, <2>1, <2>3 DEF TimerFires, TunnelInv, TypeOK, streams, Connected,
       OneConnection, StreamsFollowConnection, SilenceIsReported
  <2> QED BY <2>2, <2>3
<1>5. ASSUME NEW s \in Sockets,
             Open(s) \/ AuthOk(s) \/ AuthError(s)
      PROVE  TunnelInv'
  <2>1. Connected' = Connected
    BY <1>5 DEF Open, AuthOk, AuthError, Connected, TunnelInv, TypeOK, Live
  <2>2. promise' \in [outcome : Outcomes, of : Sockets \cup {NoSocket}]
    BY <1>5, SettleTyped
       DEF Open, AuthOk, AuthError, TunnelInv, TypeOK, Outcomes
  <2>3. TypeOK'
    <3>1. CASE Open(s)
      BY <2>2, <3>1 DEF Open, TunnelInv, TypeOK, Live, streams
    <3>2. CASE AuthOk(s)
      BY <2>2, <3>2 DEF AuthOk, TunnelInv, TypeOK, Live, streams
    <3>3. CASE AuthError(s)
      BY <2>2, <3>3 DEF AuthError, TunnelInv, TypeOK, Live, streams
    <3> QED BY <1>5, <3>1, <3>2, <3>3
  <2>4. UNCHANGED <<running, ws, timers, gaveUp, streams>>
    BY <1>5 DEF Open, AuthOk, AuthError
  <2> QED BY <2>1, <2>3, <2>4 DEF TunnelInv, OneConnection, streams,
             StreamsFollowConnection, SilenceIsReported
<1>6. ASSUME NEW s \in Sockets, Fails(s) \/ Closes(s)
      PROVE  TunnelInv'
  <2>1. socket[s] \in Live /\ Closed(s) /\ UNCHANGED <<running, ws, publicUrl, asked>>
    BY <1>6 DEF Fails, Closes
  <2>2. promise' \in [outcome : Outcomes, of : Sockets \cup {NoSocket}]
    BY <1>6, SettleTyped DEF Fails, Closes, TunnelInv, TypeOK, Outcomes
  <2> QED BY <2>1, <2>2, ClosedKeeps DEF TunnelInv, TypeOK
<1>7. ASSUME NEW r \in Requests,
             Respond(r) \/ \E s \in Sockets : HttpRequest(s, r)
      PROVE  TunnelInv'
  BY <1>7 DEF HttpRequest, Respond, connection, streams, TunnelInv, TypeOK,
     OneConnection, Connected, StreamsFollowConnection, SilenceIsReported
<1>8. ASSUME NEW x \in SseStreams,
             LastEvent(x) \/ \E s \in Sockets : SseOpen(s, x) \/ SseClose(s, x)
      PROVE  TunnelInv'
  <2>1. UNCHANGED connection /\ asked' = asked /\ Connected' = Connected
    BY <1>8 DEF SseOpen, SseClose, LastEvent, connection, Connected
  <2>2. TypeOK'
    BY <1>8, <2>1 DEF SseOpen, SseClose, LastEvent, connection, TunnelInv, TypeOK
  <2>3. ASSUME NEW s \in Sockets, SseOpen(s, x)
        PROVE  TunnelInv'
    <3>1. s \in Connected /\ ws = s
      BY <2>3 DEF SseOpen, TunnelInv, OneConnection, Connected, Live
    <3>2. StreamsFollowConnection'
      BY <2>1, <2>3, <3>1 DEF SseOpen, connection, TunnelInv, TypeOK,
         StreamsFollowConnection
    <3> QED BY <2>1, <2>2, <3>2 DEF connection, TunnelInv, OneConnection,
               SilenceIsReported
  <2>4. CASE LastEvent(x) \/ \E s \in Sockets : SseClose(s, x)
    <3>1. /\ sseStreams' = sseStreams \ {x}
          /\ subscribed' = [subscribed EXCEPT ![x] = NoSocket]
      BY <2>4 DEF SseClose, LastEvent
    <3>2. ASSUME NEW y \in SseStreams, subscribed'[y] # NoSocket
          PROVE  y # x /\ subscribed'[y] = subscribed[y]
      BY <3>1, <3>2 DEF TunnelInv, TypeOK
    <3>3. ASSUME NEW y \in SseStreams, subscribed'[y] # NoSocket
          PROVE  /\ y \in sseStreams'
                 /\ subscribed'[y] \in Connected' /\ subscribed'[y] = ws'
      BY <2>1, <3>1, <3>2, <3>3
         DEF connection, TunnelInv, StreamsFollowConnection
    <3> QED BY <2>1, <2>2, <3>3 DEF connection, TunnelInv, OneConnection,
               StreamsFollowConnection, SilenceIsReported
  <2> QED BY <1>8, <2>3, <2>4
<1> QED BY <1>1, <1>2, <1>3, <1>4, <1>5, <1>6, <1>7, <1>8 DEF Next

\* The strengthened invariant of the tunnel, with the types of its variables.
THEOREM TunnelInvariant == Spec => []TunnelInv
  BY InitInv, NextInv, PTL DEF Spec

\* A listener never has two connections, nor a connection and a timer.
THEOREM OneTunnel == Spec => []OneConnection
<1>1. TunnelInv => OneConnection
  BY DEF TunnelInv
<1> QED BY <1>1, TunnelInvariant, PTL

\* A live subscription belongs to the connection there is.
THEOREM StreamsFollow == Spec => []StreamsFollowConnection
<1>1. TunnelInv => StreamsFollowConnection
  BY DEF TunnelInv
<1> QED BY <1>1, TunnelInvariant, PTL

\* A running listener that has neither connection nor timer has reported it.
THEOREM NoSilence == Spec => []SilenceIsReported
<1>1. TunnelInv => SilenceIsReported
  BY DEF TunnelInv
<1> QED BY <1>1, TunnelInvariant, PTL

\* No step makes a connection for a listener that was stopped and stays so.
THEOREM StopStays == Spec => StopIsFinal
<1>1. TunnelInv /\ [Next]_vars =>
        (~running /\ ~running' =>
           \A s \in Sockets : socket'[s] = "connecting" => socket[s] = "connecting")
  <2> SUFFICES ASSUME TunnelInv, Next, ~running, ~running', NEW s \in Sockets,
                      socket'[s] = "connecting"
               PROVE  socket[s] = "connecting"
    BY DEF vars, connection
  <2> QED BY DEF TunnelInv, TypeOK, Next, Start, Stop, TimerFires, Open, Fails,
             Closes, Closed, AuthOk, AuthError, HttpRequest, Respond, SseOpen,
             SseClose, LastEvent, connection
<1> QED BY <1>1, TunnelInvariant, PTL DEF Spec, StopIsFinal
=============================================================================
