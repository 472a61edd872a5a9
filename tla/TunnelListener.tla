---------------------------- MODULE TunnelListener ----------------------------
(***************************************************************************)
(* The WebSocket tunnel of an Executor behind a NAT                        *)
(* (sdk/src/listener/websocket-tunnel-listener.ts): it keeps a connection  *)
(* to a relay, which passes the Delegators' requests and event streams     *)
(* through it.  An action is one callback; the relay and the network       *)
(* decide when a socket opens, is refused or closes.                       *)
(***************************************************************************)
EXTENDS Naturals

CONSTANTS
  Sockets, NoSocket,  \* WebSocket objects; one that nothing refers to is reused
  Requests,           \* HTTP requests the relay may have open at one time
  SseStreams,         \* event streams it may have open at one time
  Reconnect,          \* config.reconnect.enabled
  MaxRetries          \* config.reconnect.maxRetries

ASSUME TunnelAssumption ==
  /\ NoSocket \notin Sockets
  /\ Reconnect \in BOOLEAN /\ MaxRetries \in Nat

VARIABLES
  running,     \* start() was called and stop() was not (~stopped, handler set)
  socket,      \* state of each WebSocket
  ws,          \* this.ws: the one send() writes to
  timers,      \* reconnection timers pending
  retryCount,
  publicUrl,   \* is the public URL known?
  gaveUp,      \* onError('Max reconnect retries reached') was called
  promise,     \* what start() returned: how it stands, and whose connect() it is
  asked,       \* the socket an unanswered request came in on
  sseStreams,  \* keys of the map from streamId to unsubscribe
  subscribed,  \* the socket a stream with a live subscription came in on
  replaying    \* streams of finished tasks, answered by setImmediate

connection == <<running, socket, ws, timers, retryCount, publicUrl, gaveUp, promise>>
streams == <<sseStreams, subscribed, replaying>>
vars == <<connection, asked, streams>>

Live == {"connecting", "open", "ready", "refused", "closing", "aborting"}
Outcomes == {"none", "pending", "resolved", "rejected"}

TypeOK ==
  /\ running \in BOOLEAN /\ publicUrl \in BOOLEAN /\ gaveUp \in BOOLEAN
  /\ socket \in [Sockets -> Live \cup {"closed"}]
  /\ ws \in Sockets \cup {NoSocket}
  /\ timers \in Nat /\ retryCount \in 0..MaxRetries
  /\ promise \in [outcome : Outcomes, of : Sockets \cup {NoSocket}]
  /\ asked \in [Requests -> Sockets \cup {NoSocket}]
  /\ subscribed \in [SseStreams -> Sockets \cup {NoSocket}]
  /\ sseStreams \subseteq SseStreams /\ replaying \subseteq SseStreams

Init ==
  /\ running = FALSE /\ publicUrl = FALSE /\ gaveUp = FALSE
  /\ socket = [s \in Sockets |-> "closed"] /\ ws = NoSocket
  /\ timers = 0 /\ retryCount = 0
  /\ promise = [outcome |-> "none", of |-> NoSocket]
  /\ asked = [r \in Requests |-> NoSocket]
  /\ subscribed = [x \in SseStreams |-> NoSocket]
  /\ sseStreams = {} /\ replaying = {}

(***************************************************************************)
(* Fragments the actions share.                                            *)
(***************************************************************************)
Connected == {s \in Sockets : socket[s] \in Live}
Free(s) == socket[s] = "closed" /\ \A r \in Requests : asked[r] # s

\* connect(): a new WebSocket becomes this.ws.
Connect(s) ==
  /\ Free(s) /\ ws' = s
  /\ socket' = [socket EXCEPT ![s] = "connecting"]

\* resolve() or reject() of the promise made with socket s; only start()'s
\* is waited for, and a settled one stays as it is.
Settle(s, outcome) ==
  promise' = IF promise.of = s /\ promise.outcome = "pending"
             THEN [outcome |-> outcome, of |-> s] ELSE promise

CleanupSseStreams ==
  /\ sseStreams' = {}
  /\ subscribed' = [x \in SseStreams |-> IF x \in sseStreams THEN NoSocket
                                         ELSE subscribed[x]]
  /\ UNCHANGED replaying

\* Mutant: attempts are not counted.
MaybeReconnectAlways ==
  /\ timers' = IF running /\ Reconnect THEN timers + 1 ELSE timers
  /\ UNCHANGED <<retryCount, gaveUp>>

\* Mutant: giving up is not reported.
MaybeReconnectQuietly ==
  IF running /\ Reconnect /\ retryCount < MaxRetries
  THEN timers' = timers + 1 /\ retryCount' = retryCount + 1 /\ UNCHANGED gaveUp
  ELSE UNCHANGED <<timers, retryCount, gaveUp>>

\* maybeReconnect(), when not stopped.
MaybeReconnect ==
  IF ~running THEN UNCHANGED <<timers, retryCount, gaveUp>>
  ELSE IF Reconnect /\ retryCount < MaxRetries
  THEN timers' = timers + 1 /\ retryCount' = retryCount + 1 /\ UNCHANGED gaveUp
  ELSE gaveUp' = (gaveUp \/ retryCount >= MaxRetries) /\ UNCHANGED <<timers, retryCount>>

\* Mutant: the streams stay open.
ClosedKeepingStreams(s) ==
  /\ socket' = [socket EXCEPT ![s] = "closed"]
  /\ MaybeReconnect /\ UNCHANGED streams

\* The 'close' event of socket s.
Closed(s) ==
  /\ socket' = [socket EXCEPT ![s] = "closed"]
  /\ CleanupSseStreams /\ MaybeReconnect

(***************************************************************************)
(* Life of the listener and its connection.                                *)
(***************************************************************************)
\* A listener is started anew only when nothing of its last life is left.
Start ==
  /\ ~running /\ running' = TRUE /\ timers = 0 /\ Connected = {}
  /\ \E s \in Sockets :
       Connect(s) /\ promise' = [outcome |-> "pending", of |-> s]
  /\ gaveUp' = FALSE
  /\ UNCHANGED <<timers, retryCount, publicUrl, asked, streams>>

\* stop(): closing a socket that has not opened makes it fail.
Stop ==
  /\ running /\ running' = FALSE
  /\ ws' = NoSocket /\ publicUrl' = FALSE /\ CleanupSseStreams
  /\ socket' = [s \in Sockets |->
                  IF s # ws \/ socket[s] = "closed" THEN socket[s]
                  ELSE IF socket[s] = "connecting" THEN "aborting"
                  ELSE "closing"]
  /\ UNCHANGED <<timers, retryCount, gaveUp, promise, asked>>

\* 'open': the token is sent.
Open(s) ==
  /\ socket[s] = "connecting" /\ socket' = [socket EXCEPT ![s] = "open"]
  /\ UNCHANGED <<running, ws, timers, retryCount, publicUrl, gaveUp, promise,
                 asked, streams>>

\* 'error', which rejects while no URL was ever given out, then 'close'.
Fails(s) ==
  /\ socket[s] \in Live /\ Closed(s)
  /\ IF publicUrl THEN UNCHANGED promise ELSE Settle(s, "rejected")
  /\ UNCHANGED <<running, ws, publicUrl, asked>>

\* 'close' alone: the relay hung up, or a close() is through.
Closes(s) ==
  /\ socket[s] \in Live \ {"connecting", "aborting"} /\ Closed(s)
  /\ UNCHANGED <<running, ws, publicUrl, promise, asked>>

\* A message may still come in on a socket that is closing.
AuthOk(s) ==
  /\ socket[s] \in {"open", "closing"} /\ publicUrl' = TRUE /\ retryCount' = 0
  /\ socket' = [socket EXCEPT ![s] = IF @ = "open" THEN "ready" ELSE @]
  /\ Settle(s, "resolved")
  /\ UNCHANGED <<running, ws, timers, gaveUp, asked, streams>>

\* onError() and a rejection: the connection is left as it is.
AuthError(s) ==
  /\ socket[s] \in {"open", "closing"} /\ Settle(s, "rejected")
  /\ socket' = [socket EXCEPT ![s] = IF @ = "open" THEN "refused" ELSE @]
  /\ UNCHANGED <<running, ws, timers, retryCount, publicUrl, gaveUp, asked, streams>>

\* Mutant: stop() is not looked at.
TimerFiresAnyway ==
  /\ timers > 0 /\ timers' = timers - 1
  /\ \E s \in Sockets : Connect(s)
  /\ UNCHANGED <<running, retryCount, publicUrl, gaveUp, promise, asked, streams>>

\* Mutant: setInterval() for setTimeout().
TimerRepeats ==
  /\ timers > 0 /\ UNCHANGED timers
  /\ IF running THEN \E s \in Sockets : Connect(s) ELSE UNCHANGED <<socket, ws>>
  /\ UNCHANGED <<running, retryCount, publicUrl, gaveUp, promise, asked, streams>>

TimerFires ==
  /\ timers > 0 /\ timers' = timers - 1
  /\ IF running THEN \E s \in Sockets : Connect(s) ELSE UNCHANGED <<socket, ws>>
  /\ UNCHANGED <<running, retryCount, publicUrl, gaveUp, promise, asked, streams>>

(***************************************************************************)
(* What comes through the tunnel.                                          *)
(***************************************************************************)
HttpRequest(s, r) ==
  /\ running /\ socket[s] = "ready" /\ asked[r] = NoSocket
  /\ asked' = [asked EXCEPT ![r] = s]
  /\ UNCHANGED <<connection, streams>>

\* The handler settled; send() writes to this.ws, or to nothing.
Respond(r) ==
  /\ asked[r] # NoSocket /\ asked' = [asked EXCEPT ![r] = NoSocket]
  /\ UNCHANGED <<connection, streams>>

\* subscribeTask(): an unknown task is answered by the call itself, before
\* its entry is made; a finished one after it; a running one when it ends.
SseOpen(s, x) ==
  /\ running /\ socket[s] = "ready"
  /\ x \notin sseStreams \cup replaying /\ subscribed[x] = NoSocket
  /\ sseStreams' = sseStreams \cup {x}
  /\ \/ UNCHANGED <<subscribed, replaying>>
     \/ replaying' = replaying \cup {x} /\ UNCHANGED subscribed
     \/ subscribed' = [subscribed EXCEPT ![x] = s] /\ UNCHANGED replaying
  /\ UNCHANGED <<connection, asked>>

\* The last event of a task: SSE_EVENT, SSE_END.
LastEvent(x) ==
  /\ subscribed[x] # NoSocket \/ x \in replaying
  /\ sseStreams' = sseStreams \ {x}
  /\ subscribed' = [subscribed EXCEPT ![x] = NoSocket]
  /\ replaying' = replaying \ {x}
  /\ UNCHANGED <<connection, asked>>

SseClose(s, x) ==
  /\ socket[s] \in {"ready", "closing"} /\ x \in sseStreams
  /\ sseStreams' = sseStreams \ {x}
  /\ subscribed' = [subscribed EXCEPT ![x] = NoSocket]
  /\ UNCHANGED <<connection, asked, replaying>>

(***************************************************************************)
(* The specification.                                                      *)
(***************************************************************************)
Next ==
  \/ Start \/ Stop \/ TimerFires
  \/ \E s \in Sockets : Open(s) \/ Fails(s) \/ Closes(s) \/ AuthOk(s) \/ AuthError(s)
  \/ \E s \in Sockets, r \in Requests : HttpRequest(s, r)
  \/ \E r \in Requests : Respond(r)
  \/ \E s \in Sockets, x \in SseStreams : SseOpen(s, x) \/ SseClose(s, x)
  \/ \E x \in SseStreams : LastEvent(x)

Spec == Init /\ [][Next]_vars

\* Timers fire, a connection attempt opens or fails, the relay answers a
\* token or hangs up, and a close() goes through.
FairSpec ==
  /\ Spec /\ WF_vars(TimerFires)
  /\ \A s \in Sockets :
       /\ WF_vars(socket[s] = "connecting" /\ (Open(s) \/ Fails(s)))
       /\ WF_vars(socket[s] = "aborting" /\ Fails(s))
       /\ WF_vars(socket[s] = "open" /\ (AuthOk(s) \/ AuthError(s) \/ Closes(s)))
       /\ WF_vars(socket[s] = "closing" /\ Closes(s))

(***************************************************************************)
(* Properties.                                                             *)
(***************************************************************************)
\* A listener has one connection or one reconnection timer, never two: no
\* request is answered on another connection while its own is open, and no
\* relay sees two tunnels of one Executor.
OneConnection ==
  /\ \A s, t \in Connected : s = t
  /\ timers > 0 => timers = 1 /\ Connected = {}
  /\ \A s \in Connected : running => ws = s

\* A subscription to a task belongs to a connection that is still there, and
\* the map can still end it: what a closed connection opened is given back.
StreamsFollowConnection ==
  \A x \in SseStreams : subscribed[x] # NoSocket =>
    x \in sseStreams /\ subscribed[x] \in Connected /\ subscribed[x] = ws

\* A running listener without a connection or a timer has said so: it was told
\* not to reconnect, or it reported that its retries are used up.
SilenceIsReported ==
  running /\ Connected = {} /\ timers = 0 => gaveUp \/ ~Reconnect

\* Nothing connects for a stopped listener, though timers and close events
\* of its life still come in.
StopIsFinal ==
  [][~running /\ ~running' =>
       \A s \in Sockets : socket'[s] = "connecting" => socket[s] = "connecting"]_vars

\* A lost connection is made good, refused or given up: retries end.
ComesBack ==
  running /\ timers > 0 ~>
    \/ ~running \/ gaveUp
    \/ \E s \in Sockets : socket[s] \in {"ready", "refused"}
=============================================================================
