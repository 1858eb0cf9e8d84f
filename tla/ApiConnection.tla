---------------------------- MODULE ApiConnection ----------------------------
(***************************************************************************)
(* The connection to the chain that every part of the backend shares       *)
(* (ApiHandler over the WsProvider of polkadot-js).  One websocket is open *)
(* at a time.  When it is lost, or an answer says that a rate limit was    *)
(* hit, or the health check fails, connectWithRetry dials the endpoints in *)
(* turn, four seconds after each failure, until one accepts; getApi makes  *)
(* its callers wait for that.                                              *)
(*                                                                         *)
(* connectWithRetry keeps one promise, connectionAttempt.  Behind it there *)
(* is either an executor that waits for the websocket (dials) or a timer   *)
(* that will try again (timers); the model counts both, so that it can say *)
(* that there is never more than one.                                      *)
(*                                                                         *)
(* WsProvider is external.  connect() goes to the next endpoint, and       *)
(* throws while there is a websocket; disconnect() closes the websocket,   *)
(* which is gone only with its close event; that event fails the requests  *)
(* under way and then tells "disconnected".  What a continuation does      *)
(* before the next event of the socket is part of the same action.         *)
(***************************************************************************)
EXTENDS Integers, FiniteSets

CONSTANTS
  Endpoints,   \* how many endpoints there are
  Down,        \* those that refuse connections
  Callers,     \* what calls the chain: jobs, handlers of events
  TroubleKinds,\* which of "drop", "limit", "mute" may happen
  MaxTrouble   \* bound: how many of these a behaviour contains

Places == 0 .. Endpoints - 1

ASSUME ApiAssumption ==
  /\ Endpoints \in Nat \ {0}
  /\ Down \subseteq Places /\ Down # Places
  /\ TroubleKinds \subseteq {"drop", "limit", "mute"} /\ MaxTrouble \in Nat

VARIABLES
  ws,             \* the websocket: none, opening, open or closing
  at,             \* currentEndpoint
  mute,           \* endpoints that stopped answering, though they accept connections
  attempt,        \* connectionAttempt is a promise
  dials, timers,  \* executors waiting for the websocket, timers waiting to dial again
  isConnected,
  listening,      \* the "disconnected" handler is registered, and the health check runs
  health,         \* a health check is waiting for its answer
  call,           \* the progress of each caller
  trouble

provider   == <<ws, at, mute>>
connecting == <<attempt, dials, timers, isConnected, listening>>
apiVars    == <<provider, connecting, health, call, trouble>>

\* idle; in getApi; with a request on the socket; in the nextEndpoint of handleError;
\* and the two ends of a call.
CallState == {"idle", "waiting", "asked", "rotating", "answered", "failed"}
Ended     == {"idle", "answered", "failed"}

Trouble(kind) ==
  /\ kind \in TroubleKinds /\ trouble < MaxTrouble
  /\ trouble' = trouble + 1

\* The first getApi, which start() awaits: no handler is registered yet.
ApiInit ==
  /\ ws = "opening" /\ at = 0 /\ mute = {}
  /\ attempt = TRUE /\ dials = 1 /\ timers = 0
  /\ isConnected = FALSE /\ listening = FALSE
  /\ health = FALSE
  /\ call = [c \in Callers |-> "idle"]
  /\ trouble = 0
-----------------------------------------------------------------------------
(* connectWithRetry, from a state s of the provider and of the attempt.    *)

Connection == [ws |-> ws, at |-> at, attempt |-> attempt, dials |-> dials,
               timers |-> timers, isConnected |-> isConnected]

Become(s) ==
  /\ ws' = s.ws /\ at' = s.at
  /\ attempt' = s.attempt /\ dials' = s.dials /\ timers' = s.timers
  /\ isConnected' = s.isConnected

\* WsProvider.connect, called by the executor of a new attempt.
Connect(s) ==
  IF s.ws = "none"
  THEN [s EXCEPT !.ws = "opening", !.at = (s.at + 1) % Endpoints, !.dials = @ + 1]
  ELSE [s EXCEPT !.timers = @ + 1]

\* (Variant: a second call starts an attempt of its own.)
ConnectAgain(s) == Connect([s EXCEPT !.attempt = TRUE, !.isConnected = FALSE])

ConnectWithRetry(s) ==
  IF s.attempt THEN s ELSE Connect([s EXCEPT !.attempt = TRUE, !.isConnected = FALSE])

Disconnect(s) == IF s.ws = "none" THEN s ELSE [s EXCEPT !.ws = "closing"]

NextEndpoint(s) == ConnectWithRetry(Disconnect(s))

\* The executors learn that the socket is gone and set their timers.
Rejected(s) == [s EXCEPT !.ws = "none", !.dials = 0, !.timers = @ + s.dials]

\* The "disconnected" handler.
Disconnected(s) == IF listening THEN ConnectWithRetry(s) ELSE s
-----------------------------------------------------------------------------
(* Events of the socket.                                                   *)

\* The executor goes on, clears the attempt and resolves; getApi's callers send their
\* request, and those whose call had hit the limit get their error.
Open ==
  /\ ws = "opening" /\ at \notin Down
  /\ ws' = "open"
  /\ attempt' = FALSE /\ dials' = 0 /\ isConnected' = TRUE /\ listening' = TRUE
  /\ call' = [c \in Callers |-> CASE call[c] = "waiting"  -> "asked"
                                  [] call[c] = "rotating" -> "failed"
                                  [] OTHER                -> call[c]]
  /\ UNCHANGED <<at, mute, timers, health, trouble>>

\* The close event.  A health check under way fails with the other requests, after the
\* "disconnected" handler has dialed: its nextEndpoint closes the socket just opening.
CloseEvent ==
  /\ LET s == Disconnected(Rejected(Connection))
     IN  Become(IF health THEN NextEndpoint(s) ELSE s)
  /\ call' = [c \in Callers |-> IF call[c] = "asked" THEN "failed" ELSE call[c]]
  /\ health' = FALSE
  /\ UNCHANGED <<mute, listening>>

Refuse      == ws = "opening" /\ at \in Down /\ CloseEvent /\ UNCHANGED trouble
FinishClose == ws = "closing" /\ CloseEvent /\ UNCHANGED trouble
Drop        == ws = "open" /\ Trouble("drop") /\ CloseEvent

\* (Variant: the timer clears the attempt and leaves the dialing to the next caller.)
RetryLater ==
  /\ timers > 0
  /\ Become([Connection EXCEPT !.attempt = FALSE, !.timers = @ - 1])
  /\ UNCHANGED <<mute, listening, health, call, trouble>>

\* API_PROVIDER_TIMEOUT after a failure.
Retry ==
  /\ timers > 0
  /\ Become(ConnectWithRetry([Connection EXCEPT !.attempt = FALSE, !.timers = @ - 1]))
  /\ UNCHANGED <<mute, listening, health, call, trouble>>

\* An endpoint stops answering; another still does.  (Not at the very start, where a mute
\* endpoint makes ApiPromise.create wait for ever: no health check runs yet.)
FallSilent ==
  /\ ws = "open" /\ Trouble("mute")
  /\ at \notin mute /\ mute \cup Down \cup {at} # Places
  /\ mute' = mute \cup {at}
  /\ UNCHANGED <<ws, at, connecting, health, call>>
-----------------------------------------------------------------------------
(* Calls.                                                                  *)

\* getApi, then a request; sending fails at once when the socket is not open.
Call(c) ==
  /\ call[c] \in Ended
  /\ call' = [call EXCEPT ![c] = IF attempt THEN "waiting"
                                 ELSE IF ws = "open" THEN "asked" ELSE "failed"]
  /\ UNCHANGED <<provider, connecting, health, trouble>>

Answer(c) ==
  /\ call[c] = "asked" /\ at \notin mute
  /\ call' = [call EXCEPT ![c] = "answered"]
  /\ UNCHANGED <<provider, connecting, health, trouble>>

\* handleError on a rate limit goes to the next endpoint and throws when that is reached.
HitLimit(c) ==
  /\ call[c] = "asked" /\ at \notin mute /\ Trouble("limit")
  /\ LET s == NextEndpoint(Connection)
     IN  /\ Become(s)
         /\ call' = [call EXCEPT ![c] = IF s.attempt THEN "rotating" ELSE "failed"]
  /\ UNCHANGED <<mute, listening, health>>

\* POLKADOT_API_TIMEOUT: handleError throws, and leaves the connection alone.
TimeOut(c) ==
  /\ call[c] = "asked" /\ at \in mute
  /\ call' = [call EXCEPT ![c] = "failed"]
  /\ UNCHANGED <<provider, connecting, health, trouble>>
-----------------------------------------------------------------------------
(* The health check, every POLKADOT_API_TIMEOUT.                           *)

CheckHealth ==
  /\ listening /\ ~attempt /\ ~health
  /\ health' = TRUE
  /\ UNCHANGED <<provider, connecting, call, trouble>>

Healthy ==
  /\ health /\ at \notin mute
  /\ health' = FALSE
  /\ UNCHANGED <<provider, connecting, call, trouble>>

\* (Variant: a failed check is only logged.)
UnhealthyLogged ==
  /\ health
  /\ \/ at \in mute /\ UNCHANGED trouble
     \/ at \notin mute /\ Trouble("limit")
  /\ health' = FALSE
  /\ UNCHANGED <<provider, connecting, call>>

Unhealthy ==
  /\ health
  /\ \/ at \in mute /\ UNCHANGED trouble
     \/ at \notin mute /\ Trouble("limit")
  /\ health' = FALSE
  /\ Become(NextEndpoint(Connection))
  /\ UNCHANGED <<mute, listening, call>>
-----------------------------------------------------------------------------
Socket == Open \/ Refuse \/ FinishClose \/ Drop \/ Retry \/ FallSilent
          \/ CheckHealth \/ Healthy \/ Unhealthy

Reply(c) == Answer(c) \/ HitLimit(c) \/ TimeOut(c)

\* A socket that opens or closes gets there, timers fire, requests are answered or time out,
\* and the health check is made again and again.
ApiFairness ==
  /\ WF_apiVars(Open \/ Refuse \/ FinishClose)
  /\ WF_apiVars(Retry)
  /\ WF_apiVars(CheckHealth) /\ WF_apiVars(Healthy \/ Unhealthy)
  /\ \A c \in Callers : WF_apiVars(Answer(c) \/ TimeOut(c))
-----------------------------------------------------------------------------
(* Properties.                                                             *)

ApiTypeOK ==
  /\ ws \in {"none", "opening", "open", "closing"} /\ at \in Places /\ mute \subseteq Places
  /\ attempt \in BOOLEAN /\ dials \in Nat /\ timers \in Nat
  /\ isConnected \in BOOLEAN /\ listening \in BOOLEAN /\ health \in BOOLEAN
  /\ call \in [Callers -> CallState]
  /\ trouble \in 0 .. MaxTrouble

\* A caller waits in getApi or in handleError only while an attempt will wake it, and a request
\* is under way only on a socket whose close event will fail it: however losses of the
\* connection, rate limits and the timer interleave, no caller is left behind.
NobodyForgotten ==
  \A c \in Callers : /\ call[c] \in {"waiting", "rotating"} => attempt
                     /\ call[c] = "asked" => ws \in {"open", "closing"}

\* Once the troubles are over, the connection comes to rest at an endpoint that answers.
ReachesGood == <>[](ws = "open" /\ at \notin mute)
=============================================================================
