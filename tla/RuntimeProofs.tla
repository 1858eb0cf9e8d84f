----------------------------- MODULE RuntimeProofs -----------------------------
(***************************************************************************)
(* Proofs about Runtime and the ApiConnection it uses, for any endpoints,  *)
(* jobs, troubles and crashes.                                             *)
(***************************************************************************)
EXTENDS Runtime, TLAPS

\* The provider and connectWithRetry's attempt, as a record.
Conn == [ws : {"none", "opening", "open", "closing"}, at : Places, attempt : BOOLEAN,
         dials : Nat, timers : Nat, isConnected : BOOLEAN]

Waits(s) ==
  \/ s.dials = 1 /\ s.timers = 0
  \/ s.dials = 0 /\ s.timers = 1

\* An attempt waits for the websocket or for a timer, and ends with the socket open.
Tied(s) ==
  /\ s.isConnected = ~s.attempt
  /\ s.attempt => Waits(s) /\ s.ws # "open"
  /\ ~s.attempt => s.dials = 0 /\ s.timers = 0 /\ s.ws = "open"
  /\ s.ws = "opening" => s.dials = 1
  /\ s.ws = "none" => s.dials = 0

\* The same, except that the socket may be gone or going before the attempt begins.
Loose(s) ==
  \/ Tied(s) /\ s.attempt
  \/ ~s.attempt /\ s.dials = 0 /\ s.timers = 0 /\ s.ws \in {"none", "closing"}

\* The handler of "disconnected" is registered once an attempt has ended.
Attempts == Tied(Connection) /\ (~attempt => listening)

\* A process that is down leaves nothing behind.
Gone == timers = 0 /\ isConnected = FALSE

\* Only a process with its jobs runs one.
JobsNeedStart == stage # "up" => \A j \in Jobs : ~isRunning[j]

\* The inductive invariant.
IndInv ==
  /\ TypeOK /\ JobsNeedStart
  /\ IF stage = "down" THEN Gone ELSE Attempts
-----------------------------------------------------------------------------
(* connectWithRetry and the calls around it, on any state of the connection. *)

LEMMA NextPlace ==
  ASSUME NEW p \in Places
  PROVE  (p + 1) % Endpoints \in Places
BY ApiAssumption DEF Places

\* An executor that could call connect() waits for the socket; else there is a timer.
LEMMA ConnectTies ==
  ASSUME NEW s \in Conn, s.attempt, ~s.isConnected, s.dials = 0, s.timers = 0,
         s.ws \in {"none", "closing"}
  PROVE  Connect(s) \in Conn /\ Tied(Connect(s)) /\ Connect(s).attempt
<1>1. s.at \in Places /\ s.isConnected = FALSE /\ s.attempt = TRUE
  BY DEF Conn
<1>2. CASE s.ws = "none"
  <2> DEFINE p == (s.at + 1) % Endpoints
             d == s.dials + 1
  <2>1. p \in Places /\ d \in Nat /\ d = 1
    BY <1>1, NextPlace
  <2> HIDE DEF p, d
  <2> DEFINE u == [s EXCEPT !.ws = "opening", !.at = p, !.dials = d]
  <2>2. /\ u \in Conn /\ u.ws = "opening" /\ u.dials = d /\ u.timers = s.timers
        /\ u.attempt = s.attempt /\ u.isConnected = s.isConnected
    BY <2>1 DEF Conn
  <2>3. Connect(s) = u
    BY <1>2 DEF Connect, p, d
  <2> HIDE DEF u
  <2>4. Waits(u)
    BY <2>1, <2>2 DEF Waits
  <2>5. Tied(u)
    BY <1>1, <2>1, <2>2, <2>4 DEF Tied
  <2> QED BY <2>2, <2>3, <2>5
<1>3. CASE s.ws = "closing"
  <2> DEFINE k == s.timers + 1
  <2>1. k \in Nat /\ k = 1
    OBVIOUS
  <2> HIDE DEF k
  <2> DEFINE u == [s EXCEPT !.timers = k]
  <2>2. /\ u \in Conn /\ u.ws = s.ws /\ u.dials = s.dials /\ u.timers = k
        /\ u.attempt = s.attempt /\ u.isConnected = s.isConnected
    BY <2>1 DEF Conn
  <2>3. Connect(s) = u
    BY <1>3 DEF Connect, k
  <2> HIDE DEF u
  <2>4. Waits(u)
    BY <2>1, <2>2 DEF Waits
  <2>5. Tied(u)
    BY <1>1, <1>3, <2>1, <2>2, <2>4 DEF Tied
  <2> QED BY <2>2, <2>3, <2>5
<1> QED BY <1>2, <1>3

LEMMA RetryTies ==
  ASSUME NEW s \in Conn, Loose(s)
  PROVE  ConnectWithRetry(s) \in Conn /\ Tied(ConnectWithRetry(s)) /\ ConnectWithRetry(s).attempt
<1>1. CASE s.attempt
  BY <1>1 DEF ConnectWithRetry, Loose
<1>2. CASE ~s.attempt
  <2> DEFINE u == [s EXCEPT !.attempt = TRUE, !.isConnected = FALSE]
  <2>1. /\ u \in Conn /\ u.ws = s.ws /\ u.dials = s.dials /\ u.timers = s.timers
        /\ u.attempt /\ ~u.isConnected
    BY DEF Conn
  <2>2. ConnectWithRetry(s) = Connect(u)
    BY <1>2 DEF ConnectWithRetry
  <2> HIDE DEF u
  <2> QED BY <1>2, <2>1, <2>2, ConnectTies DEF Loose
<1> QED BY <1>1, <1>2

LEMMA NextEndpointTies ==
  ASSUME NEW s \in Conn, Tied(s)
  PROVE  NextEndpoint(s) \in Conn /\ Tied(NextEndpoint(s)) /\ NextEndpoint(s).attempt
<1> DEFINE u == Disconnect(s)
<1>1. u \in Conn /\ Loose(u)
  <2>1. CASE s.ws = "none"
    BY <2>1 DEF Disconnect, Loose, Tied
  <2>2. CASE s.ws # "none"
    <3> DEFINE v == [s EXCEPT !.ws = "closing"]
    <3>1. /\ v \in Conn /\ v.ws = "closing" /\ v.dials = s.dials /\ v.timers = s.timers
          /\ v.attempt = s.attempt /\ v.isConnected = s.isConnected
      BY DEF Conn
    <3>2. u = v
      BY <2>2 DEF Disconnect
    <3> HIDE DEF v, u
    <3>3. Waits(s) => Waits(v)
      BY <3>1 DEF Waits
    <3>4. Loose(v)
      BY <3>1, <3>3 DEF Loose, Tied
    <3> QED BY <3>1, <3>2, <3>4
  <2> QED BY <2>1, <2>2
<1>2. NextEndpoint(s) = ConnectWithRetry(u)
  BY DEF NextEndpoint
<1> HIDE DEF u
<1> QED BY <1>1, <1>2, RetryTies

LEMMA RejectedLoosens ==
  ASSUME NEW s \in Conn, Tied(s)
  PROVE  Rejected(s) \in Conn /\ Loose(Rejected(s)) /\ Rejected(s).attempt = s.attempt
<1> DEFINE k == s.timers + s.dials
<1>1. k \in Nat
  BY DEF Conn
<1>2. (s.attempt => k = 1) /\ (~s.attempt => k = 0)
  BY DEF Conn, Tied, Waits
<1> HIDE DEF k
<1> DEFINE u == [s EXCEPT !.ws = "none", !.dials = 0, !.timers = k]
<1>3. /\ u \in Conn /\ u.ws = "none" /\ u.dials = 0 /\ u.timers = k
      /\ u.attempt = s.attempt /\ u.isConnected = s.isConnected
  BY <1>1 DEF Conn
<1>4. Rejected(s) = u
  BY DEF Rejected, k
<1> HIDE DEF u
<1>5. s.attempt => Waits(u)
  BY <1>2, <1>3 DEF Waits
<1>6. Loose(u)
  BY <1>2, <1>3, <1>5 DEF Loose, Tied, Conn
<1> QED BY <1>3, <1>4, <1>6

\* The state of the connection after Become.
LEMMA BecomeSets ==
  ASSUME NEW s \in Conn, Become(s)
  PROVE  Connection' = s
<1>1. s = [ws |-> s.ws, at |-> s.at, attempt |-> s.attempt, dials |-> s.dials,
           timers |-> s.timers, isConnected |-> s.isConnected]
  BY DEF Conn
<1> QED BY <1>1 DEF Become, Connection

LEMMA ConnectionTyped == ApiTypeOK => Connection \in Conn
BY DEF ApiTypeOK, Connection, Conn

LEMMA ConnectionFields ==
  /\ Connection.ws = ws /\ Connection.at = at /\ Connection.attempt = attempt
  /\ Connection.dials = dials /\ Connection.timers = timers
  /\ Connection.isConnected = isConnected
BY DEF Connection
-----------------------------------------------------------------------------
(* The steps of ApiConnection.                                             *)

\* What a step of the network keeps: the types, the tie, and that who calls nothing waits
\* for nothing.
ApiGood == ApiTypeOK /\ Attempts
ApiKept == ApiGood' /\ \A c \in Callers : call[c] = "idle" => call'[c] = "idle"

LEMMA ApiFromConnection ==
  ASSUME Connection' \in Conn, mute' \subseteq Places, listening' \in BOOLEAN,
         health' \in BOOLEAN, call' \in [Callers -> CallState], trouble' \in 0 .. MaxTrouble
  PROVE  ApiTypeOK'
BY DEF ApiTypeOK, Connection, Conn

LEMMA TroubleCounted ==
  ASSUME ApiTypeOK, NEW k, Trouble(k) \/ UNCHANGED trouble
  PROVE  trouble' \in 0 .. MaxTrouble
BY ApiAssumption DEF ApiTypeOK, Trouble

\* The provider and the attempt stay as they are.
LEMMA SameConnection ==
  ASSUME ApiGood, UNCHANGED <<provider, connecting>>,
         health' \in BOOLEAN, call' \in [Callers -> CallState], trouble' \in 0 .. MaxTrouble
  PROVE  ApiGood'
<1>1. Connection' = Connection /\ Connection \in Conn
  BY ConnectionTyped DEF Connection, provider, connecting, ApiGood, Attempts
<1>2. ApiTypeOK'
  BY <1>1, ApiFromConnection DEF ApiGood, Attempts, ApiTypeOK, provider, connecting
<1> QED BY <1>1, <1>2 DEF ApiGood, Attempts, connecting

\* A new attempt begins, or goes on.
LEMMA NewConnection ==
  ASSUME ApiGood, NEW s \in Conn, Tied(s), s.attempt, Become(s), UNCHANGED <<mute, listening>>,
         health' \in BOOLEAN, call' \in [Callers -> CallState], trouble' \in 0 .. MaxTrouble
  PROVE  ApiGood' /\ attempt'
<1>1. Connection' = s
  BY BecomeSets
<1>2. attempt'
  BY DEF Become
<1>3. ApiTypeOK'
  BY <1>1, ApiFromConnection DEF ApiGood, Attempts, ApiTypeOK
<1> QED BY <1>1, <1>2, <1>3 DEF ApiGood, Attempts

LEMMA CallOK ==
  ASSUME ApiGood, NEW c \in Callers, Call(c)
  PROVE  ApiGood' /\ \A d \in Callers \ {c} : call'[d] = call[d]
<1>1. call' \in [Callers -> CallState] /\ \A d \in Callers \ {c} : call'[d] = call[d]
  <2> DEFINE next == IF attempt THEN "waiting" ELSE IF ws = "open" THEN "asked" ELSE "failed"
  <2>1. next \in CallState /\ call' = [call EXCEPT ![c] = next]
    BY DEF CallState, Call
  <2> HIDE DEF next
  <2> QED BY <2>1 DEF ApiGood, Attempts, ApiTypeOK
<1>2. UNCHANGED <<provider, connecting, health, trouble>>
  BY DEF Call
<1> QED BY <1>1, <1>2, SameConnection DEF ApiGood, Attempts, ApiTypeOK

\* A caller gets an answer or an error.
LEMMA CallEnds ==
  ASSUME ApiGood, NEW c \in Callers, NEW v \in CallState, call[c] # "idle",
         call' = [call EXCEPT ![c] = v]
  PROVE  /\ call' \in [Callers -> CallState]
         /\ \A d \in Callers : call[d] = "idle" => call'[d] = "idle"
BY DEF ApiGood, Attempts, ApiTypeOK

LEMMA ReplyOK ==
  ASSUME ApiGood, NEW c \in Callers, Reply(c)
  PROVE  ApiKept
<1>1. CASE Answer(c) \/ TimeOut(c)
  <2>1. /\ call' \in [Callers -> CallState]
        /\ \A d \in Callers : call[d] = "idle" => call'[d] = "idle"
    BY <1>1, CallEnds DEF Answer, TimeOut, CallState
  <2>2. UNCHANGED <<provider, connecting, health, trouble>>
    BY <1>1 DEF Answer, TimeOut
  <2> QED BY <2>1, <2>2, SameConnection DEF ApiGood, Attempts, ApiTypeOK, ApiKept
<1>2. CASE HitLimit(c)
  <2> DEFINE s == NextEndpoint(Connection)
             v == IF s.attempt THEN "rotating" ELSE "failed"
  <2>1. s \in Conn /\ Tied(s) /\ s.attempt
    BY ConnectionTyped, NextEndpointTies DEF ApiGood, Attempts
  <2>2. call[c] = "asked" /\ Trouble("limit") /\ Become(s) /\ UNCHANGED <<mute, listening, health>>
    BY <1>2 DEF HitLimit
  <2>3. call' = [call EXCEPT ![c] = v] /\ v \in CallState
    BY <1>2 DEF HitLimit, CallState
  <2> HIDE DEF s, v
  <2>4. /\ call' \in [Callers -> CallState]
        /\ \A d \in Callers : call[d] = "idle" => call'[d] = "idle"
    BY <2>2, <2>3, CallEnds
  <2>5. trouble' \in 0 .. MaxTrouble
    BY <2>2, TroubleCounted DEF ApiGood, Attempts
  <2> QED BY <2>1, <2>2, <2>4, <2>5, NewConnection DEF ApiGood, Attempts, ApiTypeOK, ApiKept
<1> QED BY <1>1, <1>2 DEF Reply

LEMMA CloseEventOK ==
  ASSUME ApiGood, CloseEvent, trouble' \in 0 .. MaxTrouble
  PROVE  ApiKept /\ attempt'
<1> DEFINE r == Rejected(Connection)
           s == Disconnected(r)
           u == IF health THEN NextEndpoint(s) ELSE s
<1>1. r \in Conn /\ Loose(r) /\ r.attempt = attempt
  BY ConnectionTyped, ConnectionFields, RejectedLoosens DEF ApiGood, Attempts
<1>2. s \in Conn /\ Tied(s) /\ s.attempt
  <2> HIDE DEF r
  <2>1. CASE listening
    BY <1>1, <2>1, RetryTies DEF Disconnected
  <2>2. CASE ~listening
    <3>1. attempt /\ s = r
      BY <2>2 DEF ApiGood, Attempts, Disconnected
    <3> QED BY <1>1, <3>1 DEF Loose
  <2> QED BY <2>1, <2>2
<1>3. u \in Conn /\ Tied(u) /\ u.attempt
  <2> HIDE DEF s
  <2> QED BY <1>2, NextEndpointTies
<1>4. Become(u) /\ UNCHANGED <<mute, listening>> /\ health' = FALSE
  BY DEF CloseEvent
<1>5. /\ call' \in [Callers -> CallState]
      /\ \A c \in Callers : call[c] = "idle" => call'[c] = "idle"
  BY DEF CloseEvent, ApiGood, Attempts, ApiTypeOK, CallState
<1> HIDE DEF u
<1> QED BY <1>3, <1>4, <1>5, NewConnection DEF ApiKept

LEMMA RetryOK ==
  ASSUME ApiGood, Retry
  PROVE  ApiKept /\ attempt'
<1> DEFINE k == timers - 1
           s == [Connection EXCEPT !.attempt = FALSE, !.timers = k]
<1>0. Connection \in Conn /\ Tied(Connection) /\ health \in BOOLEAN
      /\ call \in [Callers -> CallState] /\ trouble \in 0 .. MaxTrouble
  BY ConnectionTyped DEF ApiGood, Attempts, ApiTypeOK
<1>1. timers > 0 /\ Become(ConnectWithRetry(s)) /\ UNCHANGED <<mute, listening, health, call, trouble>>
  BY ConnectionFields DEF Retry, Connection
<1>2. timers = 1 /\ dials = 0 /\ attempt /\ ws # "open" /\ ws # "opening"
  <2>1. timers # 0
    BY <1>1
  <2>2. attempt
    BY <1>0, <2>1, ConnectionFields DEF Tied
  <2> QED BY <1>0, <2>1, <2>2, ConnectionFields DEF Tied, Waits
<1>3. k = 0
  BY <1>2
<1> HIDE DEF k
<1>4. s \in Conn /\ s.ws = ws /\ s.attempt = FALSE /\ s.dials = dials /\ s.timers = k
  BY <1>0, <1>3, ConnectionFields DEF Conn
<1> HIDE DEF s
<1>5. Loose(s)
  BY <1>2, <1>3, <1>4 DEF Loose, Conn
<1>6. /\ ConnectWithRetry(s) \in Conn /\ Tied(ConnectWithRetry(s)) /\ ConnectWithRetry(s).attempt
  BY <1>4, <1>5, RetryTies
<1>7. ApiGood' /\ attempt'
  BY <1>0, <1>1, <1>6, NewConnection
<1> QED BY <1>1, <1>7 DEF ApiKept

LEMMA SocketOK ==
  ASSUME ApiGood, Socket
  PROVE  ApiKept
<1>0. Connection \in Conn /\ Tied(Connection) /\ health \in BOOLEAN /\ listening \in BOOLEAN
      /\ call \in [Callers -> CallState] /\ trouble \in 0 .. MaxTrouble /\ mute \subseteq Places
  BY ConnectionTyped DEF ApiGood, Attempts, ApiTypeOK
<1>1. CASE Open
  <2>1. ws = "opening" /\ ws' = "open" /\ attempt' = FALSE /\ dials' = 0 /\ isConnected' = TRUE
        /\ listening' = TRUE /\ UNCHANGED <<at, mute, timers, health, trouble>>
    BY <1>1 DEF Open
  <2>2. timers = 0
    <3>1. dials = 1 /\ (Waits(Connection) \/ ~attempt)
      BY <1>0, <2>1, ConnectionFields DEF Tied
    <3> QED BY <1>0, <2>1, <3>1, ConnectionFields DEF Waits, Tied
  <2>3. Connection' \in Conn
    BY <1>0, <2>1 DEF Connection, Conn
  <2>4. Connection'.ws = "open" /\ Connection'.attempt = FALSE /\ Connection'.dials = 0
        /\ Connection'.timers = 0 /\ Connection'.isConnected = TRUE
    BY <2>1, <2>2 DEF Connection
  <2>5. Tied(Connection')
    BY <2>4 DEF Tied
  <2>6. /\ call' \in [Callers -> CallState]
        /\ \A c \in Callers : call[c] = "idle" => call'[c] = "idle"
    BY <1>0, <1>1 DEF Open, CallState
  <2>7. ApiTypeOK'
    BY <1>0, <2>1, <2>3, <2>6, ApiFromConnection
  <2> QED BY <2>1, <2>5, <2>6, <2>7 DEF ApiKept, ApiGood, Attempts
<1>2. CASE Refuse \/ FinishClose \/ Drop
  BY <1>0, <1>2, CloseEventOK, TroubleCounted DEF Refuse, FinishClose, Drop, ApiGood, Attempts
<1>3. CASE Retry
  BY <1>3, RetryOK
<1>4. CASE FallSilent
  <2>1. UNCHANGED <<ws, at, connecting, health, call>> /\ Trouble("mute") /\ mute' = mute \cup {at}
    BY <1>4 DEF FallSilent
  <2>2. Connection' = Connection
    BY <2>1 DEF Connection, connecting
  <2>3. mute' \subseteq Places /\ trouble' \in 0 .. MaxTrouble
    BY <1>0, <2>1, TroubleCounted DEF ApiGood, Attempts, ApiTypeOK
  <2>4. ApiTypeOK'
    BY <1>0, <2>1, <2>2, <2>3, ApiFromConnection DEF connecting
  <2> QED BY <1>0, <2>1, <2>2, <2>4 DEF ApiKept, ApiGood, Attempts, connecting
<1>5. CASE CheckHealth \/ Healthy
  <2>1. UNCHANGED <<provider, connecting, call, trouble>> /\ health' \in BOOLEAN
    BY <1>5 DEF CheckHealth, Healthy
  <2>2. ApiGood'
    BY <1>0, <2>1, SameConnection
  <2> QED BY <2>1, <2>2 DEF ApiKept
<1>6. CASE Unhealthy
  <2>1. /\ NextEndpoint(Connection) \in Conn /\ Tied(NextEndpoint(Connection))
        /\ NextEndpoint(Connection).attempt
    BY <1>0, NextEndpointTies
  <2>2. Become(NextEndpoint(Connection)) /\ UNCHANGED <<mute, listening, call>> /\ health' = FALSE
        /\ trouble' \in 0 .. MaxTrouble
    BY <1>0, <1>6, TroubleCounted DEF Unhealthy, ApiGood, Attempts
  <2>3. ApiGood'
    BY <1>0, <2>1, <2>2, NewConnection
  <2> QED BY <2>2, <2>3 DEF ApiKept
<1> QED BY <1>1, <1>2, <1>3, <1>4, <1>5, <1>6 DEF Socket
-----------------------------------------------------------------------------
(* The steps of the process.                                               *)

\* The types of what is not ApiConnection's, and that only start() calls before there are jobs.
ProcessTyped ==
  /\ stage \in Stages
  /\ isRunning \in [Jobs -> BOOLEAN] /\ left \in [Jobs -> 0 .. CallsPerRun]
  /\ status \in [Jobs -> Status]
  /\ crashes \in 0 .. MaxCrashes
  /\ stage # "up" => \A j \in Jobs : call[j] = "idle" /\ status[j] = "absent"

LEMMA TypeParts == TypeOK <=> ApiTypeOK /\ ProcessTyped
BY DEF TypeOK, ProcessTyped

LEMMA CallerFacts ==
  /\ Jobs \subseteq Callers /\ Handler \in Callers /\ Main \in Callers
  /\ \A j \in Jobs : j # Handler /\ j # Main
BY RuntimeAssumption

Alive == stage # "down" /\ ApiGood /\ ProcessTyped /\ JobsNeedStart

LEMMA IndInvParts ==
  /\ Alive => IndInv
  /\ IndInv /\ stage # "down" => Alive
  /\ IndInv => ApiTypeOK /\ ProcessTyped /\ JobsNeedStart
  /\ stage = "down" /\ ApiTypeOK /\ ProcessTyped /\ JobsNeedStart /\ Gone => IndInv
BY TypeParts DEF Alive, IndInv, ApiGood

\* Not up before or after, with no job's call, status or run changed.
LEMMA JobsUntouched ==
  ASSUME Alive, stage # "up", stage' \in Stages, UNCHANGED <<jobVars, crashes>>,
         \A j \in Jobs : call'[j] = call[j]
  PROVE  ProcessTyped' /\ JobsNeedStart'
BY DEF Alive, ProcessTyped, JobsNeedStart, jobVars

LEMMA NetworkOK ==
  ASSUME Alive, Network
  PROVE  Alive'
<1>1. UNCHANGED <<stage, jobVars, crashes>> /\ ApiKept
  BY SocketOK, ReplyOK DEF Network, Alive
<1>2. ProcessTyped' /\ JobsNeedStart'
  BY <1>1, CallerFacts DEF Alive, ProcessTyped, JobsNeedStart, jobVars, ApiKept
<1> QED BY <1>1, <1>2 DEF Alive, ApiKept

\* start() between two stages without jobs.
LEMMA StartStepOK ==
  ASSUME Alive, Start \/ Prepared \/ BeginFails
  PROVE  Alive'
<1>1. UNCHANGED <<jobVars, crashes>> /\ stage # "up" /\ stage' \in Stages \ {"down", "up"}
  BY DEF Start, Prepared, BeginFails, Stages
<1>2. ApiGood' /\ \A j \in Jobs : call'[j] = call[j]
  <2>1. CASE Start \/ Prepared
    <3>1. Call(Main)
      BY <2>1 DEF Start, Prepared
    <3> QED BY <3>1, CallOK, CallerFacts DEF Alive
  <2>2. CASE BeginFails
    <3>1. call' = [call EXCEPT ![Main] = "idle"] /\ UNCHANGED <<provider, connecting, health, trouble>>
      BY <2>2 DEF BeginFails
    <3>2. call' \in [Callers -> CallState] /\ \A j \in Jobs : call'[j] = call[j]
      BY <3>1, CallerFacts DEF Alive, ApiGood, ApiTypeOK, CallState
    <3> QED BY <3>1, <3>2, SameConnection DEF Alive, ApiGood, ApiTypeOK
  <2> QED BY <2>1, <2>2
<1> QED BY <1>1, <1>2, JobsUntouched DEF Alive

LEMMA BeginOK ==
  ASSUME Alive, Begin
  PROVE  Alive'
<1>1. /\ stage' = "up" /\ status' = Made /\ call' = [call EXCEPT ![Main] = "idle"]
      /\ UNCHANGED <<provider, connecting, health, trouble, isRunning, left, crashes>>
  BY DEF Begin
<1>2. Made \in [Jobs -> Status]
  <2>1. Shown(<<"started">>) = "started"
    BY DEF Shown, Last
  <2> QED BY <2>1 DEF Made, Status
<1>3. call' \in [Callers -> CallState]
  BY <1>1 DEF Alive, ApiGood, ApiTypeOK, CallState
<1>4. ApiGood'
  BY <1>1, <1>3, SameConnection DEF Alive, ApiGood, ApiTypeOK
<1>5. ProcessTyped' /\ JobsNeedStart'
  BY <1>1, <1>2 DEF Alive, ProcessTyped, JobsNeedStart, Stages
<1> QED BY <1>1, <1>4, <1>5 DEF Alive

LEMMA ExitOK ==
  ASSUME IndInv, Exit, crashes' \in 0 .. MaxCrashes
  PROVE  IndInv'
<1>1. /\ stage' = "down" /\ ws' = "none" /\ attempt' = FALSE /\ dials' = 0 /\ timers' = 0
      /\ isConnected' = FALSE /\ listening' = FALSE /\ health' = FALSE
      /\ call' = [c \in Callers |-> "idle"]
      /\ isRunning' = [j \in Jobs |-> FALSE] /\ left' = [j \in Jobs |-> 0]
      /\ status' = [j \in Jobs |-> "absent"] /\ UNCHANGED <<at, mute, trouble>>
  BY DEF Exit
<1>2. ApiTypeOK'
  BY <1>1, IndInvParts DEF ApiTypeOK, CallState
<1>3. 0 \in 0 .. CallsPerRun
  BY RuntimeAssumption
<1>4. left' \in [Jobs -> 0 .. CallsPerRun] /\ isRunning' \in [Jobs -> BOOLEAN]
      /\ status' \in [Jobs -> Status] /\ stage' \in Stages
  BY <1>1, <1>3 DEF Status, Stages
<1>5. \A j \in Jobs : call'[j] = "idle" /\ status'[j] = "absent" /\ ~isRunning'[j]
  BY <1>1, CallerFacts
<1>6. ProcessTyped' /\ JobsNeedStart'
  BY <1>4, <1>5 DEF ProcessTyped, JobsNeedStart
<1>7. Gone'
  BY <1>1 DEF Gone
<1>8. TypeOK' /\ stage' = "down"
  BY <1>1, <1>2, <1>6 DEF TypeOK, ProcessTyped
<1> QED BY <1>6, <1>7, <1>8 DEF IndInv

LEMMA RestartOK ==
  ASSUME IndInv, NEW p \in Places, Restart(p)
  PROVE  Alive'
<1>1. /\ stage = "down" /\ stage' = "connecting" /\ ws' = "opening" /\ at' = p
      /\ attempt' = TRUE /\ dials' = 1
      /\ UNCHANGED <<mute, timers, isConnected, listening, health, call, trouble, jobVars, crashes>>
  BY DEF Restart
<1>2. timers' = 0 /\ isConnected' = FALSE
  BY <1>1 DEF IndInv, Gone
<1>3. ApiTypeOK'
  BY <1>1, <1>2, IndInvParts DEF ApiTypeOK
<1>4. /\ Connection'.ws = "opening" /\ Connection'.attempt = TRUE /\ Connection'.dials = 1
      /\ Connection'.timers = 0 /\ Connection'.isConnected = FALSE
  BY <1>1, <1>2 DEF Connection
<1>5. Tied(Connection')
  BY <1>4 DEF Tied, Waits
<1>6. ProcessTyped' /\ JobsNeedStart'
  BY <1>1, IndInvParts DEF ProcessTyped, JobsNeedStart, jobVars, Stages
<1>7. ApiGood'
  BY <1>1, <1>3, <1>5 DEF ApiGood, Attempts
<1> QED BY <1>1, <1>6, <1>7 DEF Alive

LEMMA JobStepOK ==
  ASSUME Alive, NEW j \in Jobs, JobStep(j)
  PROVE  Alive'
<1>1. j \in Callers /\ CallsPerRun \in Nat \ {0} /\ left[j] \in 0 .. CallsPerRun
  BY CallerFacts, RuntimeAssumption DEF Alive, ProcessTyped
<1>2. stage = "up" /\ UNCHANGED <<stage, crashes>>
  BY DEF JobStep, Tick, GoOn, Finish, Alive, JobsNeedStart
<1>3. ApiGood'
  <2>1. CASE Call(j)
    BY <1>1, <2>1, CallOK DEF Alive
  <2>2. CASE Finish(j)
    <3>1. call' = [call EXCEPT ![j] = "idle"] /\ UNCHANGED <<provider, connecting, health, trouble>>
      BY <2>2 DEF Finish
    <3>2. call' \in [Callers -> CallState]
      BY <3>1 DEF Alive, ApiGood, ApiTypeOK, CallState
    <3> QED BY <3>1, <3>2, SameConnection DEF Alive, ApiGood, ApiTypeOK
  <2> QED BY <2>1, <2>2 DEF JobStep, Tick, GoOn
<1>4. ASSUME NEW r \in BOOLEAN, NEW k \in 0 .. CallsPerRun, NEW v \in Status,
             isRunning' = [isRunning EXCEPT ![j] = r] \/ UNCHANGED isRunning,
             left' = [left EXCEPT ![j] = k], status' = [status EXCEPT ![j] = v] \/ UNCHANGED status
      PROVE  ProcessTyped' /\ JobsNeedStart'
  <2>1. left' \in [Jobs -> 0 .. CallsPerRun]
    BY <1>4 DEF Alive, ProcessTyped
  <2>2. isRunning' \in [Jobs -> BOOLEAN] /\ status' \in [Jobs -> Status]
    BY <1>4 DEF Alive, ProcessTyped
  <2> QED BY <1>2, <2>1, <2>2 DEF Alive, ProcessTyped, JobsNeedStart
<1>5. CASE Tick(j)
  <2>1. Shown(<<"running">>) = "running"
    BY DEF Shown, Last
  <2>2. "running" \in Status /\ CallsPerRun - 1 \in 0 .. CallsPerRun
    BY <1>1 DEF Status
  <2>3. ProcessTyped' /\ JobsNeedStart'
    BY <1>4, <1>5, <2>1, <2>2 DEF Tick
  <2> QED BY <1>2, <1>3, <2>3 DEF Alive
<1>6. CASE GoOn(j)
  <2>1. left[j] - 1 \in 0 .. CallsPerRun
    BY <1>1, <1>6 DEF GoOn
  <2>2. left' = [left EXCEPT ![j] = left[j] - 1] /\ UNCHANGED <<isRunning, status>>
    BY <1>6 DEF GoOn
  <2>3. "running" \in Status
    BY DEF Status
  <2>4. \E k \in 0 .. CallsPerRun : left' = [left EXCEPT ![j] = k]
    BY <2>1, <2>2
  <2>5. ProcessTyped' /\ JobsNeedStart'
    BY <1>4, <2>2, <2>3, <2>4
  <2> QED BY <1>2, <1>3, <2>5 DEF Alive
<1>7. CASE Finish(j)
  <2>1. Shown(Emitted(j)) = "finished"
    BY DEF Shown, Emitted, Last
  <2>2. "finished" \in Status /\ 0 \in 0 .. CallsPerRun
    BY <1>1 DEF Status
  <2>3. ProcessTyped' /\ JobsNeedStart'
    BY <1>4, <1>7, <2>1, <2>2 DEF Finish
  <2> QED BY <1>2, <1>3, <2>3 DEF Alive
<1> QED BY <1>5, <1>6, <1>7 DEF JobStep

LEMMA SomeOfflineOK ==
  ASSUME Alive, SomeOffline
  PROVE  Alive'
<1>1. Call(Handler) /\ UNCHANGED <<stage, jobVars, crashes>>
  BY DEF SomeOffline
<1>2. ApiGood' /\ \A j \in Jobs : call'[j] = call[j]
  BY <1>1, CallOK, CallerFacts DEF Alive
<1> QED BY <1>1, <1>2 DEF Alive, ProcessTyped, JobsNeedStart, jobVars

LEMMA HandledOK ==
  ASSUME IndInv, Handled
  PROVE  IndInv'
<1>1. /\ call' = [call EXCEPT ![Handler] = "idle"]
      /\ UNCHANGED <<provider, connecting, health, trouble, stage, jobVars, crashes>>
  BY DEF Handled
<1>2. call' \in [Callers -> CallState] /\ \A j \in Jobs : call'[j] = call[j]
  BY <1>1, IndInvParts, CallerFacts DEF ApiTypeOK, CallState
<1>3. ApiTypeOK' /\ ProcessTyped' /\ JobsNeedStart'
  BY <1>1, <1>2, IndInvParts
     DEF ApiTypeOK, provider, connecting, ProcessTyped, JobsNeedStart, jobVars
<1>4. Gone' = Gone /\ Attempts' = Attempts
  BY <1>1 DEF Gone, Attempts, Connection, provider, connecting
<1>5. TypeOK'
  BY <1>3 DEF TypeOK, ProcessTyped
<1> QED BY <1>1, <1>3, <1>4, <1>5 DEF IndInv
-----------------------------------------------------------------------------
LEMMA InitOK == Init => IndInv
<1> SUFFICES ASSUME Init PROVE Alive
  BY IndInvParts
<1>1. 0 \in Places /\ 0 \in 0 .. MaxTrouble /\ 0 \in 0 .. CallsPerRun /\ 0 \in 0 .. MaxCrashes
  BY ApiAssumption, RuntimeAssumption DEF Places
<1>2. ApiTypeOK
  BY <1>1 DEF Init, ApiInit, ApiTypeOK, CallState
<1>3. /\ Connection.ws = "opening" /\ Connection.attempt = TRUE /\ Connection.dials = 1
      /\ Connection.timers = 0 /\ Connection.isConnected = FALSE /\ attempt = TRUE
  BY DEF Init, ApiInit, Connection
<1>4. ApiGood
  BY <1>2, <1>3 DEF ApiGood, Attempts, Tied, Waits
<1>5. \A j \in Jobs : call[j] = "idle" /\ status[j] = "absent" /\ ~isRunning[j]
  BY CallerFacts DEF Init, ApiInit
<1>6. stage = "connecting" /\ ProcessTyped /\ JobsNeedStart
  BY <1>1, <1>5 DEF Init, ProcessTyped, JobsNeedStart, Stages, Status
<1> QED BY <1>4, <1>6 DEF Alive

LEMMA NextOK == IndInv /\ [Next]_vars => IndInv'
<1> SUFFICES ASSUME IndInv, [Next]_vars PROVE IndInv'
  OBVIOUS
<1>1. Alive' => IndInv'
  BY IndInvParts, PTL
<1>2. ASSUME Alive' PROVE IndInv'
  BY <1>1, <1>2
<1>3. CASE Network
  BY <1>2, <1>3, NetworkOK, IndInvParts DEF Network
<1>4. CASE Start \/ Prepared \/ BeginFails
  BY <1>2, <1>4, StartStepOK, IndInvParts DEF Start, Prepared, BeginFails
<1>5. CASE Begin
  BY <1>2, <1>5, BeginOK, IndInvParts DEF Begin
<1>6. CASE PrepareFails \/ Crash \/ Probe \/ Unhandled
  <2>1. crashes' \in 0 .. MaxCrashes /\ Exit
    <3>1. crashes \in 0 .. MaxCrashes /\ MaxCrashes \in Nat
      BY RuntimeAssumption DEF IndInv, TypeOK
    <3> QED BY <1>6, <3>1 DEF PrepareFails, Crash, Probe, Unhandled
  <2> QED BY <2>1, ExitOK
<1>7. CASE \E p \in Places : Restart(p)
  BY <1>2, <1>7, RestartOK
<1>8. CASE \E j \in Jobs : JobStep(j)
  <2>1. stage # "down"
    BY <1>8 DEF JobStep, Tick, GoOn, Finish, IndInv, JobsNeedStart
  <2> QED BY <1>2, <1>8, <2>1, JobStepOK, IndInvParts
<1>9. CASE SomeOffline
  BY <1>2, <1>9, SomeOfflineOK, IndInvParts DEF SomeOffline
<1>10. CASE Handled
  BY <1>10, HandledOK
<1>11. CASE UNCHANGED vars
  BY <1>11 DEF vars, apiVars, provider, connecting, jobVars, IndInv, TypeOK, ApiTypeOK, JobsNeedStart,
               Gone, Attempts, Connection
<1> QED BY <1>3, <1>4, <1>5, <1>6, <1>7, <1>8, <1>9, <1>10, <1>11 DEF Next, MainStep

LEMMA Inductive == Spec => []IndInv
<1> QED BY InitOK, NextOK, PTL DEF Spec

\* The variables of the process and of its connection hold values of their kinds, and before
\* begin() nobody but start() calls (TypeOK), for any jobs and endpoints.
THEOREM RuntimeTyped == Spec => []TypeOK
<1>1. IndInv => TypeOK
  BY DEF IndInv
<1> QED BY <1>1, Inductive, PTL

\* connectWithRetry never runs two attempts and never loses its one, whatever errors, limits,
\* failed health checks and close events coincide; when it is through the socket is open.
THEOREM NeverTwoAttempts == Spec => []OneAttempt
<1>1. IndInv => OneAttempt
  <2> SUFFICES ASSUME IndInv, stage # "down"
               PROVE  /\ dials + timers = IF attempt THEN 1 ELSE 0
                      /\ isConnected = ~attempt
                      /\ isConnected => ws = "open"
    BY DEF OneAttempt
  <2>1. Tied(Connection)
    BY DEF IndInv, Attempts
  <2>2. isConnected = ~attempt /\ (~attempt => ws = "open")
    BY <2>1, ConnectionFields DEF Tied
  <2>3. CASE attempt
    <3>1. (dials = 1 /\ timers = 0) \/ (dials = 0 /\ timers = 1)
      BY <2>1, <2>3, ConnectionFields DEF Tied, Waits
    <3>2. dials + timers = 1
      BY <3>1
    <3> QED BY <2>2, <2>3, <3>2
  <2>4. CASE ~attempt
    <3>1. dials = 0 /\ timers = 0
      BY <2>1, <2>4, ConnectionFields DEF Tied
    <3>2. dials + timers = 0
      BY <3>1
    <3> QED BY <2>2, <2>4, <3>2
  <2> QED BY <2>3, <2>4
<1> QED BY <1>1, Inductive, PTL
-----------------------------------------------------------------------------
(* Nobody is forgotten.  A second invariant on top of IndInv: the close event and the timer   *)
(* always leave an attempt, and no step but the close event takes an open socket away.        *)

Served == NobodyForgotten /\ (stage = "down" => ws = "none")

\* A socket stays until its close event, with the attempt or a caller behind it.
LEMMA NextEndpointCloses ==
  ASSUME NEW s \in Conn
  PROVE  /\ s.ws # "none" => ConnectWithRetry(s).ws = s.ws
         /\ s.ws # "none" => NextEndpoint(s).ws = "closing"
<1>1. ASSUME NEW t \in Conn, t.ws # "none"
      PROVE  ConnectWithRetry(t).ws = t.ws
  BY <1>1 DEF ConnectWithRetry, Connect, Conn
<1>2. ASSUME s.ws # "none" PROVE NextEndpoint(s).ws = "closing"
  <2>1. Disconnect(s) \in Conn /\ Disconnect(s).ws = "closing"
    BY <1>2 DEF Disconnect, Conn
  <2> QED BY <2>1, <1>1 DEF NextEndpoint
<1> QED BY <1>1, <1>2

\* A caller that did not move keeps its attempt and its socket.
Lasting ==
  /\ attempt => attempt'
  /\ ws \in {"open", "closing"} => ws' \in {"open", "closing"}

LEMMA LastingServes ==
  ASSUME NobodyForgotten, Lasting,
         \A c \in Callers : call'[c] = call[c] \/ call'[c] \in Ended
  PROVE  NobodyForgotten'
BY DEF NobodyForgotten, Lasting, Ended

LEMMA OneMoves ==
  ASSUME NobodyForgotten, Lasting, call \in [Callers -> CallState], NEW c \in Callers, NEW v,
         call' = [call EXCEPT ![c] = v],
         v \in {"waiting", "rotating"} => attempt',
         v = "asked" => ws' \in {"open", "closing"}
  PROVE  NobodyForgotten'
<1>1. call'[c] = v /\ \A d \in Callers \ {c} : call'[d] = call[d]
  OBVIOUS
<1> QED BY <1>1 DEF NobodyForgotten, Lasting

LEMMA CallServes ==
  ASSUME NobodyForgotten, ApiGood, NEW c \in Callers, Call(c)
  PROVE  NobodyForgotten' /\ UNCHANGED ws
<1> DEFINE v == IF attempt THEN "waiting" ELSE IF ws = "open" THEN "asked" ELSE "failed"
<1>1. call' = [call EXCEPT ![c] = v] /\ ws' = ws /\ attempt' = attempt
  BY DEF Call, provider, connecting
<1>2. call \in [Callers -> CallState] /\ Lasting
  BY <1>1 DEF ApiGood, ApiTypeOK, Lasting
<1>3. (v \in {"waiting", "rotating"} => attempt') /\ (v = "asked" => ws' \in {"open", "closing"})
  BY <1>1
<1> HIDE DEF v
<1> QED BY <1>1, <1>2, <1>3, OneMoves

LEMMA IdleServes ==
  ASSUME NobodyForgotten, ApiTypeOK, NEW c \in Callers, NEW v \in Ended,
         call' = [call EXCEPT ![c] = v], UNCHANGED <<provider, connecting>>
  PROVE  NobodyForgotten' /\ UNCHANGED ws
<1>1. ws' = ws /\ attempt' = attempt
  BY DEF provider, connecting
<1>2. call \in [Callers -> CallState] /\ Lasting
  BY <1>1 DEF ApiTypeOK, Lasting
<1> QED BY <1>1, <1>2, OneMoves DEF Ended

LEMMA ReplyServes ==
  ASSUME NobodyForgotten, ApiGood, NEW c \in Callers, Reply(c)
  PROVE  NobodyForgotten'
<1>1. CASE Answer(c) \/ TimeOut(c)
  BY <1>1, IdleServes DEF Answer, TimeOut, Ended, ApiGood
<1>2. CASE HitLimit(c)
  <2> DEFINE s == NextEndpoint(Connection)
             v == IF s.attempt THEN "rotating" ELSE "failed"
  <2>1. Connection \in Conn /\ s.attempt
    BY ConnectionTyped, NextEndpointTies DEF ApiGood, Attempts
  <2>2. call[c] = "asked" /\ Become(s) /\ call' = [call EXCEPT ![c] = v]
    BY <1>2 DEF HitLimit
  <2>3. s.ws = "closing"
    BY <2>1, <2>2, NextEndpointCloses, ConnectionFields DEF NobodyForgotten
  <2>4. attempt' /\ ws' = "closing" /\ v = "rotating"
    BY <2>1, <2>2, <2>3 DEF Become
  <2> HIDE DEF s, v
  <2>5. call \in [Callers -> CallState] /\ Lasting
    BY <2>4 DEF ApiGood, ApiTypeOK, Lasting
  <2> QED BY <2>2, <2>4, <2>5, OneMoves
<1> QED BY <1>1, <1>2 DEF Reply

LEMMA SocketServes ==
  ASSUME NobodyForgotten, ApiGood, Socket
  PROVE  NobodyForgotten'
<1>0. Connection \in Conn /\ Tied(Connection) /\ call \in [Callers -> CallState]
      /\ trouble \in 0 .. MaxTrouble
  BY ConnectionTyped DEF ApiGood, Attempts, ApiTypeOK
<1>1. CASE Open
  <2>1. ws' = "open" /\ call' = [c \in Callers |-> CASE call[c] = "waiting"  -> "asked"
                                                      [] call[c] = "rotating" -> "failed"
                                                      [] OTHER                -> call[c]]
    BY <1>1 DEF Open
  <2>2. \A c \in Callers : call'[c] \notin {"waiting", "rotating"}
    BY <2>1
  <2> QED BY <2>1, <2>2 DEF NobodyForgotten
<1>2. CASE Refuse \/ FinishClose \/ Drop
  <2>1. CloseEvent /\ trouble' \in 0 .. MaxTrouble
    BY <1>0, <1>2, TroubleCounted DEF Refuse, FinishClose, Drop, ApiGood, Attempts
  <2>2. attempt'
    BY <2>1, CloseEventOK
  <2>3. call' = [c \in Callers |-> IF call[c] = "asked" THEN "failed" ELSE call[c]]
    BY <2>1 DEF CloseEvent
  <2> QED BY <2>2, <2>3 DEF NobodyForgotten
<1>3. CASE Retry
  <2> DEFINE s == [Connection EXCEPT !.attempt = FALSE, !.timers = timers - 1]
  <2>1. attempt' /\ Become(ConnectWithRetry(s)) /\ call' = call /\ timers > 0
    BY <1>3, RetryOK, ConnectionFields DEF Retry, Connection
  <2>2. timers - 1 \in Nat
    BY <1>0, <2>1, ConnectionFields DEF Conn
  <2>3. s \in Conn /\ s.ws = ws
    BY <1>0, <2>2, ConnectionFields DEF Conn
  <2> HIDE DEF s
  <2>4. ws # "none" => ws' = ws
    BY <2>1, <2>3, NextEndpointCloses DEF Become
  <2> QED BY <2>1, <2>4, LastingServes DEF Lasting
<1>4. CASE FallSilent \/ CheckHealth \/ Healthy
  BY <1>4, LastingServes DEF FallSilent, CheckHealth, Healthy, Lasting, provider, connecting
<1>5. CASE Unhealthy
  <2>1. NextEndpoint(Connection).attempt /\ Become(NextEndpoint(Connection)) /\ call' = call
    BY <1>0, <1>5, NextEndpointTies DEF Unhealthy
  <2>2. ws # "none" => ws' = "closing"
    BY <1>0, <2>1, NextEndpointCloses, ConnectionFields DEF Become
  <2>3. attempt'
    BY <2>1 DEF Become
  <2> QED BY <2>1, <2>2, <2>3, LastingServes DEF Lasting
<1> QED BY <1>1, <1>2, <1>3, <1>4, <1>5 DEF Socket

LEMMA ServedKept == IndInv /\ Served /\ [Next]_vars => Served'
<1> SUFFICES ASSUME IndInv, Served, [Next]_vars PROVE Served'
  OBVIOUS
<1>0. NobodyForgotten /\ ApiTypeOK /\ JobsNeedStart /\ (stage # "down" => ApiGood)
  BY IndInvParts DEF Served, Alive
<1>1. CASE Network
  BY <1>0, <1>1, SocketServes, ReplyServes DEF Network, Served
<1>2. CASE Start \/ Prepared
  <2>1. Call(Main) /\ stage # "down" /\ stage' # "down"
    BY <1>2 DEF Start, Prepared
  <2> QED BY <1>0, <2>1, CallServes, CallerFacts DEF Served
<1>3. CASE Begin \/ BeginFails
  <2>1. call' = [call EXCEPT ![Main] = "idle"] /\ UNCHANGED <<provider, connecting>> /\ stage' # "down"
    BY <1>3 DEF Begin, BeginFails
  <2> QED BY <1>0, <2>1, IdleServes, CallerFacts DEF Served, Ended
<1>4. CASE PrepareFails \/ Crash \/ Probe \/ Unhandled
  <2>1. ws' = "none" /\ call' = [c \in Callers |-> "idle"]
    BY <1>4 DEF PrepareFails, Crash, Probe, Unhandled, Exit
  <2> QED BY <2>1 DEF Served, NobodyForgotten
<1>5. CASE \E p \in Places : Restart(p)
  <2>1. stage = "down" /\ stage' # "down" /\ call' = call /\ attempt'
    BY <1>5 DEF Restart
  <2> QED BY <2>1 DEF Served, NobodyForgotten
<1>6. CASE \E j \in Jobs : JobStep(j)
  <2>1. PICK j \in Jobs : JobStep(j)
    BY <1>6
  <2>2. stage # "down" /\ stage' = stage /\ j \in Callers
    BY <1>0, <2>1, CallerFacts DEF JobStep, Tick, GoOn, Finish, JobsNeedStart
  <2>3. CASE Call(j)
    BY <1>0, <2>2, <2>3, CallServes DEF Served
  <2>4. CASE Finish(j)
    <3>1. call' = [call EXCEPT ![j] = "idle"] /\ UNCHANGED <<provider, connecting>>
      BY <2>4 DEF Finish
    <3> QED BY <1>0, <2>2, <3>1, IdleServes DEF Served, Ended
  <2> QED BY <2>1, <2>3, <2>4 DEF JobStep, Tick, GoOn
<1>7. CASE SomeOffline
  <2>1. Call(Handler) /\ stage # "down" /\ stage' = stage
    BY <1>7 DEF SomeOffline
  <2> QED BY <1>0, <2>1, CallServes, CallerFacts DEF Served
<1>8. CASE Handled
  <2>1. call' = [call EXCEPT ![Handler] = "idle"] /\ UNCHANGED <<provider, connecting, stage>>
    BY <1>8 DEF Handled
  <2>2. NobodyForgotten' /\ UNCHANGED <<ws, stage>>
    BY <1>0, <2>1, IdleServes, CallerFacts DEF Ended
  <2> QED BY <2>2 DEF Served
<1>9. CASE UNCHANGED vars
  BY <1>9 DEF vars, apiVars, provider, connecting, Served, NobodyForgotten
<1> QED BY <1>1, <1>2, <1>3, <1>4, <1>5, <1>6, <1>7, <1>8, <1>9 DEF Next, MainStep

\* No caller of getApi waits for an attempt that nobody makes, and no request for the answer of
\* a socket that is gone, for any endpoints, callers and troubles.
THEOREM NobodyIsForgotten == Spec => []NobodyForgotten
<1>1. Init => Served
  BY DEF Init, ApiInit, Served, NobodyForgotten
<1>2. Served => NobodyForgotten
  BY DEF Served
<1> QED BY <1>1, <1>2, ServedKept, Inductive, PTL DEF Spec
=============================================================================
