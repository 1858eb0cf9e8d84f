------------------------------- MODULE Runtime -------------------------------
(***************************************************************************)
(* The running process: start() waits for the chain and prepares the       *)
(* scorekeeper, whose begin() makes the cron jobs, and from then on jobs   *)
(* and the handler of someOffline events share the connection of           *)
(* ApiConnection.  A run of a job is a number of calls; one that fails     *)
(* ends it or is caught and passed over.  When a call of the preparation   *)
(* fails the process exits, and the handler catches nothing either: when   *)
(* its getSession fails, the rejection is unhandled.  The pod starts the   *)
(* process again.  But when a call of begin() fails, that catches it, and  *)
(* start() does not look at what it returns: the process stays up with no  *)
(* job at all.                                                             *)
(***************************************************************************)
EXTENDS ApiConnection, SequencesExt

CONSTANTS
  Jobs,        \* jobs of getJobConfigs
  Keys,        \* what config.cron holds for the <jobKey>Enabled of each: a value, or Absent
  Absent,
  Handler,     \* the caller that handles someOffline
  Main,        \* the caller that runs start()
  CallsPerRun, \* calls a run makes
  MaxCrashes   \* bound: how often the process dies on its own

ASSUME RuntimeAssumption ==
  /\ Callers = Jobs \cup {Handler, Main} /\ Handler # Main /\ Jobs \cap {Handler, Main} = {}
  /\ Absent \notin BOOLEAN /\ Keys \in [Jobs -> BOOLEAN \cup {Absent}]
  /\ CallsPerRun \in Nat \ {0} /\ MaxCrashes \in Nat

VARIABLES
  stage,      \* where start() is, see Stages
  isRunning,  \* of each cron job
  left,       \* calls its run has still to make
  status,     \* what getJobsStatusAsJson shows of it
  crashes

jobVars == <<isRunning, left, status>>
vars    == <<apiVars, stage, jobVars, crashes>>

\* Waiting in getApi, in initScorekeeper, in begin(), with its jobs, without any, or not there.
Stages == {"connecting", "preparing", "beginning", "up", "jobless", "down"}

\* The jobs of a scorekeeper that has not begun are none, so their status is absent.
Status == {"absent", "Not Running", "started", "running", "errored", "finished"}

\* Each event overwrites the last (updateJobStatus).
Shown(events) == Last(events)

\* Any value enables a job, false as well: startJob compares with undefined.
Enabled == {j \in Jobs : Keys[j] # Absent}

Init ==
  /\ ApiInit
  /\ stage = "connecting"
  /\ isRunning = [j \in Jobs |-> FALSE] /\ left = [j \in Jobs |-> 0]
  /\ status = [j \in Jobs |-> "absent"]
  /\ crashes = 0
-----------------------------------------------------------------------------
(* Starting and dying.                                                     *)

\* ApiPromise.create is ready; then the calls of initScorekeeper.
Start ==
  /\ stage = "connecting" /\ ws = "open" /\ at \notin mute
  /\ stage' = "preparing"
  /\ Call(Main)
  /\ UNCHANGED <<jobVars, crashes>>

\* Then the start-up of CandidateRegistry, and begin().
Prepared ==
  /\ stage = "preparing" /\ call[Main] = "answered"
  /\ stage' = "beginning"
  /\ Call(Main)
  /\ UNCHANGED <<jobVars, crashes>>

\* makeJobs and startMonolithJobs: each job is registered for its events, the enabled start.
Made == [j \in Jobs |-> IF j \in Enabled THEN Shown(<<"started">>) ELSE "Not Running"]

Begin ==
  /\ stage = "beginning" /\ call[Main] = "answered"
  /\ stage' = "up"
  /\ status' = Made
  /\ call' = [call EXCEPT ![Main] = "idle"]
  /\ UNCHANGED <<provider, connecting, health, trouble, isRunning, left, crashes>>

\* begin() catches the error and returns false.
BeginFails ==
  /\ stage = "beginning" /\ call[Main] = "failed"
  /\ stage' = "jobless"
  /\ call' = [call EXCEPT ![Main] = "idle"]
  /\ UNCHANGED <<provider, connecting, health, trouble, jobVars, crashes>>

Exit ==
  /\ stage' = "down"
  /\ ws' = "none" /\ attempt' = FALSE /\ dials' = 0 /\ timers' = 0
  /\ isConnected' = FALSE /\ listening' = FALSE /\ health' = FALSE
  /\ call' = [c \in Callers |-> "idle"]
  /\ isRunning' = [j \in Jobs |-> FALSE] /\ left' = [j \in Jobs |-> 0]
  /\ status' = [j \in Jobs |-> "absent"]
  /\ UNCHANGED <<at, mute, trouble>>

\* initScorekeeper exits.
PrepareFails == stage = "preparing" /\ call[Main] = "failed" /\ Exit /\ UNCHANGED crashes

Crash == stage # "down" /\ crashes < MaxCrashes /\ crashes' = crashes + 1 /\ Exit

\* The pod's liveness probe finds no server: create() waits for a mute endpoint.
Probe == stage = "connecting" /\ ws = "open" /\ at \in mute /\ Exit /\ UNCHANGED crashes

\* The new process puts the endpoints in an order of its own, so any may come first.
Restart(p) ==
  /\ stage = "down" /\ stage' = "connecting"
  /\ ws' = "opening" /\ at' = p /\ attempt' = TRUE /\ dials' = 1
  /\ UNCHANGED <<mute, timers, isConnected, listening, health, call, trouble, jobVars, crashes>>
-----------------------------------------------------------------------------
(* Jobs and the handler.                                                   *)

\* A tick of the cron; while the last run goes on it is skipped.
Tick(j) ==
  /\ stage = "up" /\ j \in Enabled /\ ~isRunning[j]
  /\ isRunning' = [isRunning EXCEPT ![j] = TRUE]
  /\ left' = [left EXCEPT ![j] = CallsPerRun - 1]
  /\ status' = [status EXCEPT ![j] = Shown(<<"running">>)]
  /\ Call(j)
  /\ UNCHANGED <<stage, crashes>>

\* The next call, the last one answered or its error caught.
GoOn(j) ==
  /\ isRunning[j] /\ left[j] > 0
  /\ left' = [left EXCEPT ![j] = @ - 1]
  /\ Call(j)
  /\ UNCHANGED <<stage, isRunning, status, crashes>>

\* The events at the end of a run: the finally follows the catch at once.
Emitted(j) == IF call[j] = "failed" THEN <<"errored", "finished">> ELSE <<"finished">>

Done(j) == call[j] = "answered" /\ left[j] = 0

\* (Variant: isRunning is reset after the run, and not when it throws.)
FinishUnlessThrown(j) ==
  /\ isRunning[j] /\ (Done(j) \/ call[j] = "failed")
  /\ isRunning' = [isRunning EXCEPT ![j] = call[j] = "failed"]
  /\ left' = [left EXCEPT ![j] = 0] /\ call' = [call EXCEPT ![j] = "idle"]
  /\ status' = [status EXCEPT ![j] = Shown(Emitted(j))]
  /\ UNCHANGED <<provider, connecting, health, trouble, stage, crashes>>

\* The run returns or throws: the finally of the cron job.
Finish(j) ==
  /\ isRunning[j] /\ (Done(j) \/ call[j] = "failed")
  /\ isRunning' = [isRunning EXCEPT ![j] = FALSE]
  /\ left' = [left EXCEPT ![j] = 0] /\ call' = [call EXCEPT ![j] = "idle"]
  /\ status' = [status EXCEPT ![j] = Shown(Emitted(j))]
  /\ UNCHANGED <<provider, connecting, health, trouble, stage, crashes>>

\* ScoreKeeper's constructor registers the handler.
SomeOffline ==
  /\ stage \notin {"connecting", "down"} /\ ws = "open" /\ call[Handler] = "idle"
  /\ Call(Handler)
  /\ UNCHANGED <<stage, jobVars, crashes>>

\* It goes on in the database, see FaultNext of CandidateRegistry.
Handled ==
  /\ call[Handler] = "answered"
  /\ call' = [call EXCEPT ![Handler] = "idle"]
  /\ UNCHANGED <<provider, connecting, health, trouble, stage, jobVars, crashes>>

Unhandled == call[Handler] = "failed" /\ Exit /\ UNCHANGED crashes
-----------------------------------------------------------------------------
MainStep   == Start \/ Prepared \/ PrepareFails \/ Begin \/ BeginFails
JobStep(j) == Tick(j) \/ GoOn(j) \/ Finish(j)

\* A process that is down has no connection, one that starts has no caller.
Network == /\ stage # "down"
           /\ Socket \/ \E c \in Callers : Reply(c)
           /\ UNCHANGED <<stage, jobVars, crashes>>

Next ==
  \/ Network
  \/ MainStep \/ Crash \/ Probe \/ (\E p \in Places : Restart(p))
  \/ \E j \in Jobs : JobStep(j)
  \/ SomeOffline \/ Handled \/ Unhandled

\* The pod restarts the process, and sooner or later the order of the endpoints starts with
\* one that answers; cron ticks; events and continuations run at once.
Fairness ==
  /\ ApiFairness
  /\ WF_vars(MainStep) /\ WF_vars(Probe) /\ WF_vars(Handled \/ Unhandled)
  /\ WF_vars(\E p \in Places : Restart(p))
  /\ SF_vars(\E p \in Places \ (Down \cup mute) : Restart(p))
  /\ \A j \in Jobs : WF_vars(JobStep(j))

Spec == Init /\ [][Next]_vars /\ Fairness
-----------------------------------------------------------------------------
(* Properties.                                                             *)

\* Every variable holds a value of its kind; only start() calls before there are jobs.
TypeOK ==
  /\ ApiTypeOK
  /\ stage \in Stages
  /\ isRunning \in [Jobs -> BOOLEAN] /\ left \in [Jobs -> 0 .. CallsPerRun]
  /\ status \in [Jobs -> Status]
  /\ crashes \in 0 .. MaxCrashes
  /\ stage # "up" => \A j \in Jobs : call[j] = "idle" /\ status[j] = "absent"

\* Whatever breaks, and in whichever call, every enabled job runs again and again, each run
\* comes to its end, and the status page shows both; but for a process that lost a call in
\* begin(), which nothing restarts.
JobsGoOn ==
  <>[](stage # "jobless") =>
    \A j \in Enabled : /\ []<>(isRunning[j] /\ status[j] = "running")
                       /\ []<>(~isRunning[j] /\ status[j] = "finished")

\* While the process runs, one attempt is under way when it is not connected and none when it
\* is, however many errors asked for a new connection at once ("without spamming
\* reconnects"); and then the socket is open, so nobody is let through to one that is not.
OneAttempt ==
  stage # "down" => /\ dials + timers = IF attempt THEN 1 ELSE 0
                    /\ isConnected = ~attempt
                    /\ isConnected => ws = "open"
=============================================================================
