------------------------------- MODULE Validity -------------------------------
(***************************************************************************)
(* Whether a candidate is valid.  The validity job and every nomination    *)
(* round run all the checks on every candidate, store one reason per check *)
(* in the candidate's record, and then its verdict; the round picks the    *)
(* candidates it nominates.  Both work through a snapshot of the records   *)
(* taken at their start, and they overlap: nothing keeps one out while the *)
(* other awaits.  The telemetry client writes the reason ONLINE and the    *)
(* time it heard from the node into the same records.                      *)
(***************************************************************************)
EXTENDS Integers, Sequences

CONSTANTS
  Candidates,
  Types,         \* InvalidityReasonType
  Checks,        \* the checks, in the order checkCandidate makes them
  Online,        \* the check of the time telemetry last heard from the node
  OnRecord,      \* checks decided by what the job read at its start
  Unguarded,     \* checks stored also when the snapshot holds no reason yet
  Unreadable,    \* checks that also fail, unstored, when the chain holds no answer (commission)
  Tolerated,     \* checks that pass, unstored, when they cannot be made (Kusama rank)
  Noted,         \* checks that are stored as failed when they cannot be made (version)
  MaxFaults,     \* bound: how many faults a behaviour may contain
  None

ASSUME ValidityAssumption ==
  /\ Checks \in Seq(Types) /\ Checks # <<>>
  /\ Online \in Types
  /\ OnRecord \subseteq Types /\ Unguarded \subseteq Types /\ Unreadable \subseteq Types
  /\ Tolerated \subseteq Types /\ Noted \subseteq Types
  /\ MaxFaults \in Nat
  /\ None \notin Candidates

VARIABLES
  passes,        \* per candidate, the checks other than Online it would pass now
  reasons,       \* database: the candidate's invalidity array, as a set
  valid,         \* database: the candidate's verdict
  recent,        \* database: whether onlineSince, when telemetry last heard from the node,
                 \* is within the last sixteen hours (it is 0 when the node is gone)
  telemetry,     \* per candidate, what telemetry is writing
  pc, snap,      \* per job: its stage, and the records it read at its start
  todo, cand,    \* per job: candidates left, the one being checked
  at, outcome,   \* per job: the check under way, and how it came out
  sofar,         \* per job: whether cand passed every check so far
  faults

db      == <<reasons, valid, recent>>
jobVars == <<pc, snap, todo, cand, at, outcome, sofar>>
vars    == <<passes, db, telemetry, jobVars, faults>>

Jobs   == {"validity", "round"}
Stages == {"idle", "next", "judge", "push", "conclude", "select"}
Reason == [type : Types, valid : BOOLEAN]
\* What the checks use of a record: whether it holds reasons (isCandidateInvaliditySet),
\* its verdict, its time online, and the checks that only look at the record.
Candidate == [judged : BOOLEAN, valid : BOOLEAN, recent : BOOLEAN, passes : SUBSET Types]

CheckTypes  == {Checks[i] : i \in DOMAIN Checks}
ReasonOf(t, ok) == [type |-> t, valid |-> ok]
Stored(c)   == {r.type : r \in reasons[c]}

\* What job j uses of the record of candidate c, as allCandidates returns it: the verdict
\* matters to a round only.
RecordOf(j, c) == [judged |-> reasons[c] # {}, valid |-> j = "round" /\ valid[c],
                recent |-> recent[c], passes |-> passes[c] \cap OnRecord]

\* Would candidate c pass check t, on the record read now?
Passes(c, t) ==
  IF t = Online THEN recent[c] ELSE t \in passes[c]

Fault   == faults < MaxFaults /\ faults' = faults + 1
NoFault == UNCHANGED faults
-----------------------------------------------------------------------------
Quiet == [step |-> "none", up |-> FALSE]
Blank == [judged |-> FALSE, valid |-> FALSE, recent |-> FALSE, passes |-> {}]

Init ==
  /\ passes \in [Candidates -> SUBSET (CheckTypes \ {Online})]
  /\ reasons = [c \in Candidates |-> {}]
  /\ valid = [c \in Candidates |-> FALSE]
  /\ recent = [c \in Candidates |-> FALSE]
  /\ telemetry = [c \in Candidates |-> Quiet]
  /\ pc = [j \in Jobs |-> "idle"]
  /\ snap = [j \in Jobs |-> [c \in Candidates |-> Blank]]
  /\ todo = [j \in Jobs |-> {}] /\ cand = [j \in Jobs |-> None]
  /\ at = [j \in Jobs |-> 1] /\ outcome = [j \in Jobs |-> "passed"]
  /\ sofar = [j \in Jobs |-> TRUE]
  /\ faults = 0
-----------------------------------------------------------------------------
(* setCandidateInvalidity: two updates of one record, with an await between. *)

\* (Variant: the first takes the reason off, for the second to add it anew.)
PullReason(c, t, ok) ==
  reasons' = [reasons EXCEPT ![c] = {r \in @ : r.type # t}]

\* The first replaces the reason of that type, if there is one.
UpdateReason(c, t, ok) ==
  reasons' = [reasons EXCEPT ![c] =
    {r \in @ : r.type # t} \cup (IF t \in Stored(c) THEN {ReasonOf(t, ok)} ELSE {})]

\* (Variant: the second does not look for a reason of that type.)
PushReasonAlways(c, t, ok) ==
  reasons' = [reasons EXCEPT ![c] = @ \cup {ReasonOf(t, ok)}]

\* The second adds it, if there is none.
PushReason(c, t, ok) ==
  reasons' = [reasons EXCEPT ![c] =
    @ \cup (IF t \in Stored(c) THEN {} ELSE {ReasonOf(t, ok)})]
-----------------------------------------------------------------------------
(* The world and the telemetry client.                                     *)

\* Sixteen hours pass without an announcement: the record is old, and what was read of it.
Age(c) ==
  /\ recent[c]
  /\ recent' = [recent EXCEPT ![c] = FALSE]
  /\ snap' = [j \in Jobs |-> [snap[j] EXCEPT ![c].recent = FALSE]]
  /\ UNCHANGED <<passes, reasons, valid, telemetry, pc, todo, cand, at, outcome, sofar, faults>>

\* A run reaches a candidate when what it read of it is old, although an announcement came
\* in between: the run counts as a fault, for it spans the sixteenth hour.
AgeSnapshot(j, c) ==
  /\ Fault /\ snap[j][c].recent
  /\ snap' = [snap EXCEPT ![j][c].recent = FALSE]
  /\ UNCHANGED <<passes, db, telemetry, pc, todo, cand, at, outcome, sofar>>

\* What a check looks at changes.
ChangeFact(c, t) ==
  /\ passes' = [passes EXCEPT ![c] = IF t \in @ THEN @ \ {t} ELSE @ \cup {t}]
  /\ UNCHANGED <<db, telemetry, jobVars, faults>>

\* setCandidateOnlineValid, setCandidateOnlineNotValid: the reason, then the time.
Announce(c, up) ==
  /\ telemetry[c] = Quiet
  /\ UpdateReason(c, Online, up)
  /\ telemetry' = [telemetry EXCEPT ![c] = [step |-> "push", up |-> up]]
  /\ UNCHANGED <<passes, valid, recent, jobVars, faults>>

PushOnline(c) ==
  /\ telemetry[c].step = "push"
  /\ PushReason(c, Online, telemetry[c].up)
  /\ telemetry' = [telemetry EXCEPT ![c].step = "since"]
  /\ UNCHANGED <<passes, valid, recent, jobVars, faults>>

SetSince(c) ==
  /\ telemetry[c].step = "since"
  /\ recent' = [recent EXCEPT ![c] = telemetry[c].up]
  /\ telemetry' = [telemetry EXCEPT ![c] = Quiet]
  /\ UNCHANGED <<passes, reasons, valid, jobVars, faults>>

\* The process restarts; the records stay.
Crash ==
  /\ Fault
  /\ telemetry' = [c \in Candidates |-> Quiet]
  /\ pc' = [j \in Jobs |-> "idle"]
  /\ snap' = [j \in Jobs |-> [c \in Candidates |-> Blank]]
  /\ todo' = [j \in Jobs |-> {}] /\ cand' = [j \in Jobs |-> None]
  /\ at' = [j \in Jobs |-> 1] /\ outcome' = [j \in Jobs |-> "passed"]
  /\ sofar' = [j \in Jobs |-> TRUE]
  /\ UNCHANGED <<passes, db>>
-----------------------------------------------------------------------------
(* A run over the candidates, by the validity job or by a round.           *)

Goto(j, stage) == pc' = [pc EXCEPT ![j] = stage]

\* (Variant: a run over the valid candidates only.)
StartOverValid(j) ==
  /\ pc[j] = "idle"
  /\ snap' = [snap EXCEPT ![j] = [c \in Candidates |-> RecordOf(j, c)]]
  /\ todo' = [todo EXCEPT ![j] = {c \in Candidates : valid[c]}]
  /\ Goto(j, "next")
  /\ UNCHANGED <<passes, db, telemetry, cand, at, outcome, sofar, faults>>

\* allCandidates and getValidators
Start(j) ==
  /\ pc[j] = "idle"
  /\ snap' = [snap EXCEPT ![j] = [c \in Candidates |-> RecordOf(j, c)]]
  /\ todo' = [todo EXCEPT ![j] = Candidates]
  /\ Goto(j, "next")
  /\ UNCHANGED <<passes, db, telemetry, cand, at, outcome, sofar, faults>>

Take(j, c) ==
  /\ pc[j] = "next" /\ c \in todo[j]
  /\ todo' = [todo EXCEPT ![j] = @ \ {c}]
  /\ cand' = [cand EXCEPT ![j] = c]
  /\ Goto(j, "judge")
  /\ UNCHANGED <<passes, db, telemetry, snap, at, outcome, sofar, faults>>

\* On to the next check: all are made, whatever the earlier ones found.
Advance(j, ok) ==
  /\ sofar' = [sofar EXCEPT ![j] = @ /\ ok]
  /\ IF at[j] < Len(Checks)
     THEN at' = [at EXCEPT ![j] = @ + 1] /\ Goto(j, "judge")
     ELSE Goto(j, "conclude") /\ UNCHANGED at

\* Done with the candidate: after the verdict, or without one after an exception,
\* which checkCandidate turns into the answer false.  Of what the job read of it, only
\* the verdict is used again, by the round.
Leave(j) ==
  /\ Goto(j, "next")
  /\ snap' = [snap EXCEPT ![j][cand[j]] =
                [Blank EXCEPT !.valid = snap[j][cand[j]].valid]]
  /\ cand' = [cand EXCEPT ![j] = None]
  /\ at' = [at EXCEPT ![j] = 1] /\ sofar' = [sofar EXCEPT ![j] = TRUE]

\* Whether check t passes for job j's candidate.  The time between reading a fact of
\* the chain and storing the reason is left out: nobody else looks at it in between.
Judgement(j, t) ==
  LET c == cand[j] IN
  IF t = Online THEN snap[j][c].recent
  ELSE IF t \in OnRecord THEN t \in snap[j][c].passes
  ELSE t \in passes[c]

\* (Variant: skipped unless the record holds a reason of that type.)
SkippedByType(j, t) == t \notin Unguarded /\ t \notin Stored(cand[j])

\* skipIfNoData, which looks at the record as it was at the start.
Skipped(j, t) == t \notin Unguarded /\ ~snap[j][cand[j]].judged

\* The first update of the reason for the check under way.
Store(j, result) ==
  /\ UpdateReason(cand[j], Checks[at[j]], result = "passed")
  /\ outcome' = [outcome EXCEPT ![j] = result]
  /\ Goto(j, "push") /\ UNCHANGED <<snap, cand, at, sofar>>

\* A check, up to the first update.
Judge(j) ==
  LET t == Checks[at[j]]
      ok == Judgement(j, t) IN
  /\ pc[j] = "judge"
  /\ \/ /\ NoFault /\ ~Skipped(j, t)
        /\ Store(j, IF ok THEN "passed" ELSE "failed")
     \/ /\ NoFault /\ Skipped(j, t)
        /\ Advance(j, ok) /\ UNCHANGED <<reasons, outcome, snap, cand>>
     \/ /\ Fault /\ t \in Unreadable \cup Tolerated
        /\ Advance(j, t \in Tolerated) /\ UNCHANGED <<reasons, outcome, snap, cand>>
     \/ /\ Fault /\ t \in Noted /\ ~Skipped(j, t)
        /\ Store(j, "gaveUp")
     \/ /\ Fault /\ t \notin Tolerated
        /\ Leave(j) /\ UNCHANGED <<reasons, outcome>>
  /\ UNCHANGED <<passes, valid, recent, telemetry, todo>>

\* The second update, and on to the next check; or it fails.
Push(j) ==
  LET t == Checks[at[j]] IN
  /\ pc[j] = "push"
  /\ \/ /\ NoFault
        /\ PushReason(cand[j], t, outcome[j] = "passed")
        /\ outcome' = [outcome EXCEPT ![j] = "passed"]
        /\ IF outcome[j] = "gaveUp" THEN Leave(j)
           ELSE Advance(j, outcome[j] = "passed") /\ UNCHANGED <<snap, cand>>
     \/ /\ Fault /\ t \in Tolerated
        /\ outcome' = [outcome EXCEPT ![j] = "passed"]
        /\ Advance(j, TRUE) /\ UNCHANGED <<reasons, snap, cand>>
     \/ /\ Fault /\ t \in Noted /\ outcome[j] # "gaveUp"
        /\ Store(j, "gaveUp")
     \/ /\ Fault /\ t \notin Tolerated
        /\ outcome' = [outcome EXCEPT ![j] = "passed"]
        /\ Leave(j) /\ UNCHANGED reasons
  /\ UNCHANGED <<passes, valid, recent, telemetry, todo>>

\* setValid: the verdict, if the record held a reason at the start.
Conclude(j) ==
  /\ pc[j] = "conclude"
  /\ \/ /\ NoFault
        /\ valid' = IF snap[j][cand[j]].judged THEN [valid EXCEPT ![cand[j]] = sofar[j]]
                    ELSE valid
     \/ Fault /\ UNCHANGED valid
  /\ Leave(j)
  /\ UNCHANGED <<passes, reasons, recent, telemetry, todo, outcome>>

\* The run is over; what it read is forgotten.
End(j) ==
  /\ Goto(j, "idle")
  /\ snap' = [snap EXCEPT ![j] = [c \in Candidates |-> Blank]]

\* All candidates are checked; the round goes on to pick.
Finish(j) ==
  /\ pc[j] = "next" /\ todo[j] = {}
  /\ IF j = "round" THEN Goto(j, "select") /\ UNCHANGED snap ELSE End(j)
  /\ UNCHANGED <<passes, db, telemetry, todo, cand, at, outcome, sofar, faults>>

\* The candidates the round hands to doNominations.
Picked == {c \in Candidates : snap["round"][c].valid}

Select ==
  /\ pc["round"] = "select"
  /\ End("round")
  /\ UNCHANGED <<passes, db, telemetry, todo, cand, at, outcome, sofar, faults>>

\* A round that throws between two candidates, or before it picks, is over.
Abort ==
  /\ pc["round"] \in {"next", "select"} /\ Fault
  /\ End("round")
  /\ todo' = [todo EXCEPT !["round"] = {}]
  /\ UNCHANGED <<passes, db, telemetry, cand, at, outcome, sofar>>

Run(j) == Judge(j) \/ Push(j) \/ Conclude(j) \/ Finish(j)
            \/ \E c \in Candidates : Take(j, c)
-----------------------------------------------------------------------------
Write(c) == PushOnline(c) \/ SetSince(c)

Next ==
  \/ Crash
  \/ \E c \in Candidates : \/ Write(c) \/ Age(c)
                           \/ \E j \in Jobs : AgeSnapshot(j, c)
                           \/ \E up \in BOOLEAN : Announce(c, up)
                           \/ \E t \in CheckTypes \ {Online} : ChangeFact(c, t)
  \/ \E j \in Jobs : Start(j) \/ Run(j)
  \/ Select \/ Abort

Spec == Init /\ [][Next]_vars

\* Cron starts the validity job again and again; what runs goes on running.
Fairness ==
  /\ WF_vars(Start("validity"))
  /\ WF_vars(Run("validity"))
  /\ WF_vars(Run("round") \/ Select)
  /\ \A c \in Candidates : WF_vars(Write(c))

FairSpec == Spec /\ Fairness
-----------------------------------------------------------------------------
\* Job j has a candidate in hand.
Busy(j) == pc[j] \in {"judge", "push", "conclude"}

\* Every variable holds a value of its kind; a check under way is one of the list, and
\* is made on a candidate.
TypeOK ==
  /\ passes \in [Candidates -> SUBSET Types]
  /\ reasons \in [Candidates -> SUBSET Reason]
  /\ valid \in [Candidates -> BOOLEAN] /\ recent \in [Candidates -> BOOLEAN]
  /\ telemetry \in [Candidates -> [step : {"none", "push", "since"}, up : BOOLEAN]]
  /\ pc \in [Jobs -> Stages] /\ snap \in [Jobs -> [Candidates -> Candidate]]
  /\ todo \in [Jobs -> SUBSET Candidates] /\ cand \in [Jobs -> Candidates \cup {None}]
  /\ at \in [Jobs -> DOMAIN Checks]
  /\ outcome \in [Jobs -> {"passed", "failed", "gaveUp"}]
  /\ sofar \in [Jobs -> BOOLEAN]
  /\ faults \in Nat
  /\ \A j \in Jobs : Busy(j) => cand[j] \in Candidates

\* However two runs and telemetry interleave between the two updates of
\* setCandidateInvalidity, a record has at most one reason of each type.
OneReasonPerType ==
  \A c \in Candidates : \A r, q \in reasons[c] : r.type = q.type => r = q

\* A record that says valid holds a reason for every check: the first run over a new
\* candidate, which stores only some, does not decide (setValid).
ValidIsExplained ==
  \A c \in Candidates, t \in CheckTypes \ Tolerated : valid[c] => t \in Stored(c)

\* A round hands to doNominations only candidates whose records hold a reason for every
\* check, whatever other runs, telemetry and a new candidate's first run do between the
\* reading of the verdicts at the round's start and the picking at its end.
PickedIsExplained ==
  pc["round"] = "select" =>
    \A c \in Picked, t \in CheckTypes \ Tolerated : t \in Stored(c)

\* Why ValidIsExplained holds: as long as a run may still find its candidate valid, and
\* set that verdict, a reason is stored for every check it has made.
Backed(j) ==
  /\ ~Busy(j) => at[j] = 1
  /\ Busy(j) /\ sofar[j] /\ snap[j][cand[j]].judged =>
       \A i \in DOMAIN Checks :
         i < at[j] \/ pc[j] = "conclude" => Checks[i] \in Tolerated \cup Stored(cand[j])

VerdictBacked == \A j \in Jobs : Backed(j)

\* Verdicts follow the facts, whatever overlapping runs and earlier failures stored: a
\* candidate that passes every check from some time on ends up valid, and so do its
\* reasons; one that fails a check from some time on ends up invalid, its record names
\* that check, and the rounds stop picking it, although each picks by the verdicts it
\* read before its own checks.
VerdictsConverge ==
  \A c \in Candidates :
    /\ (<>[](\A t \in CheckTypes : Passes(c, t))) =>
         <>[](valid[c] /\ \A t \in CheckTypes : ReasonOf(t, TRUE) \in reasons[c])
    /\ \A t \in CheckTypes :
         <>[]~Passes(c, t) =>
           <>[](/\ ~valid[c] /\ ReasonOf(t, FALSE) \in reasons[c]
                /\ pc["round"] = "select" => c \notin Picked)
=============================================================================
