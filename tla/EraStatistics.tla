---------------------------- MODULE EraStatistics ----------------------------
(***************************************************************************)
(* The era points job goes back over the finished eras.  For one that is   *)
(* not recorded it searches a block of the era after, asks there for the   *)
(* points, and stores a row per validator and, last, the total, which is   *)
(* what tells it later that the era is recorded.  The inclusion job reads  *)
(* the rows at the same time, and counts in how many of the last eras each *)
(* candidate was active.  Every query of the chain and every write may     *)
(* fail, which both jobs catch, and the process may die between any two    *)
(* steps.                                                                  *)
(*                                                                         *)
(* The search steps back by a third of the expected length of an era, so   *)
(* it may jump to and fro over a shorter era for ever; and on the test     *)
(* network that third is a fraction.                                       *)
(*                                                                         *)
(* A run of a job is never alone with the connection, but that shows here  *)
(* only as queries that fail; Runtime has the rest.  preventOverlap keeps  *)
(* two runs of one job apart.  How many points a validator has is left     *)
(* out: the chain lists those with points only.  So are the span inclusion *)
(* and the last era with points, which the inclusion job takes from the    *)
(* same rows and writes beside the inclusion.                              *)
(***************************************************************************)
EXTENDS Integers, FiniteSets, SequencesExt

CONSTANTS
  Candidates,    \* in the order of the collection
  Earned,        \* of each era, the validators with points, in the order of the chain
  FirstActive,   \* the active era at first
  MaxEra,        \* bound: the last era
  Layouts,       \* the expected length of an era, and the first block of each
  MaxEras,       \* ERAPOINTS_JOB_MAX_ERAS
  HistoryDepth,  \* 84, the eras of an inclusion
  MaxTests,      \* bound: a search that takes more blocks than these has no end
  MaxFaults      \* bound: how many queries or writes fail, or times the process dies

Eras       == 0 .. MaxEra
Validators == UNION {Range(Earned[e]) : e \in Eras}
Cands      == Range(Candidates)

ASSUME EraAssumption ==
  /\ Candidates \in Seq(Cands) /\ IsInjective(Candidates) /\ DOMAIN Earned = Eras
  /\ \A e \in Eras : Earned[e] \in Seq(Validators) \ {<<>>} /\ IsInjective(Earned[e])
  /\ MaxEra \in Nat /\ FirstActive \in 1 .. MaxEra
  /\ Layouts \subseteq [length : Nat \ {0}, first : [0 .. MaxEra + 1 -> Nat]]
  /\ \A l \in Layouts : \A e \in Eras : l.first[e] < l.first[e + 1]
  /\ MaxEras \in Nat /\ HistoryDepth \in Nat /\ MaxTests \in Nat /\ MaxFaults \in Nat

VARIABLES
  active,    \* chain: the active era
  layout,    \* chain: how long eras are expected to be, and were
  rows,      \* database: EraPoints, pairs of era and validator
  totals,    \* database: the validators of the TotalEraPoints of an era
  counted,   \* database: how many eras the inclusion of a candidate counts
  pc,        \* era points job: where it is,
  start,     \*   the active era it read,
  era,       \*   the era in hand,
  data,      \*   the validators the chain gave for it,
  unsaved,   \*   and those whose row is not written yet
  running,   \* inclusion job: it runs,
  since,     \*   the active era it read,
  todo,      \*   the candidates it has still to do
  lost,      \* history: the rows that could not be written
  faults

chain     == <<active, layout>>
stored    == <<rows, totals, counted>>
pointsJob == <<pc, start, era, data, unsaved>>
inclusionJob == <<running, since, todo>>
vars      == <<chain, stored, pointsJob, inclusionJob, lost, faults>>

Init ==
  /\ active = FirstActive /\ layout \in Layouts
  /\ rows = {} /\ totals = <<>> /\ counted = [c \in Cands |-> 0]
  /\ pc = "idle" /\ start = 0 /\ era = 0 /\ data = <<>> /\ unsaved = <<>>
  /\ running = FALSE /\ since = 0 /\ todo = <<>>
  /\ lost = {} /\ faults = 0

Fault   == faults < MaxFaults /\ faults' = faults + 1
NoFault == UNCHANGED faults
-----------------------------------------------------------------------------
(* The chain, and the search for a block of an era.                        *)

NewEra ==
  /\ active < MaxEra /\ active' = active + 1
  /\ UNCHANGED <<layout, stored, pointsJob, inclusionJob, lost, faults>>

first     == layout.first
eraLength == layout.length   \* eraBlockLength

\* The blocks that may be the latest.
Latest == first[active] .. first[active + 1] - 1

EraOf(block) == CHOOSE e \in Eras : first[e] <= block /\ block < first[e + 1]

\* findEraBlockHash, in thirds of a block: back by a third of an era from a block that is too
\* late, else forward by an era.
Step(third, e) ==
  IF EraOf(third \div 3) > e THEN third - eraLength ELSE third + 3 * eraLength

\* Whether the search for a block of era e ends with one, without one, or does not end.  It
\* goes on as long as the number is positive and names a block, for a fraction the one below
\* when the node rounds.
Search(e, latest, rounds) ==
  LET from[n \in Nat, third \in Int] ==
        IF \/ third <= 0 \/ third \div 3 \notin first[0] .. latest
           \/ third % 3 # 0 /\ ~rounds
        THEN "none"
        ELSE IF EraOf(third \div 3) = e THEN "found"
        ELSE IF n = 0 THEN "endless"
        ELSE from[n - 1, Step(third, e)]
  IN  from[MaxTests, 3 * (latest - (active - e) * eraLength)]
-----------------------------------------------------------------------------
(* The era points job.                                                     *)

outsidePoints == <<chain, counted, inclusionJob>>

Goto(at) == pc' = at

\* A run that cannot read the active era ends there.
StartPoints ==
  /\ pc = "idle"
  /\ start' = active /\ era' = start' - 1
  /\ Goto("era")
  /\ UNCHANGED <<outsidePoints, rows, totals, data, unsaved, lost, faults>>

InReach == era >= start - MaxEras

\* (Variant: an era that has rows counts as recorded.)
RecordedByRow == \E v \in Validators : <<era, v>> \in rows

\* The total is there, with its median.
Recorded == era \in DOMAIN totals

PassEra ==
  /\ pc = "era" /\ InReach /\ Recorded
  /\ era' = era - 1
  /\ UNCHANGED <<outsidePoints, rows, totals, pc, start, data, unsaved, lost, faults>>

\* (Variant: at a block of the era itself.)
AskedAtEra == era

\* The era a block is searched of.
AskedAt == era + 1

\* The points of an era at a block of era e: final when e is a later one.
PointsAt(e) ==
  IF e > era THEN {Earned[era]} ELSE {SubSeq(Earned[era], 1, n) : n \in 0 .. Len(Earned[era])}

NextEra == era' = era - 1 /\ Goto("era") /\ data' = <<>> /\ unsaved' = <<>>

\* getTotalEraPoints.  A query that fails, no block, no points, a negative era: on to the next.
AskEra ==
  /\ pc = "era" /\ InReach /\ ~Recorded
  /\ \/ /\ era >= 0 /\ NoFault
        /\ \E latest \in Latest, rounds \in BOOLEAN :
             LET found == Search(AskedAt, latest, rounds) IN
             \/ /\ found = "found"
                /\ data' \in PointsAt(AskedAt) \ {<<>>} /\ unsaved' = data'
                /\ Goto("rows") /\ UNCHANGED era
             \/ found = "none" /\ NextEra
             \/ found = "endless" /\ Goto("endless") /\ UNCHANGED <<era, data, unsaved>>
     \/ ((era < 0 /\ NoFault) \/ Fault) /\ NextEra
  /\ UNCHANGED <<outsidePoints, rows, totals, start, lost>>

\* Only a query that fails ends such a search, and the process.
SearchFails ==
  /\ pc = "endless" /\ Fault /\ NextEra
  /\ UNCHANGED <<outsidePoints, rows, totals, start, lost>>

\* setEraPoints, whose answer is not looked at.
SaveRow ==
  /\ pc = "rows" /\ unsaved # <<>>
  /\ \/ NoFault /\ rows' = rows \cup {<<era, Head(unsaved)>>} /\ UNCHANGED lost
     \/ Fault /\ lost' = lost \cup {<<era, Head(unsaved)>>} /\ UNCHANGED rows
  /\ unsaved' = Tail(unsaved)
  /\ UNCHANGED <<outsidePoints, totals, pc, start, era, data>>

\* One TotalEraPoints for each era.
WithTotal(validators) ==
  [e \in DOMAIN totals \cup {era} |-> IF e = era THEN validators ELSE totals[e]]

\* (Variant: the total goes first, and the rows after it.)
SaveTotalFirst ==
  /\ pc = "rows" /\ data # <<>>
  /\ IF era \notin DOMAIN totals
     THEN totals' = WithTotal(Range(data)) /\ UNCHANGED <<pc, era, data, unsaved>>
     ELSE unsaved = <<>> /\ NextEra /\ UNCHANGED totals
  /\ UNCHANGED <<outsidePoints, rows, start, lost, faults>>

\* The total with median, average, maximum and minimum.
SaveTotal ==
  /\ pc = "rows" /\ unsaved = <<>>
  /\ \/ NoFault /\ totals' = WithTotal(Range(data))
     \/ Fault /\ UNCHANGED totals
  /\ NextEra
  /\ UNCHANGED <<outsidePoints, rows, start, lost>>

FinishPoints ==
  /\ pc = "era" /\ ~InReach
  /\ Goto("idle") /\ start' = 0 /\ era' = 0
  /\ UNCHANGED <<outsidePoints, rows, totals, data, unsaved, lost, faults>>

PointsJob == \/ StartPoints \/ PassEra \/ AskEra \/ SearchFails \/ SaveRow \/ SaveTotal
             \/ FinishPoints
-----------------------------------------------------------------------------
(* The inclusion job.                                                      *)

outsideInclusion == <<chain, rows, totals, pointsJob, lost>>

StartInclusion ==
  /\ ~running /\ running' = TRUE
  /\ since' = active /\ todo' = Candidates
  /\ UNCHANGED <<outsideInclusion, counted, faults>>

\* (Variant: every row counts.)
InHistoryAll(e) == TRUE

InHistory(e) == e >= since - (HistoryDepth - 1)

\* getHistoryDepthEraPoints and setInclusion.  A query that fails ends the run.
Include ==
  /\ todo # <<>>
  /\ \/ /\ NoFault
        /\ counted' = [counted EXCEPT ![Head(todo)] =
             Cardinality({e \in Eras : InHistory(e) /\ <<e, Head(todo)>> \in rows})]
        /\ todo' = Tail(todo)
     \/ Fault /\ todo' = <<>> /\ UNCHANGED counted
  /\ UNCHANGED <<outsideInclusion, running, since>>

FinishInclusion ==
  /\ running /\ todo = <<>>
  /\ running' = FALSE /\ since' = 0
  /\ UNCHANGED <<outsideInclusion, counted, todo, faults>>

InclusionJob == StartInclusion \/ Include \/ FinishInclusion
-----------------------------------------------------------------------------
\* The process is killed and started again.
Crash ==
  /\ Fault
  /\ pc' = "idle" /\ start' = 0 /\ era' = 0 /\ data' = <<>> /\ unsaved' = <<>>
  /\ running' = FALSE /\ since' = 0 /\ todo' = <<>>
  /\ UNCHANGED <<chain, stored, lost>>

Next == PointsJob \/ InclusionJob \/ NewEra \/ Crash

\* Cron starts both jobs again and again, their queries return, and eras come to an end.
Fairness == WF_vars(PointsJob) /\ WF_vars(InclusionJob) /\ WF_vars(NewEra)

Spec == Init /\ [][Next]_vars /\ Fairness
-----------------------------------------------------------------------------
(* Properties.                                                             *)

\* Every variable holds a value of its kind, and a job that does not run has nothing in hand.
TypeOK ==
  /\ active \in Eras /\ layout \in Layouts
  /\ rows \subseteq Eras \X Validators /\ lost \subseteq Eras \X Validators
  /\ DOMAIN totals \subseteq Eras
  /\ counted \in [Cands -> 0 .. MaxEra + 1]
  /\ pc \in {"idle", "era", "endless", "rows"} /\ start \in Eras /\ era \in start - MaxEras - 1 .. start
  /\ data \in Seq(Validators) /\ unsaved \in Seq(Validators)
  /\ pc # "rows" => data = <<>> /\ unsaved = <<>>
  /\ running \in BOOLEAN /\ since \in Eras /\ todo \in Seq(Cands)
  /\ ~running => todo = <<>>
  /\ faults \in 0 .. MaxFaults

\* Nobody comes back to an era whose total is there: then it holds the final points, and every
\* validator's row is there, wherever the process died and whatever failed before; but for a
\* row that could not be written (setTotalEraPoints).
TotalMeansRows ==
  \A e \in DOMAIN totals : /\ totals[e] = Range(Earned[e])
                           /\ \A v \in totals[e] : <<e, v>> \in rows \cup lost

Ledger == INSTANCE EraLedger WITH
  Truth  <- [e \in Eras |-> Range(Earned[e])],
  Drafts <- [e \in Eras |-> SUBSET Range(Earned[e])],
  Ahead  <- 0,
  now    <- active - 1,
  ledger <- [e \in Eras |-> {v \in Validators : <<e, v>> \in rows \cup lost}],
  sealed <- DOMAIN totals

\* Nothing is written of an era that is not over, no row of a validator without points in it,
\* and the total only after all rows were tried (eraPointsJob): the job implements the ledger.
ImplementsLedger == Ledger!Spec

\* No era is shorter than a third of the expected length, which is a whole number of blocks.
ThirdLong ==
  eraLength % 3 = 0 /\ \A e \in Eras : 3 * (first[e + 1] - first[e]) >= eraLength

\* Every finished era the job looks back to is recorded in the end: when none is shorter than
\* a third of the expected length, the search finds a block of the next one, and crashes and
\* failures only delay it.
ErasRecorded ==
  ThirdLong => <>[](\A e \in Eras : e < active /\ e >= active - MaxEras => e \in DOMAIN totals)

\* In the end the inclusion of each candidate counts the rows of the history depth, also
\* when a run was cut short, counted from an era that had passed, or while the rows were
\* being written.
InclusionCatchesUp ==
  <>[](\A c \in Cands : counted[c] =
         Cardinality({e \in Eras : e >= active - (HistoryDepth - 1) /\ <<e, c>> \in rows}))
=============================================================================
