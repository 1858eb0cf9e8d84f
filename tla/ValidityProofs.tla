---------------------------- MODULE ValidityProofs ----------------------------
(***************************************************************************)
(* Proofs about Validity, for any candidates, checks and bounds.           *)
(***************************************************************************)
EXTENDS Validity, TLAPS

\* The inductive invariant.
IndInv == TypeOK /\ OneReasonPerType /\ ValidIsExplained /\ VerdictBacked

\* A check of the list is a type, and belongs to the checks.
LEMMA CheckIsType ==
  ASSUME NEW i \in DOMAIN Checks
  PROVE  Checks[i] \in Types /\ Checks[i] \in CheckTypes
BY ValidityAssumption DEF CheckTypes

\* Positions in the list of checks are the numbers from 1 to its length.
LEMMA Positions ==
  /\ Len(Checks) \in Nat /\ DOMAIN Checks = 1 .. Len(Checks)
  /\ 1 \in DOMAIN Checks
BY ValidityAssumption

\* The reasons are a set of reasons per candidate, one of a type in each.
ReasonsOK == reasons \in [Candidates -> SUBSET Reason] /\ OneReasonPerType

\* The first update of setCandidateInvalidity keeps the types stored, one reason each.
LEMMA UpdateKeepsTypes ==
  ASSUME ReasonsOK, NEW d \in Candidates, NEW t \in Types, NEW ok \in BOOLEAN,
         UpdateReason(d, t, ok)
  PROVE  /\ ReasonsOK'
         /\ \A c \in Candidates : Stored(c)' = Stored(c)
<1> DEFINE kept == {r \in reasons[d] : r.type # t}
           new  == kept \cup (IF t \in Stored(d) THEN {ReasonOf(t, ok)} ELSE {})
<1>1. reasons' = [reasons EXCEPT ![d] = new]
  BY DEF UpdateReason
<1>2. reasons[d] \in SUBSET Reason /\ ReasonOf(t, ok) \in Reason
  BY DEF ReasonsOK, ReasonOf, Reason
<1>3. reasons' \in [Candidates -> SUBSET Reason]
  BY <1>1, <1>2 DEF ReasonsOK
<1>4. reasons'[d] = new /\ \A c \in Candidates \ {d} : reasons'[c] = reasons[c]
  BY <1>1 DEF ReasonsOK
<1>5. \A r, q \in new : r.type = q.type => r = q
  BY DEF ReasonsOK, OneReasonPerType, ReasonOf
<1>6. OneReasonPerType'
  BY <1>4, <1>5 DEF ReasonsOK, OneReasonPerType
<1>7. {r.type : r \in new} = Stored(d)
  <2>1. ReasonOf(t, ok).type = t
    BY DEF ReasonOf
  <2>2. CASE t \in Stored(d)
    BY <2>1, <2>2 DEF Stored
  <2>3. CASE t \notin Stored(d)
    <3>1. new = reasons[d]
      BY <2>3 DEF Stored
    <3> QED BY <3>1 DEF Stored
  <2> QED BY <2>2, <2>3
<1>8. \A c \in Candidates : Stored(c)' = Stored(c)
  BY <1>4, <1>7 DEF Stored
<1> QED BY <1>3, <1>6, <1>8 DEF ReasonsOK

\* The second keeps the types stored and adds t; still one reason each.
LEMMA PushStoresType ==
  ASSUME ReasonsOK, NEW d \in Candidates, NEW t \in Types, NEW ok \in BOOLEAN,
         PushReason(d, t, ok)
  PROVE  /\ ReasonsOK'
         /\ \A c \in Candidates : Stored(c) \subseteq Stored(c)'
         /\ t \in Stored(d)'
<1> DEFINE new == reasons[d] \cup (IF t \in Stored(d) THEN {} ELSE {ReasonOf(t, ok)})
<1>1. reasons' = [reasons EXCEPT ![d] = new]
  BY DEF PushReason
<1>2. reasons[d] \in SUBSET Reason /\ ReasonOf(t, ok) \in Reason
  BY DEF ReasonsOK, ReasonOf, Reason
<1>3. reasons' \in [Candidates -> SUBSET Reason]
  BY <1>1, <1>2 DEF ReasonsOK
<1>4. reasons'[d] = new /\ \A c \in Candidates \ {d} : reasons'[c] = reasons[c]
  BY <1>1 DEF ReasonsOK
<1>5. \A r, q \in new : r.type = q.type => r = q
  BY DEF ReasonsOK, OneReasonPerType, ReasonOf, Stored
<1>6. OneReasonPerType'
  BY <1>4, <1>5 DEF ReasonsOK, OneReasonPerType
<1>7. t \in {r.type : r \in new} /\ Stored(d) \subseteq {r.type : r \in new}
  <2>1. ReasonOf(t, ok).type = t
    BY DEF ReasonOf
  <2>2. Stored(d) \subseteq {r.type : r \in new}
    BY DEF Stored
  <2>3. CASE t \in Stored(d)
    BY <2>2, <2>3
  <2>4. CASE t \notin Stored(d)
    <3>1. ReasonOf(t, ok) \in new
      BY <2>4
    <3> QED BY <2>1, <2>2, <3>1
  <2> QED BY <2>3, <2>4
<1>8. t \in Stored(d)' /\ \A c \in Candidates : Stored(c) \subseteq Stored(c)'
  BY <1>4, <1>7 DEF Stored
<1> QED BY <1>3, <1>6, <1>8 DEF ReasonsOK
-----------------------------------------------------------------------------
(* Type correctness.                                                       *)

\* The initial state is well typed.
LEMMA TypeInit == Init => TypeOK
<1> SUFFICES ASSUME Init PROVE TypeOK
  OBVIOUS
<1>1. CheckTypes \subseteq Types
  BY CheckIsType DEF CheckTypes
<1>2. Blank \in Candidate
  BY DEF Blank, Candidate
<1>3. passes \in [Candidates -> SUBSET Types]
  BY <1>1 DEF Init
<1>4. /\ outcome \in [Jobs -> {"passed", "failed", "gaveUp"}]
      /\ at \in [Jobs -> DOMAIN Checks]
  BY Positions DEF Init
<1> QED BY <1>2, <1>3, <1>4 DEF Init, TypeOK, Quiet, Stages, Busy

\* The record a run reads is of its kind.
LEMMA RecordType ==
  ASSUME TypeOK, NEW j \in Jobs, NEW c \in Candidates
  PROVE  RecordOf(j, c) \in Candidate
BY ValidityAssumption DEF TypeOK, RecordOf, Candidate

\* What is left of a record that was read, when it is old or done with, is a record.
LEMMA RecordUpdates ==
  ASSUME NEW r \in Candidate
  PROVE  /\ [r EXCEPT !.recent = FALSE] \in Candidate
         /\ [r EXCEPT !.recent = FALSE].judged = r.judged
         /\ [Blank EXCEPT !.valid = r.valid] \in Candidate
<1>1. [r EXCEPT !.recent = FALSE] \in Candidate /\ [r EXCEPT !.recent = FALSE].judged = r.judged
  BY DEF Candidate
<1>2. [Blank EXCEPT !.valid = r.valid] \in Candidate
  BY DEF Candidate, Blank
<1> QED BY <1>1, <1>2

\* The records a job read, one of them now old.
LEMMA AgedType ==
  ASSUME NEW s \in [Candidates -> Candidate], NEW c \in Candidates
  PROVE  /\ [s EXCEPT ![c].recent = FALSE] \in [Candidates -> Candidate]
         /\ \A d \in Candidates : [s EXCEPT ![c].recent = FALSE][d].judged = s[d].judged
<1> DEFINE old == [s[c] EXCEPT !.recent = FALSE]
<1>1. [s EXCEPT ![c].recent = FALSE] = [s EXCEPT ![c] = old]
  OBVIOUS
<1>2. old \in Candidate /\ old.judged = s[c].judged
  BY RecordUpdates
<1> HIDE DEF old
<1> QED BY <1>1, <1>2

\* The world, telemetry and a crash keep every variable well typed.
LEMMA TypeWorld ==
  ASSUME TypeOK, ReasonsOK,
         \/ Crash
         \/ \E c \in Candidates : \/ Write(c) \/ Age(c)
                                  \/ \E j \in Jobs : AgeSnapshot(j, c)
                                  \/ \E up \in BOOLEAN : Announce(c, up)
                                  \/ \E t \in CheckTypes \ {Online} : ChangeFact(c, t)
  PROVE  TypeOK'
<1> USE DEF db, jobVars
<1>1. ASSUME NEW c \in Candidates, Age(c)
      PROVE  TypeOK'
  <2>1. \A j \in Jobs : [snap[j] EXCEPT ![c].recent = FALSE] \in [Candidates -> Candidate]
    BY AgedType DEF TypeOK
  <2>2. snap' \in [Jobs -> [Candidates -> Candidate]]
    BY <1>1, <2>1 DEF Age
  <2> QED BY <1>1, <2>2 DEF TypeOK, Age, Busy
<1>2. CASE Crash
  <2>1. Blank \in Candidate
    BY DEF Blank, Candidate
  <2>2. /\ outcome' \in [Jobs -> {"passed", "failed", "gaveUp"}]
        /\ at' \in [Jobs -> DOMAIN Checks]
    BY <1>2, Positions DEF Crash
  <2> QED BY <1>2, <2>1, <2>2 DEF TypeOK, Crash, Fault, Quiet, Stages, Busy
<1>3. ASSUME NEW c \in Candidates, PushOnline(c)
      PROVE  TypeOK'
  <2>1. telemetry[c].up \in BOOLEAN
    BY DEF TypeOK
  <2>2. reasons' \in [Candidates -> SUBSET Reason]
    BY <1>3, <2>1, PushStoresType, ValidityAssumption DEF PushOnline, ReasonsOK
  <2>3. telemetry' \in [Candidates -> [step : {"none", "push", "since"}, up : BOOLEAN]]
    BY <1>3, <2>1 DEF TypeOK, PushOnline
  <2> QED BY <1>3, <2>2, <2>3 DEF TypeOK, PushOnline, Busy
<1>4. ASSUME NEW c \in Candidates, SetSince(c)
      PROVE  TypeOK'
  BY <1>4 DEF TypeOK, SetSince, Quiet, Busy
<1>5. ASSUME NEW c \in Candidates, NEW up \in BOOLEAN, Announce(c, up)
      PROVE  TypeOK'
  <2>1. reasons' \in [Candidates -> SUBSET Reason]
    BY <1>5, UpdateKeepsTypes, ValidityAssumption DEF Announce, ReasonsOK
  <2>2. telemetry' \in [Candidates -> [step : {"none", "push", "since"}, up : BOOLEAN]]
    BY <1>5 DEF TypeOK, Announce
  <2> QED BY <1>5, <2>1, <2>2 DEF TypeOK, Announce, Busy
<1>6. ASSUME NEW c \in Candidates, NEW t \in CheckTypes, ChangeFact(c, t)
      PROVE  TypeOK'
  <2>1. t \in Types
    BY CheckIsType DEF CheckTypes
  <2> QED BY <1>6, <2>1 DEF TypeOK, ChangeFact, Busy
<1>7. ASSUME NEW c \in Candidates, NEW j \in Jobs, AgeSnapshot(j, c)
      PROVE  TypeOK'
  <2>1. [snap[j] EXCEPT ![c].recent = FALSE] \in [Candidates -> Candidate]
    BY AgedType DEF TypeOK
  <2>2. snap' = [snap EXCEPT ![j] = [snap[j] EXCEPT ![c].recent = FALSE]]
    BY <1>7 DEF AgeSnapshot
  <2>3. snap' \in [Jobs -> [Candidates -> Candidate]]
    BY <2>1, <2>2 DEF TypeOK
  <2> QED BY <1>7, <2>3 DEF TypeOK, AgeSnapshot, Fault, Busy
<1> QED BY <1>1, <1>2, <1>3, <1>4, <1>5, <1>6, <1>7 DEF Write

\* Going on to the next check, and leaving a candidate, keep the stage well typed.
LEMMA AdvanceType ==
  ASSUME TypeOK, NEW j \in Jobs, NEW ok \in BOOLEAN, Advance(j, ok)
  PROVE  /\ at' \in [Jobs -> DOMAIN Checks] /\ sofar' \in [Jobs -> BOOLEAN]
         /\ pc' \in [Jobs -> Stages]
         /\ pc'[j] \in {"judge", "conclude"}
         /\ \A k \in Jobs \ {j} : pc'[k] = pc[k]
<1>1. sofar' \in [Jobs -> BOOLEAN]
  BY DEF Advance, TypeOK
<1>2. at' \in [Jobs -> DOMAIN Checks]
  <2>1. at[j] \in DOMAIN Checks /\ (at[j] < Len(Checks) => at[j] + 1 \in DOMAIN Checks)
    BY Positions DEF TypeOK
  <2>2. at' = at \/ (at[j] < Len(Checks) /\ at' = [at EXCEPT ![j] = at[j] + 1])
    BY DEF Advance
  <2> QED BY <2>1, <2>2 DEF TypeOK
<1>3. /\ pc' \in [Jobs -> Stages] /\ pc'[j] \in {"judge", "conclude"}
      /\ \A k \in Jobs \ {j} : pc'[k] = pc[k]
  BY DEF Advance, TypeOK, Goto, Stages
<1> QED BY <1>1, <1>2, <1>3

\* The same for leaving a candidate.
LEMMA LeaveType ==
  ASSUME TypeOK, NEW j \in Jobs, cand[j] \in Candidates, Leave(j)
  PROVE  /\ at' \in [Jobs -> DOMAIN Checks] /\ sofar' \in [Jobs -> BOOLEAN]
         /\ cand' \in [Jobs -> Candidates \cup {None}]
         /\ pc' \in [Jobs -> Stages] /\ pc'[j] = "next"
         /\ \A k \in Jobs \ {j} : pc'[k] = pc[k] /\ cand'[k] = cand[k]
         /\ snap' \in [Jobs -> [Candidates -> Candidate]]
<1>1. [Blank EXCEPT !.valid = snap[j][cand[j]].valid] \in Candidate
  <2>1. snap[j][cand[j]] \in Candidate
    BY DEF TypeOK
  <2> QED BY <2>1, RecordUpdates
<1>2. [snap[j] EXCEPT ![cand[j]] = [Blank EXCEPT !.valid = snap[j][cand[j]].valid]]
        \in [Candidates -> Candidate]
  BY <1>1 DEF TypeOK
<1>3. snap' \in [Jobs -> [Candidates -> Candidate]]
  BY <1>2 DEF Leave, TypeOK
<1>4. at' \in [Jobs -> DOMAIN Checks]
  BY Positions DEF Leave, TypeOK
<1> QED BY <1>3, <1>4 DEF Leave, TypeOK, Goto, Stages

\* The check under way is made on a candidate, and comes out true or false.
LEMMA CheckUnderWay ==
  ASSUME TypeOK, NEW j \in Jobs, Busy(j)
  PROVE  /\ cand[j] \in Candidates
         /\ at[j] \in DOMAIN Checks
         /\ Checks[at[j]] \in Types
         /\ Judgement(j, Checks[at[j]]) \in BOOLEAN
<1>1. cand[j] \in Candidates /\ at[j] \in DOMAIN Checks
  BY DEF TypeOK
<1>2. snap[j][cand[j]] \in Candidate
  BY <1>1 DEF TypeOK
<1>3. Judgement(j, Checks[at[j]]) \in BOOLEAN
  <2> DEFINE t == Checks[at[j]]
  <2>1. CASE t = Online
    BY <1>2, <2>1 DEF Judgement, Candidate
  <2>2. CASE t # Online /\ t \in OnRecord
    BY <2>2 DEF Judgement
  <2>3. CASE t # Online /\ t \notin OnRecord
    BY <2>3 DEF Judgement
  <2> QED BY <2>1, <2>2, <2>3
<1>4. Checks[at[j]] \in Types
  BY <1>1, CheckIsType
<1> QED BY <1>1, <1>3, <1>4

\* A step of the check, or of its second update, keeps every variable well typed and
\* one reason of a type.
LEMMA TypeCheck ==
  ASSUME TypeOK, ReasonsOK, NEW j \in Jobs, Judge(j) \/ Push(j)
  PROVE  TypeOK' /\ ReasonsOK'
<1> DEFINE t == Checks[at[j]]
<1>1. /\ Busy(j) /\ cand[j] \in Candidates /\ at[j] \in DOMAIN Checks /\ t \in Types
      /\ Judgement(j, t) \in BOOLEAN /\ outcome[j] \in {"passed", "failed", "gaveUp"}
  <2>1. Busy(j)
    BY DEF Judge, Push, Busy
  <2> QED BY <2>1, CheckUnderWay DEF TypeOK
<1>2. /\ UNCHANGED <<passes, valid, recent, telemetry, todo>>
      /\ faults' \in Nat
  <2>1. UNCHANGED <<passes, valid, recent, telemetry, todo>>
    BY DEF Judge, Push
  <2>2. NoFault \/ Fault
    BY DEF Judge, Push
  <2>3. faults' \in Nat
    BY <2>2 DEF TypeOK, Fault, NoFault
  <2> QED BY <2>1, <2>3
<1>3. /\ ReasonsOK'
      /\ outcome' \in [Jobs -> {"passed", "failed", "gaveUp"}]
      /\ at' \in [Jobs -> DOMAIN Checks] /\ sofar' \in [Jobs -> BOOLEAN]
      /\ cand' \in [Jobs -> Candidates \cup {None}] /\ pc' \in [Jobs -> Stages]
      /\ \A k \in Jobs : Busy(k)' => cand'[k] \in Candidates
      /\ snap' \in [Jobs -> [Candidates -> Candidate]]
  <2>1. ASSUME NEW result \in {"passed", "failed", "gaveUp"}, Store(j, result)
        PROVE  <1>3!:
    <3>1. ReasonsOK'
      BY <1>1, <2>1, UpdateKeepsTypes DEF Store
    <3>2. pc' \in [Jobs -> Stages] /\ UNCHANGED <<snap, cand, at, sofar>>
      BY <2>1 DEF Store, Goto, TypeOK, Stages
    <3>3. outcome' \in [Jobs -> {"passed", "failed", "gaveUp"}]
      BY <2>1 DEF Store, TypeOK
    <3>4. \A k \in Jobs \ {j} : pc'[k] = pc[k]
      BY <2>1 DEF Store, Goto, TypeOK
    <3> QED BY <1>1, <3>1, <3>2, <3>3, <3>4 DEF TypeOK, Busy
  <2>2. ASSUME NEW ok \in BOOLEAN, Advance(j, ok), cand' = cand, snap' = snap, ReasonsOK',
               outcome' \in [Jobs -> {"passed", "failed", "gaveUp"}]
        PROVE  <1>3!:
    BY <1>1, <2>2, AdvanceType DEF TypeOK, Busy
  <2>3. ASSUME Leave(j), ReasonsOK',
               outcome' \in [Jobs -> {"passed", "failed", "gaveUp"}]
        PROVE  <1>3!:
    BY <1>1, <2>3, LeaveType DEF TypeOK, Busy
  <2>4. ASSUME reasons' = reasons
        PROVE  ReasonsOK'
    BY <2>4 DEF ReasonsOK, OneReasonPerType
  <2>5. CASE Judge(j)
    <3>1. \/ \E result \in {"passed", "failed", "gaveUp"} : Store(j, result)
          \/ /\ UNCHANGED <<reasons, outcome, snap, cand>>
             /\ Advance(j, Judgement(j, t)) \/ Advance(j, t \in Tolerated)
          \/ UNCHANGED <<reasons, outcome>> /\ Leave(j)
      BY <1>1, <2>5 DEF Judge
    <3>2. outcome \in [Jobs -> {"passed", "failed", "gaveUp"}] /\ (t \in Tolerated) \in BOOLEAN
      BY DEF TypeOK
    <3> QED BY <1>1, <2>1, <2>2, <2>3, <2>4, <3>1, <3>2
  <2>6. CASE Push(j)
    <3>1. \/ /\ PushReason(cand[j], t, outcome[j] = "passed")
             /\ outcome' = [outcome EXCEPT ![j] = "passed"]
             /\ \/ Leave(j)
                \/ Advance(j, outcome[j] = "passed") /\ UNCHANGED <<snap, cand>>
          \/ /\ outcome' = [outcome EXCEPT ![j] = "passed"]
             /\ Advance(j, TRUE) /\ UNCHANGED <<reasons, snap, cand>>
          \/ Store(j, "gaveUp")
          \/ /\ outcome' = [outcome EXCEPT ![j] = "passed"]
             /\ Leave(j) /\ UNCHANGED reasons
      BY <2>6 DEF Push
    <3>2. [outcome EXCEPT ![j] = "passed"] \in [Jobs -> {"passed", "failed", "gaveUp"}]
      BY DEF TypeOK
    <3>3. PushReason(cand[j], t, outcome[j] = "passed") => ReasonsOK'
      BY <1>1, PushStoresType
    <3>4. (outcome[j] = "passed") \in BOOLEAN
      OBVIOUS
    <3> QED BY <1>1, <2>1, <2>2, <2>3, <2>4, <3>1, <3>2, <3>3, <3>4
  <2> QED BY <2>5, <2>6
<1>4. reasons' \in [Candidates -> SUBSET Reason]
  BY <1>3 DEF ReasonsOK
<1> QED BY <1>2, <1>3, <1>4 DEF TypeOK

\* The other steps of a run keep every variable well typed.
LEMMA TypeRun ==
  ASSUME TypeOK, NEW j \in Jobs,
         \/ Start(j) \/ Conclude(j) \/ Finish(j) \/ Select \/ Abort
         \/ \E c \in Candidates : Take(j, c)
  PROVE  TypeOK'
<1>1. CASE Start(j)
  <2>1. [c \in Candidates |-> RecordOf(j, c)] \in [Candidates -> Candidate]
    BY RecordType
  <2> QED BY <1>1, <2>1 DEF TypeOK, Start, Goto, Stages, Busy, db
<1>2. ASSUME NEW c \in Candidates, Take(j, c)
      PROVE  TypeOK'
  BY <1>2 DEF TypeOK, Take, Goto, Stages, Busy, db
<1>3. CASE Conclude(j)
  <2>1. sofar[j] \in BOOLEAN /\ (Busy(j) /\ cand[j] \in Candidates)
    BY <1>3 DEF TypeOK, Conclude, Busy
  <2>2. valid' \in [Candidates -> BOOLEAN]
    <3>1. valid' = [valid EXCEPT ![cand[j]] = sofar[j]] \/ valid' = valid
      BY <1>3 DEF Conclude
    <3> QED BY <2>1, <3>1 DEF TypeOK
  <2>3. /\ UNCHANGED <<passes, reasons, recent, telemetry, todo, outcome>>
        /\ faults' \in Nat /\ Leave(j)
    BY <1>3 DEF TypeOK, Conclude, Fault, NoFault
  <2> QED BY <2>1, <2>2, <2>3, LeaveType DEF TypeOK, Busy
<1>4. ASSUME NEW k \in Jobs, End(k), UNCHANGED <<passes, db, telemetry, cand, at, outcome, sofar>>,
             todo' \in [Jobs -> SUBSET Candidates], faults' \in Nat
      PROVE  TypeOK'
  <2>1. [c \in Candidates |-> Blank] \in [Candidates -> Candidate]
    BY DEF Blank, Candidate
  <2> QED BY <1>4, <2>1 DEF TypeOK, End, Goto, Stages, Busy, db
<1>5. CASE Finish(j)
  <2>1. CASE j = "round"
    BY <1>5, <2>1 DEF TypeOK, Finish, Goto, Stages, Busy, db
  <2>2. CASE j # "round"
    BY <1>4, <1>5, <2>2 DEF Finish, TypeOK
  <2> QED BY <2>1, <2>2
<1>6. CASE Select
  BY <1>4, <1>6 DEF Select, TypeOK, Jobs
<1>7. CASE Abort
  <2>1. todo' \in [Jobs -> SUBSET Candidates] /\ faults' \in Nat
    <3>1. todo' = [todo EXCEPT !["round"] = {}] /\ faults' = faults + 1
      BY <1>7 DEF Abort, Fault
    <3>2. todo \in [Jobs -> SUBSET Candidates] /\ faults \in Nat
      BY DEF TypeOK
    <3>3. faults' \in Nat
      BY <3>1, <3>2
    <3>4. todo' \in [Jobs -> SUBSET Candidates]
      BY <3>1, <3>2
    <3> QED BY <3>3, <3>4
  <2> QED BY <1>4, <1>7, <2>1 DEF Abort, Jobs
<1> QED BY <1>1, <1>2, <1>3, <1>5, <1>6, <1>7
-----------------------------------------------------------------------------
(* One reason per type.                                                    *)

\* A step keeps every variable well typed and the reasons of a record distinct.
LEMMA ReasonsStep ==
  ASSUME TypeOK, OneReasonPerType, [Next]_vars
  PROVE  TypeOK' /\ OneReasonPerType'
<1>1. ReasonsOK
  BY DEF ReasonsOK, TypeOK
<1>2. ASSUME UNCHANGED reasons
      PROVE  OneReasonPerType'
  BY <1>2 DEF OneReasonPerType
<1>3. CASE UNCHANGED vars
  BY <1>2, <1>3 DEF vars, db, jobVars, TypeOK, Busy
<1>4. ASSUME \/ Crash
             \/ \E c \in Candidates : Age(c) \/ \E j \in Jobs : AgeSnapshot(j, c)
      PROVE  TypeOK' /\ OneReasonPerType'
  <2>1. UNCHANGED reasons
    BY <1>4 DEF Crash, Age, AgeSnapshot, db
  <2> QED BY <1>1, <1>2, <1>4, <2>1, TypeWorld
<1>5. ASSUME NEW c \in Candidates, Write(c)
      PROVE  TypeOK' /\ OneReasonPerType'
  <2>1. TypeOK'
    BY <1>1, <1>5, TypeWorld
  <2>2. CASE PushOnline(c)
    <3>1. telemetry[c].up \in BOOLEAN
      BY DEF TypeOK
    <3> QED BY <1>1, <2>1, <2>2, <3>1, PushStoresType, ValidityAssumption
            DEF PushOnline, ReasonsOK
  <2>3. CASE SetSince(c)
    BY <1>2, <2>1, <2>3 DEF SetSince
  <2> QED BY <1>5, <2>2, <2>3 DEF Write
<1>6. ASSUME NEW c \in Candidates, NEW up \in BOOLEAN, Announce(c, up)
      PROVE  TypeOK' /\ OneReasonPerType'
  <2>1. TypeOK'
    BY <1>1, <1>6, TypeWorld
  <2> QED BY <1>1, <1>6, <2>1, UpdateKeepsTypes, ValidityAssumption DEF Announce, ReasonsOK
<1>7. ASSUME NEW c \in Candidates, NEW t \in CheckTypes \ {Online}, ChangeFact(c, t)
      PROVE  TypeOK' /\ OneReasonPerType'
  BY <1>1, <1>2, <1>7, TypeWorld DEF ChangeFact, db
<1>8. ASSUME NEW j \in Jobs, Judge(j) \/ Push(j)
      PROVE  TypeOK' /\ OneReasonPerType'
  BY <1>1, <1>8, TypeCheck DEF ReasonsOK
<1>9. ASSUME NEW j \in Jobs,
             \/ Start(j) \/ Conclude(j) \/ Finish(j) \/ Select \/ Abort
             \/ \E c \in Candidates : Take(j, c)
      PROVE  TypeOK' /\ OneReasonPerType'
  <2>1. UNCHANGED reasons
    BY <1>9 DEF Start, Conclude, Finish, Select, Abort, Take, db
  <2> QED BY <1>2, <1>9, <2>1, TypeRun
<1>10. "round" \in Jobs
  BY DEF Jobs
<1> QED BY <1>3, <1>4, <1>5, <1>6, <1>7, <1>8, <1>9, <1>10 DEF Next, Run

\* For any candidates and checks: every variable holds a value of its kind.
THEOREM TypeCorrect == Spec => []TypeOK
<1>1. Init => TypeOK /\ OneReasonPerType
  BY TypeInit DEF Init, OneReasonPerType
<1>2. TypeOK /\ OneReasonPerType /\ [Next]_vars => (TypeOK /\ OneReasonPerType)'
  BY ReasonsStep
<1> QED BY <1>1, <1>2, PTL DEF Spec

\* A record never holds two reasons of one type, however the two updates of
\* setCandidateInvalidity interleave with those of another run and of telemetry.
THEOREM ReasonsDistinct == Spec => []OneReasonPerType
<1>1. Init => TypeOK /\ OneReasonPerType
  BY TypeInit DEF Init, OneReasonPerType
<1>2. TypeOK /\ OneReasonPerType /\ [Next]_vars => (TypeOK /\ OneReasonPerType)'
  BY ReasonsStep
<1> QED BY <1>1, <1>2, PTL DEF Spec
-----------------------------------------------------------------------------
(* A verdict has its reasons.                                              *)

\* No step takes a type off a record.
LEMMA StoredGrows ==
  ASSUME TypeOK, OneReasonPerType, [Next]_vars
  PROVE  \A c \in Candidates : Stored(c) \subseteq Stored(c)'
<1>1. ReasonsOK
  BY DEF ReasonsOK, TypeOK
<1>2. ASSUME UNCHANGED reasons
      PROVE  \A c \in Candidates : Stored(c) \subseteq Stored(c)'
  BY <1>2 DEF Stored
<1>3. ASSUME NEW c \in Candidates, PushOnline(c)
      PROVE  \A d \in Candidates : Stored(d) \subseteq Stored(d)'
  <2>1. telemetry[c].up \in BOOLEAN
    BY DEF TypeOK
  <2> QED BY <1>1, <1>3, <2>1, PushStoresType, ValidityAssumption DEF PushOnline
<1>4. ASSUME NEW c \in Candidates, NEW up \in BOOLEAN, Announce(c, up)
      PROVE  \A d \in Candidates : Stored(d) \subseteq Stored(d)'
  BY <1>1, <1>4, UpdateKeepsTypes, ValidityAssumption DEF Announce
<1>5. ASSUME NEW j \in Jobs, Judge(j) \/ Push(j)
      PROVE  \A c \in Candidates : Stored(c) \subseteq Stored(c)'
  <2>1. /\ cand[j] \in Candidates /\ Checks[at[j]] \in Types
        /\ \A ok : (ok = "passed") \in BOOLEAN
    BY <1>5, CheckUnderWay DEF Judge, Push, Busy
  <2>2. ASSUME NEW result, Store(j, result)
        PROVE  \A c \in Candidates : Stored(c) \subseteq Stored(c)'
    BY <1>1, <2>1, <2>2, UpdateKeepsTypes DEF Store
  <2>3. ASSUME PushReason(cand[j], Checks[at[j]], outcome[j] = "passed")
        PROVE  \A c \in Candidates : Stored(c) \subseteq Stored(c)'
    BY <1>1, <2>1, <2>3, PushStoresType
  <2>4. \/ UNCHANGED reasons
        \/ \E result \in {"passed", "failed", "gaveUp"} : Store(j, result)
        \/ PushReason(cand[j], Checks[at[j]], outcome[j] = "passed")
    BY <1>5 DEF Judge, Push
  <2> QED BY <1>2, <2>2, <2>3, <2>4
<1> QED BY <1>2, <1>3, <1>4, <1>5
        DEF Next, vars, db, Age, AgeSnapshot, Crash, Write, SetSince, ChangeFact, Run, Start, Take,
            Conclude, Finish, Select, Abort

\* A run that does not move stays backed.
LEMMA StillBacked ==
  ASSUME NEW j \in Jobs, TypeOK, Backed(j),
         pc'[j] = pc[j], at'[j] = at[j], sofar'[j] = sofar[j],
         \A c \in Candidates : snap'[j][c].judged = snap[j][c].judged,
         cand'[j] = cand[j],
         \A c \in Candidates : Stored(c) \subseteq Stored(c)'
  PROVE  Backed(j)'
BY DEF Backed, Busy, TypeOK

\* Going on to the next check keeps a run backed, if the check made is tolerated, or is
\* stored, or did not pass.
LEMMA AdvanceBacked ==
  ASSUME NEW j \in Jobs, NEW ok \in BOOLEAN, TypeOK, Backed(j),
         pc[j] \in {"judge", "push"}, Advance(j, ok),
         snap'[j] = snap[j], cand'[j] = cand[j],
         \A c \in Candidates : Stored(c) \subseteq Stored(c)',
         ok /\ snap[j][cand[j]].judged =>
           Checks[at[j]] \in Tolerated \/ Checks[at[j]] \in Stored(cand[j])'
  PROVE  Backed(j)'
<1>1. cand[j] \in Candidates /\ at[j] \in 1 .. Len(Checks) /\ Len(Checks) \in Nat
  BY Positions DEF TypeOK, Busy
<1>2. /\ sofar'[j] => sofar[j] /\ ok
      /\ \/ at[j] < Len(Checks) /\ at'[j] = at[j] + 1 /\ pc'[j] = "judge"
         \/ at[j] = Len(Checks) /\ at'[j] = at[j] /\ pc'[j] = "conclude"
  BY <1>1 DEF Advance, Goto, TypeOK
<1>3. ASSUME sofar'[j], snap'[j][cand'[j]].judged,
             NEW i \in DOMAIN Checks, i < at'[j] \/ pc'[j] = "conclude"
      PROVE  Checks[i] \in Tolerated \/ Checks[i] \in Stored(cand[j])'
  <2>1. i \in 1 .. Len(Checks) /\ (i < at[j] \/ i = at[j])
    BY <1>1, <1>2, <1>3, Positions
  <2>2. CASE i < at[j]
    <3>1. Checks[i] \in Tolerated \cup Stored(cand[j])
      BY <1>2, <1>3, <2>2 DEF Backed, Busy
    <3> QED BY <1>1, <3>1
  <2>3. CASE i = at[j]
    BY <1>2, <1>3, <2>3
  <2> QED BY <2>1, <2>2, <2>3
<1> QED BY <1>2, <1>3 DEF Backed, Busy, Stored

\* Leaving a candidate, a run has nothing to back.
LEMMA LeaveBacked ==
  ASSUME NEW j \in Jobs, TypeOK, Leave(j)
  PROVE  Backed(j)'
<1>1. pc'[j] = "next" /\ at'[j] = 1
  BY DEF Leave, Goto, TypeOK
<1> QED BY <1>1 DEF Backed, Busy

\* A check keeps its run backed.
LEMMA CheckBacked ==
  ASSUME NEW j \in Jobs, TypeOK, OneReasonPerType, Backed(j), Judge(j) \/ Push(j),
         \A c \in Candidates : Stored(c) \subseteq Stored(c)'
  PROVE  Backed(j)'
<1> DEFINE t == Checks[at[j]]
<1>1. /\ pc[j] \in {"judge", "push"}
      /\ cand[j] \in Candidates /\ at[j] \in DOMAIN Checks /\ t \in Types
      /\ Judgement(j, t) \in BOOLEAN
  <2>1. pc[j] \in {"judge", "push"}
    BY DEF Judge, Push
  <2> QED BY <2>1, CheckUnderWay DEF Busy
<1>2. ASSUME NEW result, Store(j, result)
      PROVE  Backed(j)'
  <2>1. pc'[j] = "push" /\ UNCHANGED <<snap, cand, at, sofar>>
    BY <1>2 DEF Store, Goto, TypeOK
  <2> QED BY <1>1, <2>1 DEF Backed, Busy
<1>3. CASE Judge(j)
  <2>1. CASE Skipped(j, t) /\ Advance(j, Judgement(j, t)) /\ UNCHANGED <<snap, cand>>
    BY <1>1, <2>1, AdvanceBacked DEF Skipped
  <2>2. CASE t \in Unreadable \cup Tolerated /\ Advance(j, t \in Tolerated) /\ UNCHANGED <<snap, cand>>
    <3>1. (t \in Tolerated) \in BOOLEAN
      OBVIOUS
    <3> QED BY <1>1, <2>2, <3>1, AdvanceBacked
  <2>3. \/ \E result \in {"passed", "failed", "gaveUp"} : Store(j, result)
        \/ Skipped(j, t) /\ Advance(j, Judgement(j, t)) /\ UNCHANGED <<snap, cand>>
        \/ t \in Unreadable \cup Tolerated /\ Advance(j, t \in Tolerated) /\ UNCHANGED <<snap, cand>>
        \/ Leave(j)
    BY <1>3 DEF Judge
  <2> QED BY <1>2, <2>1, <2>2, <2>3, LeaveBacked
<1>4. CASE Push(j)
  <2>1. CASE /\ PushReason(cand[j], t, outcome[j] = "passed")
             /\ Advance(j, outcome[j] = "passed") /\ UNCHANGED <<snap, cand>>
    <3>1. (outcome[j] = "passed") \in BOOLEAN /\ ReasonsOK
      BY DEF ReasonsOK, TypeOK
    <3>2. t \in Stored(cand[j])'
      BY <1>1, <2>1, <3>1, PushStoresType DEF Stored
    <3> QED BY <1>1, <2>1, <3>1, <3>2, AdvanceBacked
  <2>2. CASE t \in Tolerated /\ Advance(j, TRUE) /\ UNCHANGED <<snap, cand>>
    BY <1>1, <2>2, AdvanceBacked
  <2>3. \/ Store(j, "gaveUp")
        \/ /\ PushReason(cand[j], t, outcome[j] = "passed")
           /\ Advance(j, outcome[j] = "passed") /\ UNCHANGED <<snap, cand>>
        \/ t \in Tolerated /\ Advance(j, TRUE) /\ UNCHANGED <<snap, cand>>
        \/ Leave(j)
    BY <1>4 DEF Push
  <2> QED BY <1>2, <2>1, <2>2, <2>3, LeaveBacked
<1> QED BY <1>3, <1>4

\* A step of one run leaves the stage of the other alone.
LEMMA OtherRun ==
  ASSUME TypeOK, NEW j \in Jobs, NEW k \in Jobs \ {j},
         \/ Start(j) \/ Run(j) \/ (j = "round" /\ (Select \/ Abort))
  PROVE  /\ pc'[k] = pc[k] /\ at'[k] = at[k] /\ sofar'[k] = sofar[k]
         /\ snap'[k] = snap[k] /\ cand'[k] = cand[k]
<1>1. CASE Judge(j) \/ Push(j)
  <2>1. \/ Leave(j)
        \/ \E ok : Advance(j, ok) /\ UNCHANGED <<snap, cand>>
        \/ \E result : Store(j, result)
    BY <1>1 DEF Judge, Push
  <2> QED BY <2>1 DEF Leave, Advance, Store, Goto, TypeOK
<1>2. CASE Conclude(j)
  BY <1>2 DEF Conclude, Leave, Goto, TypeOK
<1>3. CASE Finish(j)
  BY <1>3 DEF Finish, End, Goto, TypeOK
<1>4. ASSUME NEW c \in Candidates, Take(j, c)
      PROVE  /\ pc'[k] = pc[k] /\ at'[k] = at[k] /\ sofar'[k] = sofar[k]
             /\ snap'[k] = snap[k] /\ cand'[k] = cand[k]
  BY <1>4 DEF Take, Goto, TypeOK
<1>5. CASE Start(j)
  BY <1>5 DEF Start, Goto, TypeOK
<1>6. CASE j = "round" /\ (Select \/ Abort)
  BY <1>6 DEF Select, Abort, End, Goto, TypeOK
<1> QED BY <1>1, <1>2, <1>3, <1>4, <1>5, <1>6 DEF Run

\* A step keeps every run backed.
LEMMA BackedStep ==
  ASSUME TypeOK, OneReasonPerType, VerdictBacked, [Next]_vars
  PROVE  VerdictBacked'
<1> SUFFICES ASSUME NEW k \in Jobs PROVE Backed(k)'
  BY DEF VerdictBacked
<1>1. Backed(k) /\ \A c \in Candidates : Stored(c) \subseteq Stored(c)'
  BY StoredGrows DEF VerdictBacked
<1>2. ASSUME UNCHANGED jobVars
      PROVE  Backed(k)'
  BY <1>1, <1>2, StillBacked DEF jobVars
<1>3. CASE Crash
  BY <1>3 DEF Crash, Backed, Busy
<1>6. ASSUME \E c \in Candidates : Age(c) \/ \E j \in Jobs : AgeSnapshot(j, c)
      PROVE  Backed(k)'
  <2>1. \A c \in Candidates : snap'[k][c].judged = snap[k][c].judged
    <3>1. snap[k] \in [Candidates -> Candidate]
      BY DEF TypeOK
    <3>2. PICK c \in Candidates : Age(c) \/ \E j \in Jobs : AgeSnapshot(j, c)
      BY <1>6
    <3>3. snap'[k] = snap[k] \/ snap'[k] = [snap[k] EXCEPT ![c].recent = FALSE]
      <4>1. ASSUME NEW j \in Jobs, AgeSnapshot(j, c)
            PROVE  snap' = [snap EXCEPT ![j] = [snap[j] EXCEPT ![c].recent = FALSE]]
        BY <4>1 DEF AgeSnapshot
      <4>2. Age(c) => snap'[k] = [snap[k] EXCEPT ![c].recent = FALSE]
        BY DEF Age
      <4> QED BY <3>2, <4>1, <4>2 DEF TypeOK
    <3>4. \A d \in Candidates : [snap[k] EXCEPT ![c].recent = FALSE][d].judged = snap[k][d].judged
      BY <3>1, AgedType
    <3> DEFINE aged == [snap[k] EXCEPT ![c].recent = FALSE]
    <3>5. snap'[k] = snap[k] \/ snap'[k] = aged
      BY <3>3
    <3>6. \A d \in Candidates : aged[d].judged = snap[k][d].judged
      BY <3>4
    <3> HIDE DEF aged
    <3> QED BY <3>5, <3>6
  <2>2. UNCHANGED <<pc, cand, at, sofar>>
    BY <1>6 DEF Age, AgeSnapshot
  <2> QED BY <1>1, <2>1, <2>2, StillBacked
<1>4. ASSUME NEW j \in Jobs, \/ Start(j) \/ Run(j) \/ (j = "round" /\ (Select \/ Abort))
      PROVE  Backed(k)'
  <2>1. CASE k # j
    BY <1>1, <1>4, <2>1, OtherRun, StillBacked
  <2>2. CASE k = j /\ (Judge(k) \/ Push(k))
    BY <1>1, <2>2, CheckBacked
  <2>3. CASE k = j /\ Conclude(k)
    BY <2>3, LeaveBacked DEF Conclude
  <2>4. ASSUME k = j, NEW c \in Candidates, Take(k, c)
        PROVE  Backed(k)'
    <3>1. at[k] = 1 /\ at'[k] = at[k] /\ pc'[k] = "judge"
      BY <1>1, <2>4 DEF Take, Goto, Backed, Busy, TypeOK
    <3> QED BY <3>1, Positions DEF Backed, Busy
  <2>5. CASE k = j /\ \/ Start(k) \/ Finish(k) \/ (k = "round" /\ (Select \/ Abort))
    <3>1. ~Busy(k) /\ at' = at
      BY <2>5 DEF Start, Finish, Select, Abort, Busy
    <3>2. pc'[k] \in {"idle", "next", "select"}
      BY <2>5 DEF Start, Finish, Select, Abort, End, Goto, TypeOK
    <3> QED BY <1>1, <3>1, <3>2 DEF Backed, Busy
  <2> QED BY <1>4, <2>1, <2>2, <2>3, <2>4, <2>5 DEF Run
<1>5. "round" \in Jobs
  BY DEF Jobs
<1> QED BY <1>2, <1>3, <1>4, <1>5, <1>6
        DEF Next, vars, Write, PushOnline, SetSince, Announce, ChangeFact

\* A verdict has its reasons after a step, too.
LEMMA ExplainedStep ==
  ASSUME TypeOK, OneReasonPerType, ValidIsExplained, VerdictBacked, [Next]_vars
  PROVE  ValidIsExplained'
<1>1. \A c \in Candidates : Stored(c) \subseteq Stored(c)'
  BY StoredGrows
<1>2. ASSUME UNCHANGED valid
      PROVE  ValidIsExplained'
  BY <1>1, <1>2 DEF ValidIsExplained
<1>3. ASSUME NEW j \in Jobs, Conclude(j), valid' # valid
      PROVE  ValidIsExplained'
  <2>1. /\ pc[j] = "conclude" /\ snap[j][cand[j]].judged
        /\ valid' = [valid EXCEPT ![cand[j]] = sofar[j]]
    BY <1>3 DEF Conclude
  <2>2. sofar[j] => \A i \in DOMAIN Checks : Checks[i] \in Tolerated \cup Stored(cand[j])
    BY <2>1 DEF VerdictBacked, Backed, Busy
  <2>3. sofar[j] => \A t \in CheckTypes \ Tolerated : t \in Stored(cand[j])
    BY <2>2 DEF CheckTypes
  <2>4. \A c \in Candidates : valid'[c] => valid[c] \/ (c = cand[j] /\ sofar[j])
    BY <2>1 DEF TypeOK
  <2> QED BY <1>1, <2>3, <2>4 DEF ValidIsExplained
<1>4. UNCHANGED valid \/ \E j \in Jobs : Conclude(j)
  BY DEF Next, vars, db, Age, AgeSnapshot, Crash, Write, PushOnline, SetSince, Announce, ChangeFact,
         Run, Judge, Push, Start, Take, Finish, Select, Abort
<1> QED BY <1>2, <1>3, <1>4

\* A candidate's record says valid only when it holds a reason for every check that
\* must be made: setValid never speaks before the checks have.
THEOREM VerdictExplained == Spec => []ValidIsExplained
<1>1. Init => IndInv
  <2> SUFFICES ASSUME Init PROVE IndInv
    OBVIOUS
  <2>1. TypeOK /\ OneReasonPerType /\ ValidIsExplained
    BY TypeInit DEF Init, OneReasonPerType, ValidIsExplained
  <2>2. VerdictBacked
    BY DEF Init, VerdictBacked, Backed, Busy
  <2> QED BY <2>1, <2>2 DEF IndInv
<1>2. IndInv /\ [Next]_vars => IndInv'
  BY ReasonsStep, BackedStep, ExplainedStep DEF IndInv
<1>3. IndInv => ValidIsExplained
  BY DEF IndInv
<1> QED BY <1>1, <1>2, <1>3, PTL DEF Spec
-----------------------------------------------------------------------------
(* What a round picks has its reasons.                                     *)

\* The verdicts a round has read are of records with a reason for every check.
ReadIsExplained ==
  \A c \in Candidates, t \in CheckTypes \ Tolerated :
    snap["round"][c].valid => t \in Stored(c)

\* Until it starts anew, a round takes no candidate for valid that it did not before.
LEMMA NoNewVerdicts ==
  ASSUME TypeOK, [Next]_vars, ~Start("round")
  PROVE  \A c \in Candidates : snap'["round"][c].valid => snap["round"][c].valid
<1> DEFINE Kept == \A c \in Candidates : snap'["round"][c].valid => snap["round"][c].valid
<1> SUFFICES Kept
  OBVIOUS
<1>1. snap["round"] \in [Candidates -> Candidate] /\ "round" \in Jobs
  BY DEF TypeOK, Jobs
<1>2. ASSUME snap'["round"] = snap["round"]
      PROVE  Kept
  BY <1>2
<1>3. ASSUME snap'["round"] = [c \in Candidates |-> Blank]
      PROVE  Kept
  BY <1>3 DEF Blank
<1>4. ASSUME NEW c \in Candidates, snap'["round"] = [snap["round"] EXCEPT ![c].recent = FALSE]
      PROVE  Kept
  <2>1. [snap["round"][c] EXCEPT !.recent = FALSE].valid = snap["round"][c].valid
    BY <1>1 DEF Candidate
  <2>2. PICK aged : aged = [snap["round"][c] EXCEPT !.recent = FALSE]
    OBVIOUS
  <2>3. snap'["round"] = [snap["round"] EXCEPT ![c] = aged]
    BY <1>4, <2>2
  <2> QED BY <1>1, <2>1, <2>2, <2>3
<1>5. ASSUME Leave("round"), cand["round"] \in Candidates
      PROVE  Kept
  <2>1. PICK left : left = [Blank EXCEPT !.valid = snap["round"][cand["round"]].valid]
    OBVIOUS
  <2>2. left.valid = snap["round"][cand["round"]].valid
    BY <2>1 DEF Blank
  <2>3. snap'["round"] = [snap["round"] EXCEPT ![cand["round"]] = left]
    BY <1>1, <1>5, <2>1 DEF Leave, TypeOK
  <2> QED BY <1>1, <1>5, <2>2, <2>3
<1>6. CASE UNCHANGED snap
  BY <1>2, <1>6
<1>7. CASE Crash
  BY <1>1, <1>3, <1>7 DEF Crash
<1>8. ASSUME NEW c \in Candidates, Age(c) \/ \E j \in Jobs : AgeSnapshot(j, c)
      PROVE  Kept
  <2>1. CASE Age(c)
    BY <1>1, <1>4, <2>1 DEF Age
  <2>2. ASSUME NEW j \in Jobs, AgeSnapshot(j, c)
        PROVE  Kept
    <3>1. snap' = [snap EXCEPT ![j] = [snap[j] EXCEPT ![c].recent = FALSE]]
      BY <2>2 DEF AgeSnapshot
    <3>2. \/ snap'["round"] = snap["round"]
          \/ snap'["round"] = [snap["round"] EXCEPT ![c].recent = FALSE]
      BY <1>1, <3>1 DEF TypeOK
    <3> QED BY <1>2, <1>4, <3>2
  <2> QED BY <1>8, <2>1, <2>2
<1>9. CASE Start("validity") \/ Run("validity")
  <2>1. "validity" \in Jobs /\ "round" \in Jobs \ {"validity"}
    BY DEF Jobs
  <2>2. snap'["round"] = snap["round"]
    BY <1>9, <2>1, OtherRun
  <2> QED BY <1>2, <2>2
<1>10. CASE Run("round")
  <2>1. CASE Judge("round") \/ Push("round")
    <3>1. Busy("round")
      BY <2>1 DEF Judge, Push, Busy
    <3>2. Leave("round") \/ UNCHANGED snap
      BY <2>1 DEF Judge, Push, Store
    <3> QED BY <1>1, <1>2, <1>5, <3>1, <3>2, CheckUnderWay
  <2>2. CASE Conclude("round")
    BY <1>1, <1>5, <2>2, CheckUnderWay DEF Conclude, Busy
  <2>3. CASE Finish("round") \/ \E c \in Candidates : Take("round", c)
    BY <1>2, <2>3 DEF Finish, Take
  <2> QED BY <1>10, <2>1, <2>2, <2>3 DEF Run
<1>11. CASE Select \/ Abort
  <2>1. snap'["round"] = [c \in Candidates |-> Blank]
    BY <1>1, <1>11 DEF Select, Abort, End, TypeOK
  <2> QED BY <1>3, <2>1
<1>12. ASSUME NEW c \in Candidates,
              \/ Write(c)
              \/ \E up \in BOOLEAN : Announce(c, up)
              \/ \E t \in CheckTypes \ {Online} : ChangeFact(c, t)
       PROVE  Kept
  <2>1. UNCHANGED snap
    BY <1>12 DEF Write, PushOnline, SetSince, Announce, ChangeFact, jobVars
  <2> QED BY <1>6, <2>1
<1>13. CASE UNCHANGED vars
  BY <1>2, <1>13 DEF vars, jobVars
<1>14. \/ UNCHANGED vars \/ Crash \/ Select \/ Abort
       \/ Start("validity") \/ Run("validity") \/ Run("round")
       \/ \E c \in Candidates : Age(c) \/ \E j \in Jobs : AgeSnapshot(j, c)
       \/ \E c \in Candidates : \/ Write(c)
                                \/ \E up \in BOOLEAN : Announce(c, up)
                                \/ \E t \in CheckTypes \ {Online} : ChangeFact(c, t)
  <2>1. ASSUME NEW j \in Jobs, Start(j) \/ Run(j)
        PROVE  Start("validity") \/ Run("validity") \/ Run("round")
    <3>1. CASE j = "validity"
      BY <2>1, <3>1
    <3>2. CASE j = "round"
      BY <2>1, <3>2
    <3> QED BY <3>1, <3>2 DEF Jobs
  <2> QED BY <2>1 DEF Next
<1> HIDE DEF Kept
<1> QED BY <1>7, <1>8, <1>9, <1>10, <1>11, <1>12, <1>13, <1>14

\* What a round has read keeps its reasons: no step takes a reason's type away, and a
\* round that starts reads verdicts that have theirs.
LEMMA ReadStep ==
  ASSUME TypeOK, OneReasonPerType, ValidIsExplained, ReadIsExplained, [Next]_vars
  PROVE  ReadIsExplained'
<1>1. \A c \in Candidates : Stored(c) \subseteq Stored(c)'
  BY StoredGrows
<1>2. CASE Start("round")
  <2>1. \A c \in Candidates : RecordOf("round", c).valid => valid[c]
    BY DEF RecordOf
  <2>2. \A c \in Candidates : snap'["round"][c] = RecordOf("round", c)
    BY <1>2 DEF Start, TypeOK, Jobs
  <2>3. \A c \in Candidates : snap'["round"][c].valid => valid[c]
    BY <2>1, <2>2
  <2> QED BY <1>1, <2>3 DEF ReadIsExplained, ValidIsExplained
<1>3. CASE ~Start("round")
  BY <1>1, <1>3, NoNewVerdicts DEF ReadIsExplained
<1> QED BY <1>2, <1>3

\* A round nominates no candidate whose record lacks the reason of a check that must be
\* made, although it picks by verdicts that it read before its own checks.
THEOREM PickedHasReasons == Spec => []PickedIsExplained
<1> DEFINE PickInv == IndInv /\ ReadIsExplained
<1>1. Init => PickInv
  <2> SUFFICES ASSUME Init PROVE PickInv
    OBVIOUS
  <2>1. TypeOK /\ OneReasonPerType /\ ValidIsExplained
    BY TypeInit DEF Init, OneReasonPerType, ValidIsExplained
  <2>2. VerdictBacked
    BY DEF Init, VerdictBacked, Backed, Busy
  <2>3. ReadIsExplained
    BY DEF Init, ReadIsExplained, Blank, Jobs
  <2> QED BY <2>1, <2>2, <2>3 DEF IndInv
<1>2. PickInv /\ [Next]_vars => PickInv'
  BY ReasonsStep, BackedStep, ExplainedStep, ReadStep DEF IndInv
<1>3. PickInv => PickedIsExplained
  BY DEF ReadIsExplained, PickedIsExplained, Picked
<1> HIDE DEF PickInv
<1> QED BY <1>1, <1>2, <1>3, PTL DEF Spec
=============================================================================
