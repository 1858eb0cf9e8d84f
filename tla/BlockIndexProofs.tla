--------------------------- MODULE BlockIndexProofs ---------------------------
(***************************************************************************)
(* Proofs about BlockIndex, for any claims, batches, chain and bounds.     *)
(***************************************************************************)
EXTENDS BlockIndex, TLAPS, FiniteSetTheorems

\* Call k is done with: its rows are written, or its claim was given up.
Done(k) == k.claim \in skipped \/ Recorded(k)

\* All calls of the extrinsics of block b are done with.
BlockRecorded(b) == \A x \in In(b) : \A n \in DOMAIN CallsOf[x] : Done(CallsOf[x][n])

\* The rows the writes before the task's own have filled.
RowsBefore(t) ==
  (IF t.write > 1 THEN Rewarded(t.x) \cap {ValidatorOf[ClaimOf(t)]} ELSE {})
  \cup (IF t.write > 2 THEN Rewarded(t.x) \ {ValidatorOf[ClaimOf(t)]} ELSE {})

\* Whoever started it, a task has done with the calls before its own, and the rows its
\* lookups found and the rows of its earlier writes are there.
TaskOK(t) ==
  /\ \A m \in 1 .. t.n - 1 : Done(CallsOf[t.x][m])
  /\ \A r \in t.seen \cup RowsBefore(t) : rows[ClaimOf(t)][r] > 0

TasksOK == \A t \in tasks : TaskOK(t)

\* While the job waits for a block, each of its extrinsics is done with or has a task for
\* which the job waits.
Covered(x) ==
  \/ \E t \in tasks : t.x = x /\ t.own
  \/ \A n \in DOMAIN CallsOf[x] : Done(CallsOf[x][n])

ScanCovered == scanning => \A x \in In(at) : Covered(x)

\* The loop leaves nothing out between the index and its block, not even where the index
\* could not be widened.
LoopAdjacent ==
  /\ scanning => (pc # "idle" /\ LoopGoesOn /\ ToScan)
  /\ pc = "first" => (index = NoIndex \/ at = target + 1)
  /\ pc = "forward" => (at >= index.latest /\ \A b \in index.latest + 1 .. at - 1 : BlockRecorded(b))
  /\ pc = "backward" => (at <= index.earliest /\ \A b \in at + 1 .. index.earliest - 1 : BlockRecorded(b))

IndexRecorded == \A b \in Int : Indexed(b) => BlockRecorded(b)

\* The inductive invariant.
IndInv == TypeOK /\ TasksOK /\ PayoutAfterRewards /\ ScanCovered /\ LoopAdjacent /\ IndexRecorded
-----------------------------------------------------------------------------
(* Facts about the constants.                                              *)

\* A call of an extrinsic is a call; calls are numbered from 1.
LEMMA CallFacts ==
  ASSUME NEW x \in Extrinsics
  PROVE  /\ Len(CallsOf[x]) \in Nat /\ DOMAIN CallsOf[x] = 1 .. Len(CallsOf[x])
         /\ \A n \in DOMAIN CallsOf[x] : /\ CallsOf[x][n] \in Call
                                         /\ CallsOf[x][n].claim \in Claims
                                         /\ CallsOf[x][n].ok \in BOOLEAN
<1>1. CallsOf[x] \in Seq(Call)
  BY BlockIndexAssumption
<1>2. \A n \in DOMAIN CallsOf[x] : CallsOf[x][n] \in Call
  BY <1>1
<1> QED BY <1>1, <1>2 DEF Call

\* The stakers a claim pays are stakers.
LEMMA PaidAreStakers ==
  ASSUME NEW c \in Claims
  PROVE  PaidBy[c] \subseteq Stakers
BY DEF Stakers

LEMMA PayoutIsNoStaker == Payout \notin Stakers /\ Payout \in Rows /\ Stakers \subseteq Rows
BY BlockIndexAssumption DEF Rows

LEMMA WriteFacts ==
  /\ DOMAIN Writes = 1 .. 3 /\ Len(Writes) = 3
  /\ Writes[1] = "validator" /\ Writes[2] = "nominators" /\ Writes[3] = "payout"
BY DEF Writes

\* A call that succeeded has an event for every staker it paid.
LEMMA PaidAreRewarded ==
  ASSUME NEW x \in Extrinsics, NEW n \in DOMAIN CallsOf[x], CallsOf[x][n].ok
  PROVE  PaidBy[CallsOf[x][n].claim] \subseteq Rewarded(x)
<1> SUFFICES ASSUME NEW s \in PaidBy[CallsOf[x][n].claim] PROVE s \in Rewarded(x)
  OBVIOUS
<1> DEFINE hits == {m \in DOMAIN CallsOf[x] : CallsOf[x][m].ok /\ s \in PaidBy[CallsOf[x][m].claim]}
<1>1. IsFiniteSet(DOMAIN CallsOf[x])
  <2>1. DOMAIN CallsOf[x] = 1 .. Len(CallsOf[x]) /\ Len(CallsOf[x]) \in Int
    BY CallFacts
  <2> HIDE DEF hits
  <2> QED BY <2>1, FS_Interval
<1>2. IsFiniteSet(hits)
  BY <1>1, FS_Subset
<1>3. hits # {}
  OBVIOUS
<1>4. Cardinality(hits) \in Nat /\ Cardinality(hits) # 0
  BY <1>2, <1>3, FS_CardinalityType, FS_EmptySet
<1>5. Events(x, s) > 0
  BY <1>4 DEF Events
<1>6. s \in Stakers
  BY CallFacts, PaidAreStakers
<1> QED BY <1>5, <1>6 DEF Rewarded

\* What a task writes are rows, and the row of the payout comes last and alone.
LEMMA RowsOfFacts ==
  ASSUME NEW t \in Task
  PROVE  /\ RowsOf(t) \subseteq Rows
         /\ Payout \in RowsOf(t) => t.write = 3
         /\ t.write = 3 => Payout \in RowsOf(t)
         /\ t.write \in 1 .. 3
<1>1. t.write \in 1 .. 3
  BY WriteFacts DEF Task
<1>2. Rewarded(t.x) \subseteq Stakers
  BY DEF Rewarded
<1>3. CASE t.write = 1
  BY <1>2, <1>3, WriteFacts, PayoutIsNoStaker DEF RowsOf
<1>4. CASE t.write = 2
  BY <1>2, <1>4, WriteFacts, PayoutIsNoStaker DEF RowsOf
<1>5. CASE t.write = 3
  BY <1>5, WriteFacts, PayoutIsNoStaker DEF RowsOf
<1> QED BY <1>1, <1>3, <1>4, <1>5
-----------------------------------------------------------------------------
(* Rows and given-up claims only grow, so what is done with stays so.      *)

RowsOK == rows \in [Claims -> [Rows -> Nat]] /\ skipped \subseteq Claims

Grows ==
  /\ \A c \in Claims : \A r \in Rows : rows[c][r] > 0 => rows'[c][r] > 0
  /\ skipped \subseteq skipped'

LEMMA UnchangedGrows ==
  ASSUME UNCHANGED rows, skipped \subseteq skipped'
  PROVE  Grows
BY DEF Grows

LEMMA DoneStays ==
  ASSUME Grows, NEW k \in Call, Done(k)
  PROVE  Done(k)'
<1>1. k.claim \in Claims
  BY DEF Call
<1>2. PaidBy[k.claim] \subseteq Rows /\ Payout \in Rows
  BY <1>1, PaidAreStakers, PayoutIsNoStaker
<1> QED BY <1>1, <1>2 DEF Grows, Done, Recorded

LEMMA BlockStaysRecorded ==
  ASSUME Grows, NEW b, BlockRecorded(b)
  PROVE  BlockRecorded(b)'
<1> SUFFICES ASSUME NEW x \in In(b), NEW n \in DOMAIN CallsOf[x]
             PROVE  Done(CallsOf[x][n])'
  BY DEF BlockRecorded
<1>1. CallsOf[x][n] \in Call
  BY CallFacts DEF In
<1>2. Done(CallsOf[x][n])
  BY DEF BlockRecorded
<1> QED BY <1>1, <1>2, DoneStays

\* A task works on a call of an extrinsic.
TaskTyped(t) == t \in Task /\ t.n \in DOMAIN CallsOf[t.x]

LEMMA TaskFacts ==
  ASSUME NEW t, TaskTyped(t)
  PROVE  /\ t.x \in Extrinsics /\ t.n \in 1 .. Len(CallsOf[t.x]) /\ Len(CallsOf[t.x]) \in Nat
         /\ ClaimOf(t) \in Claims /\ CallsOf[t.x][t.n] \in Call
         /\ t.own \in BOOLEAN /\ t.seen \subseteq Rows /\ t.write \in 1 .. 3
         /\ t.step \in {"read", "find", "save"}
         /\ RowsBefore(t) \subseteq Rows
         /\ \A m \in 1 .. t.n - 1 : m \in DOMAIN CallsOf[t.x] /\ CallsOf[t.x][m] \in Call
<1>1. t.x \in Extrinsics /\ t.own \in BOOLEAN /\ t.seen \subseteq Rows /\ t.write \in 1 .. 3
      /\ t.step \in {"read", "find", "save"}
  BY WriteFacts DEF TaskTyped, Task
<1>2. t.n \in DOMAIN CallsOf[t.x]
  BY DEF TaskTyped
<1>3. ClaimOf(t) \in Claims /\ CallsOf[t.x][t.n] \in Call
  BY <1>1, <1>2, CallFacts DEF ClaimOf
<1>4. t.n \in 1 .. Len(CallsOf[t.x]) /\ Len(CallsOf[t.x]) \in Nat
  BY <1>1, <1>2, CallFacts
<1>5. \A m \in 1 .. t.n - 1 : m \in DOMAIN CallsOf[t.x] /\ CallsOf[t.x][m] \in Call
  BY <1>1, <1>4, CallFacts
<1>6. RowsBefore(t) \subseteq Rows
  BY PayoutIsNoStaker DEF RowsBefore, Rewarded
<1> QED BY <1>1, <1>3, <1>4, <1>5, <1>6

LEMMA TaskStaysOK ==
  ASSUME Grows, NEW t, TaskTyped(t), TaskOK(t)
  PROVE  TaskOK(t)'
<1>1. \A m \in 1 .. t.n - 1 : Done(CallsOf[t.x][m])'
  BY TaskFacts, DoneStays DEF TaskOK
<1>2. \A r \in t.seen \cup RowsBefore(t) : rows'[ClaimOf(t)][r] > 0
  BY TaskFacts DEF TaskOK, Grows
<1> QED BY <1>1, <1>2 DEF TaskOK

LEMMA CoveredStays ==
  ASSUME Grows, NEW x \in Extrinsics, Covered(x),
         \A t \in tasks : t.own => t \in tasks'
  PROVE  Covered(x)'
<1>1. CASE \E t \in tasks : t.x = x /\ t.own
  BY <1>1 DEF Covered
<1>2. CASE \A n \in DOMAIN CallsOf[x] : Done(CallsOf[x][n])
  BY <1>2, DoneStays, CallFacts DEF Covered
<1> QED BY <1>1, <1>2 DEF Covered
-----------------------------------------------------------------------------
(* The tasks a task becomes.                                               *)

\* A change of own changes nothing a task has done.
LEMMA Disowned ==
  ASSUME NEW t, TaskTyped(t), NEW b \in BOOLEAN
  PROVE  /\ TaskTyped([t EXCEPT !.own = b])
         /\ TaskOK(t) => TaskOK([t EXCEPT !.own = b])
<1> DEFINE u == [t EXCEPT !.own = b]
<1>1. u \in Task /\ u.x = t.x /\ u.n = t.n /\ u.write = t.write /\ u.seen = t.seen
  BY DEF TaskTyped, Task
<1>2. ClaimOf(u) = ClaimOf(t) /\ RowsBefore(u) = RowsBefore(t)
  BY <1>1 DEF ClaimOf, RowsBefore
<1>3. TaskTyped(u) /\ (TaskOK(t) => TaskOK(u))
  <2> HIDE DEF u
  <2> QED BY <1>1, <1>2 DEF TaskTyped, TaskOK
<1> QED BY <1>3 DEF u

\* The first call of an extrinsic.
LEMMA BeginsOK ==
  ASSUME NEW x \in Extrinsics, NEW n \in DOMAIN CallsOf[x], NEW b \in BOOLEAN,
         \A m \in 1 .. n - 1 : Done(CallsOf[x][m])
  PROVE  LET u == [Begin(x, n) EXCEPT !.own = b]
         IN  TaskTyped(u) /\ TaskOK(u) /\ u.x = x /\ u.own = b
<1> DEFINE u == [Begin(x, n) EXCEPT !.own = b]
<1>1. n \in Nat
  BY CallFacts
<1>2. Begin(x, n) \in Task
  BY <1>1, WriteFacts DEF Begin, Task
<1>3. u \in Task /\ u.x = x /\ u.n = n /\ u.write = 1 /\ u.seen = {} /\ u.own = b
  BY <1>2 DEF Begin, Task
<1>4. RowsBefore(u) = {}
  BY <1>3 DEF RowsBefore
<1> HIDE DEF u
<1>5. TaskTyped(u) /\ TaskOK(u)
  BY <1>3, <1>4 DEF TaskTyped, TaskOK
<1> QED BY <1>3, <1>5 DEF u

TasksTyped == \A t \in tasks : TaskTyped(t)
Tasks == TasksTyped /\ TasksOK

LEMMA TasksStayOK ==
  ASSUME Grows, Tasks, tasks' \subseteq tasks
  PROVE  Tasks'
BY TaskStaysOK DEF Tasks, TasksTyped, TasksOK

\* The end of the run disowns the other tasks, and no more.
LEMMA Thrown ==
  ASSUME Grows, Tasks, NEW t \in tasks, Throw(t)
  PROVE  /\ Tasks'
         /\ \/ JobFails
            \/ UNCHANGED job /\ \A u \in tasks : u.own => u \in tasks'
<1>1. CASE t.own
  <2>1. JobFails /\ tasks' = Orphaned(tasks \ {t})
    BY <1>1 DEF Throw
  <2>2. \A u \in tasks' : \E v \in tasks : u = [v EXCEPT !.own = FALSE]
    BY <2>1 DEF Orphaned
  <2>3. \A u \in tasks' : TaskTyped(u) /\ TaskOK(u)'
    <3> TAKE u \in tasks'
    <3>1. PICK v \in tasks : u = [v EXCEPT !.own = FALSE]
      BY <2>2
    <3>2. TaskTyped(v) /\ TaskOK(v)
      BY DEF Tasks, TasksTyped, TasksOK
    <3>3. TaskTyped(u) /\ TaskOK(u)
      BY <3>1, <3>2, Disowned
    <3> QED BY <3>3, TaskStaysOK
  <2> QED BY <2>1, <2>3 DEF Tasks, TasksTyped, TasksOK, TaskTyped
<1>2. CASE ~t.own
  <2>1. UNCHANGED job /\ tasks' = tasks \ {t}
    BY <1>2 DEF Throw
  <2>2. Tasks'
    BY <2>1, TasksStayOK
  <2> QED BY <1>2, <2>1, <2>2
<1> QED BY <1>1, <1>2

\* A task that goes on with another step, or leaves its place to the next call of the same
\* extrinsic, keeps the extrinsic covered.
LEMMA BecomesOK ==
  ASSUME Grows, Tasks, NEW t \in tasks, NEW u, TaskTyped(u), TaskOK(u)',
         u.x = t.x, u.own = t.own, Becomes(t, u)
  PROVE  /\ Tasks'
         /\ \A x \in Extrinsics : Covered(x) => Covered(x)'
<1>1. tasks' = (tasks \ {t}) \cup {u}
  BY DEF Becomes
<1>2. \A v \in tasks' : TaskTyped(v) /\ TaskOK(v)'
  BY <1>1, TaskStaysOK DEF Tasks, TasksTyped, TasksOK
<1>3. ASSUME NEW x \in Extrinsics, Covered(x) PROVE Covered(x)'
  <2>1. CASE \E v \in tasks : v.x = x /\ v.own
    BY <1>1, <2>1 DEF Covered
  <2>2. CASE \A n \in DOMAIN CallsOf[x] : Done(CallsOf[x][n])
    BY <2>2, DoneStays, CallFacts DEF Covered
  <2> QED BY <1>3, <2>1, <2>2 DEF Covered
<1> QED BY <1>2, <1>3 DEF Tasks, TasksTyped, TasksOK, TaskTyped

LEMMA NextCallOK ==
  ASSUME Grows, Tasks, NEW t \in tasks, Done(CallsOf[t.x][t.n])', NextCall(t)
  PROVE  /\ Tasks'
         /\ \A x \in Extrinsics : Covered(x) => Covered(x)'
<1>1. TaskTyped(t) /\ TaskOK(t)
  BY DEF Tasks, TasksTyped, TasksOK
<1>2. \A m \in 1 .. t.n : Done(CallsOf[t.x][m])'
  <2>1. \A m \in 1 .. t.n - 1 : Done(CallsOf[t.x][m])'
    BY <1>1, TaskFacts, DoneStays DEF TaskOK
  <2>2. t.n \in Nat
    BY <1>1, TaskFacts
  <2> QED BY <2>1, <2>2
<1>3. t.x \in Extrinsics /\ t.n \in 1 .. Len(CallsOf[t.x]) /\ Len(CallsOf[t.x]) \in Nat /\ t.own \in BOOLEAN
  BY <1>1, TaskFacts
<1>4. CASE t.n < Len(CallsOf[t.x])
  <2> DEFINE u == [Begin(t.x, t.n + 1) EXCEPT !.own = t.own]
  <2>1. Becomes(t, u)
    BY <1>4 DEF NextCall
  <2>2. t.n + 1 \in DOMAIN CallsOf[t.x]
    BY <1>3, <1>4, CallFacts
  <2>3. Begin(t.x, t.n + 1) \in Task
    BY <1>3, WriteFacts DEF Begin, Task
  <2>4. u \in Task /\ u.x = t.x /\ u.n = t.n + 1 /\ u.write = 1 /\ u.seen = {} /\ u.own = t.own
    BY <1>3, <2>3 DEF Begin, Task
  <2> HIDE DEF u
  <2>5. RowsBefore(u) = {}
    BY <2>4 DEF RowsBefore
  <2>6. \A m \in 1 .. u.n - 1 : Done(CallsOf[u.x][m])'
    BY <1>2, <1>3, <2>4
  <2>7. TaskTyped(u) /\ TaskOK(u)'
    BY <2>2, <2>4, <2>5, <2>6 DEF TaskTyped, TaskOK
  <2> QED BY <2>1, <2>4, <2>7, BecomesOK
<1>5. CASE ~(t.n < Len(CallsOf[t.x]))
  <2>1. tasks' = tasks \ {t}
    BY <1>5 DEF NextCall
  <2>2. Tasks'
    BY <2>1, TasksStayOK
  <2>3. \A m \in DOMAIN CallsOf[t.x] : Done(CallsOf[t.x][m])'
    BY <1>2, <1>3, <1>5, CallFacts
  <2>4. ASSUME NEW x \in Extrinsics, Covered(x) PROVE Covered(x)'
    <3>1. CASE x = t.x
      BY <2>3, <3>1 DEF Covered
    <3>2. CASE x # t.x /\ \E v \in tasks : v.x = x /\ v.own
      BY <2>1, <3>2 DEF Covered
    <3>3. CASE \A n \in DOMAIN CallsOf[x] : Done(CallsOf[x][n])
      BY <3>3, DoneStays, CallFacts DEF Covered
    <3> QED BY <2>4, <3>1, <3>2, <3>3 DEF Covered
  <2> QED BY <2>2, <2>4
<1> QED BY <1>4, <1>5
-----------------------------------------------------------------------------
(* The rows a task writes.                                                 *)

LEMMA InsertFills ==
  ASSUME RowsOK, NEW t, TaskTyped(t), NEW some \in SUBSET Rows, Insert(t, some)
  PROVE  /\ rows' \in [Claims -> [Rows -> Nat]]
         /\ \A c \in Claims : \A r \in Rows : rows[c][r] > 0 => rows'[c][r] > 0
         /\ \A r \in some : rows'[ClaimOf(t)][r] > 0
         /\ \A c \in Claims : \A r \in Rows :
              c # ClaimOf(t) \/ r \notin some => rows'[c][r] = rows[c][r]
<1>1. Len(CallsOf[t.x]) \in Nat /\ DOMAIN CallsOf[t.x] = 1 .. Len(CallsOf[t.x]) /\ ClaimOf(t) \in Claims
  BY TaskFacts, CallFacts
<1> DEFINE most == Cardinality(DOMAIN CallsOf[t.x])
<1>2. most \in Nat
  <2>1. IsFiniteSet(1 .. Len(CallsOf[t.x]))
    BY <1>1, FS_Interval
  <2> QED BY <1>1, <2>1, FS_CardinalityType
<1> DEFINE c == ClaimOf(t)
<1>3. PICK new \in [some -> 1 .. most] :
        rows' = [rows EXCEPT ![c] = [r \in Rows |-> @[r] + (IF r \in some THEN new[r] ELSE 0)]]
  BY DEF Insert
<1>4. \A r \in some : new[r] \in Nat /\ new[r] > 0
  <2>1. \A r \in some : new[r] \in 1 .. most
    OBVIOUS
  <2> HIDE DEF most
  <2> QED BY <1>2, <2>1 DEF most
<1> DEFINE row == [r \in Rows |-> rows[c][r] + (IF r \in some THEN new[r] ELSE 0)]
<1>5. rows' = [rows EXCEPT ![c] = row]
  BY <1>3
<1>6. \A r \in Rows : rows[c][r] \in Nat
  BY <1>1 DEF RowsOK
<1>7. \A r \in Rows : row[r] \in Nat /\ (rows[c][r] > 0 => row[r] > 0)
                      /\ (r \in some => row[r] > 0) /\ (r \notin some => row[r] = rows[c][r])
  BY <1>4, <1>6
<1>8. row \in [Rows -> Nat]
  BY <1>7
<1> HIDE DEF row, most, c
<1>9. rows' \in [Claims -> [Rows -> Nat]] /\ rows'[c] = row /\ \A d \in Claims \ {c} : rows'[d] = rows[d]
  BY <1>1, <1>5, <1>8 DEF RowsOK, c
<1> QED BY <1>7, <1>9 DEF c

\* The row of the payout comes when all rewards of the call are there.
LEMMA InsertKeepsOrder ==
  ASSUME RowsOK, PayoutAfterRewards, NEW t, TaskTyped(t), TaskOK(t),
         NEW some \in SUBSET RowsOf(t), Insert(t, some)
  PROVE  PayoutAfterRewards'
<1>1. some \in SUBSET Rows
  BY RowsOfFacts DEF TaskTyped
<1>2. /\ \A c \in Claims : \A r \in Rows : rows[c][r] > 0 => rows'[c][r] > 0
      /\ \A c \in Claims : \A r \in Rows :
              c # ClaimOf(t) \/ r \notin some => rows'[c][r] = rows[c][r]
  BY <1>1, InsertFills
<1> SUFFICES ASSUME NEW c \in Claims, rows'[c][Payout] > 0, NEW s \in PaidBy[c],
                    \A x \in Extrinsics : \A n \in DOMAIN CallsOf[x] :
                       CallsOf[x][n].claim = c => CallsOf[x][n].ok
             PROVE  rows'[c][s] > 0
  BY DEF PayoutAfterRewards
<1>3. s \in Rows /\ Payout \in Rows
  BY PaidAreStakers, PayoutIsNoStaker
<1>4. CASE rows[c][Payout] > 0
  BY <1>2, <1>3, <1>4 DEF PayoutAfterRewards
<1>5. CASE ~(rows[c][Payout] > 0)
  <2>1. c = ClaimOf(t) /\ Payout \in some
    BY <1>2, <1>3, <1>5
  <2>2. t.write = 3
    BY <2>1, RowsOfFacts DEF TaskTyped
  <2>3. RowsBefore(t) = Rewarded(t.x)
    BY <2>2 DEF RowsBefore
  <2>4. t.x \in Extrinsics /\ t.n \in DOMAIN CallsOf[t.x]
    BY TaskFacts DEF TaskTyped
  <2>5. CallsOf[t.x][t.n].claim = c
    BY <2>1 DEF ClaimOf
  <2>6. s \in Rewarded(t.x)
    BY <2>4, <2>5, PaidAreRewarded
  <2>7. rows[c][s] > 0
    BY <2>1, <2>3, <2>6 DEF TaskOK
  <2> QED BY <1>2, <1>3, <2>7
<1> QED BY <1>4, <1>5
-----------------------------------------------------------------------------
(* A step of a task.                                                       *)

\* The faults that may still come.
LEMMA FaultsCounted ==
  ASSUME faults \in Nat, Fault \/ NoFault
  PROVE  faults' \in Nat
BY DEF Fault, NoFault

\* What a step of a task leaves of the invariant: all of it, if it does not end the run.
TaskStepOK ==
  /\ Grows /\ RowsOK' /\ PayoutAfterRewards' /\ Tasks'
  /\ \/ JobFails
     \/ UNCHANGED job /\ \A x \in Extrinsics : Covered(x) => Covered(x)'

LEMMA ThrowOK ==
  ASSUME Grows, RowsOK', PayoutAfterRewards', Tasks, NEW t \in tasks, Throw(t)
  PROVE  TaskStepOK
<1>1. Tasks'
  BY Thrown
<1>2. JobFails \/ (UNCHANGED job /\ \A u \in tasks : u.own => u \in tasks')
  BY Thrown
<1>3. (\A u \in tasks : u.own => u \in tasks') => \A x \in Extrinsics : Covered(x) => Covered(x)'
  BY CoveredStays
<1> QED BY <1>1, <1>2, <1>3 DEF TaskStepOK

LEMMA PayoutOrderUnchanged ==
  ASSUME PayoutAfterRewards, UNCHANGED rows
  PROVE  PayoutAfterRewards'
BY DEF PayoutAfterRewards

LEMMA ReadContextOK ==
  ASSUME RowsOK, PayoutAfterRewards, Tasks, NEW t \in tasks, ReadContext(t)
  PROVE  TaskStepOK
<1>1. TaskTyped(t) /\ TaskOK(t)
  BY DEF Tasks, TasksTyped, TasksOK
<1>2. UNCHANGED rows /\ PayoutAfterRewards'
  BY PayoutOrderUnchanged DEF ReadContext
<1>3. CASE Becomes(t, [t EXCEPT !.step = "find"]) /\ UNCHANGED <<job, skipped>>
  <2> DEFINE u == [t EXCEPT !.step = "find"]
  <2>1. Grows /\ RowsOK'
    BY <1>2, <1>3 DEF Grows, RowsOK
  <2>2. u \in Task /\ u.x = t.x /\ u.n = t.n /\ u.write = t.write /\ u.seen = t.seen /\ u.own = t.own
    BY <1>1 DEF TaskTyped, Task
  <2>3. Becomes(t, u)
    BY <1>3
  <2> HIDE DEF u
  <2>4. ClaimOf(u) = ClaimOf(t) /\ RowsBefore(u) = RowsBefore(t)
    BY <2>2 DEF ClaimOf, RowsBefore
  <2>5. TaskTyped(u) /\ TaskOK(u)
    BY <1>1, <2>2, <2>4 DEF TaskTyped, TaskOK
  <2>6. TaskOK(u)'
    BY <2>1, <2>5, TaskStaysOK
  <2>7. Tasks' /\ \A x \in Extrinsics : Covered(x) => Covered(x)'
    BY <2>1, <2>2, <2>3, <2>5, <2>6, BecomesOK
  <2> QED BY <1>2, <1>3, <2>1, <2>7 DEF TaskStepOK
<1>4. CASE skipped' = skipped \cup {ClaimOf(t)} /\ NextCall(t) /\ UNCHANGED job
  <2>1. Grows /\ RowsOK'
    BY <1>1, <1>2, <1>4, TaskFacts DEF Grows, RowsOK
  <2>2. Done(CallsOf[t.x][t.n])'
    BY <1>4 DEF Done, ClaimOf
  <2>3. Tasks' /\ \A x \in Extrinsics : Covered(x) => Covered(x)'
    BY <1>4, <2>1, <2>2, NextCallOK
  <2> QED BY <1>2, <1>4, <2>1, <2>3 DEF TaskStepOK
<1>5. CASE Throw(t) /\ UNCHANGED skipped
  <2>1. Grows /\ RowsOK'
    BY <1>2, <1>5 DEF Grows, RowsOK
  <2> QED BY <1>2, <1>5, <2>1, ThrowOK
<1> QED BY <1>3, <1>4, <1>5 DEF ReadContext

LEMMA FindRowsOK ==
  ASSUME RowsOK, PayoutAfterRewards, Tasks, NEW t \in tasks, FindRows(t)
  PROVE  TaskStepOK
<1>1. TaskTyped(t) /\ TaskOK(t)
  BY DEF Tasks, TasksTyped, TasksOK
<1>2. UNCHANGED rows /\ PayoutAfterRewards' /\ Grows /\ RowsOK'
  BY PayoutOrderUnchanged DEF FindRows, Grows, RowsOK
<1>3. ASSUME UNCHANGED job, NEW found \in SUBSET Rows,
             \A r \in found : rows[ClaimOf(t)][r] > 0,
             Becomes(t, [t EXCEPT !.step = "save", !.seen = found])
      PROVE  TaskStepOK
  <2> DEFINE u == [t EXCEPT !.step = "save", !.seen = found]
  <2>1. u \in Task /\ u.x = t.x /\ u.n = t.n /\ u.write = t.write /\ u.seen = found /\ u.own = t.own
    BY <1>1 DEF TaskTyped, Task
  <2>2. Becomes(t, u)
    BY <1>3
  <2> HIDE DEF u
  <2>3. ClaimOf(u) = ClaimOf(t) /\ RowsBefore(u) = RowsBefore(t)
    BY <2>1 DEF ClaimOf, RowsBefore
  <2>4. TaskTyped(u) /\ TaskOK(u)
    BY <1>1, <1>3, <2>1, <2>3 DEF TaskTyped, TaskOK
  <2>5. TaskOK(u)'
    BY <1>2, <2>4, TaskStaysOK
  <2>6. Tasks' /\ \A x \in Extrinsics : Covered(x) => Covered(x)'
    BY <1>2, <2>1, <2>2, <2>4, <2>5, BecomesOK
  <2> QED BY <1>2, <1>3, <2>6 DEF TaskStepOK
<1>4. CASE Throw(t)
  BY <1>2, <1>4, ThrowOK
<1>5. {r \in RowsOf(t) : rows[ClaimOf(t)][r] > 0} \in SUBSET Rows
  BY <1>1, RowsOfFacts DEF TaskTyped
<1> QED BY <1>3, <1>4, <1>5 DEF FindRows

LEMMA SaveRowsOK ==
  ASSUME RowsOK, PayoutAfterRewards, Tasks, NEW t \in tasks, SaveRows(t)
  PROVE  TaskStepOK
<1>1. TaskTyped(t) /\ TaskOK(t)
  BY DEF Tasks, TasksTyped, TasksOK
<1>2. UNCHANGED skipped
  BY DEF SaveRows
<1>3. RowsOf(t) \subseteq Rows
  BY <1>1, RowsOfFacts DEF TaskTyped
<1>4. ASSUME NEW some \in SUBSET RowsOf(t), Insert(t, some)
      PROVE  /\ Grows /\ RowsOK' /\ PayoutAfterRewards'
             /\ \A r \in some : rows'[ClaimOf(t)][r] > 0
  <2>1. some \in SUBSET Rows
    BY <1>3
  <2>2. PayoutAfterRewards'
    BY <1>1, <1>4, InsertKeepsOrder
  <2>3. Grows /\ RowsOK' /\ \A r \in some : rows'[ClaimOf(t)][r] > 0
    BY <1>1, <1>2, <1>4, <2>1, InsertFills DEF Grows, RowsOK
  <2> QED BY <2>2, <2>3
<1>5. CASE Throw(t) /\ \E some \in SUBSET (RowsOf(t) \ t.seen) : Insert(t, some)
  <2>1. Grows /\ RowsOK' /\ PayoutAfterRewards'
    BY <1>4, <1>5
  <2> QED BY <1>5, <2>1, ThrowOK
<1>6. ASSUME UNCHANGED job, Insert(t, RowsOf(t) \ t.seen),
             IF t.write < Len(Writes)
             THEN Becomes(t, [t EXCEPT !.step = "find", !.write = @ + 1, !.seen = {}])
             ELSE NextCall(t)
      PROVE  TaskStepOK
  <2>1. /\ Grows /\ RowsOK' /\ PayoutAfterRewards'
        /\ \A r \in RowsOf(t) \ t.seen : rows'[ClaimOf(t)][r] > 0
    BY <1>4, <1>6
  <2>2. TaskOK(t)'
    BY <1>1, <2>1, TaskStaysOK
  <2>3. \A r \in RowsOf(t) \cup RowsBefore(t) : rows'[ClaimOf(t)][r] > 0
    BY <2>1, <2>2 DEF TaskOK
  <2>4. t.write \in 1 .. 3
    BY <1>1, TaskFacts
  <2>5. CASE t.write < 3
    <3> DEFINE u == [t EXCEPT !.step = "find", !.write = @ + 1, !.seen = {}]
    <3>1. Becomes(t, u)
      BY <1>6, <2>5, WriteFacts
    <3>2. u \in Task /\ u.x = t.x /\ u.n = t.n /\ u.write = t.write + 1 /\ u.seen = {} /\ u.own = t.own
      <4>1. t.write + 1 \in DOMAIN Writes
        BY <2>4, <2>5, WriteFacts
      <4>2. u = [t EXCEPT !.step = "find", !.write = t.write + 1, !.seen = {}]
        OBVIOUS
      <4>3. \A w \in DOMAIN Writes :
              LET v == [t EXCEPT !.step = "find", !.write = w, !.seen = {}]
              IN  v \in Task /\ v.x = t.x /\ v.n = t.n /\ v.write = w /\ v.seen = {} /\ v.own = t.own
        BY <1>1 DEF TaskTyped, Task
      <4> HIDE DEF u
      <4> QED BY <4>1, <4>2, <4>3
    <3> HIDE DEF u
    <3>3. ClaimOf(u) = ClaimOf(t)
      BY <3>2 DEF ClaimOf
    <3>4. RowsBefore(u) \subseteq RowsOf(t) \cup RowsBefore(t)
      <4>1. CASE t.write = 1
        BY <3>2, <3>3, <4>1, WriteFacts DEF RowsBefore, RowsOf
      <4>2. CASE t.write = 2
        BY <3>2, <3>3, <4>2, WriteFacts DEF RowsBefore, RowsOf
      <4> QED BY <2>4, <2>5, <4>1, <4>2
    <3>5. TaskTyped(u)
      BY <1>1, <3>2 DEF TaskTyped
    <3>6. TaskOK(u)'
      BY <2>2, <2>3, <3>2, <3>3, <3>4 DEF TaskOK
    <3>7. Tasks' /\ \A x \in Extrinsics : Covered(x) => Covered(x)'
      BY <2>1, <3>1, <3>2, <3>5, <3>6, BecomesOK
    <3> QED BY <1>6, <2>1, <3>7 DEF TaskStepOK
  <2>6. CASE t.write = 3
    <3>1. NextCall(t)
      BY <1>6, <2>6, WriteFacts
    <3>2. RowsBefore(t) = Rewarded(t.x) /\ Payout \in RowsOf(t)
      BY <1>1, <2>6, RowsOfFacts DEF RowsBefore, TaskTyped
    <3>3. CallsOf[t.x][t.n].ok => PaidBy[CallsOf[t.x][t.n].claim] \subseteq Rewarded(t.x)
      BY <1>1, TaskFacts, PaidAreRewarded DEF TaskTyped
    <3>4. Recorded(CallsOf[t.x][t.n])'
      BY <2>3, <3>2, <3>3 DEF Recorded, ClaimOf
    <3>5. Done(CallsOf[t.x][t.n])'
      BY <3>4 DEF Done
    <3>6. Tasks' /\ \A x \in Extrinsics : Covered(x) => Covered(x)'
      BY <2>1, <3>1, <3>5, NextCallOK
    <3> QED BY <1>6, <2>1, <3>6 DEF TaskStepOK
  <2> QED BY <2>4, <2>5, <2>6
<1> QED BY <1>5, <1>6 DEF SaveRows
-----------------------------------------------------------------------------
(* A step of the scan.                                                     *)

\* The part of TypeOK that is about the chain, the index and the loop.
LoopTyped ==
  /\ head \in Nat /\ index \in Interval \cup {NoIndex}
  /\ pc \in {"idle", "first", "forward", "backward"} /\ scanning \in BOOLEAN
  /\ target \in Nat /\ at \in Int /\ floor \in Int /\ faults \in Nat
  /\ index = NoIndex => pc \in {"idle", "first"}
  /\ target <= head /\ (scanning => at <= head)
  /\ index # NoIndex => (index.earliest <= index.latest /\ index.latest <= head)

LEMMA TypeParts == TypeOK <=> RowsOK /\ TasksTyped /\ LoopTyped
BY DEF TypeOK, RowsOK, TasksTyped, TaskTyped, LoopTyped

LEMMA IndexFacts ==
  ASSUME LoopTyped
  PROVE  index # NoIndex => index.earliest \in Int /\ index.latest \in Int
BY DEF LoopTyped, Interval

\* The payouts' part of the invariant stands as long as no row or task changes.
LEMMA PayoutsUnchanged ==
  ASSUME RowsOK, Tasks, PayoutAfterRewards, UNCHANGED <<rows, skipped, tasks>>
  PROVE  Grows /\ RowsOK' /\ Tasks' /\ PayoutAfterRewards'
<1>1. Grows
  BY UnchangedGrows
<1>2. Tasks'
  BY <1>1, TasksStayOK
<1> QED BY <1>1, <1>2, PayoutOrderUnchanged DEF RowsOK

LEMMA IndexedStaysRecorded ==
  ASSUME Grows, IndexRecorded, UNCHANGED index
  PROVE  IndexRecorded'
BY BlockStaysRecorded DEF IndexRecorded, Indexed

LEMMA AdjacentStays ==
  ASSUME Grows, LoopAdjacent, UNCHANGED <<index, job>>
  PROVE  LoopAdjacent'
BY BlockStaysRecorded DEF LoopAdjacent, LoopGoesOn, ToScan, job

\* A run that is over, or has failed, leaves nothing to keep but the rows.
LEMMA IdleOK ==
  ASSUME pc' = "idle", scanning' = FALSE
  PROVE  LoopAdjacent' /\ ScanCovered'
BY DEF LoopAdjacent, ScanCovered

\* A loop that starts from an end of the index has left nothing out.
LEMMA StartsAdjacent ==
  ASSUME LoopTyped, UNCHANGED index, index # NoIndex, scanning' = FALSE,
         \/ pc' = "forward" /\ at' = index.latest
         \/ pc' = "backward" /\ at' = index.earliest
  PROVE  LoopAdjacent' /\ ScanCovered'
<1>1. index.earliest \in Int /\ index.latest \in Int
  BY IndexFacts
<1>2. ScanCovered'
  BY DEF ScanCovered
<1>3. CASE pc' = "forward" /\ at' = index.latest
  <2>1. at' >= index.latest /\ (index.latest + 1) .. (at' - 1) = {}
    BY <1>1, <1>3
  <2> QED BY <1>2, <1>3, <2>1 DEF LoopAdjacent
<1>4. CASE pc' = "backward" /\ at' = index.earliest
  <2>1. at' <= index.earliest /\ (at' + 1) .. (index.earliest - 1) = {}
    BY <1>1, <1>4
  <2> QED BY <1>2, <1>4, <2>1 DEF LoopAdjacent
<1> QED BY <1>3, <1>4

Core == RowsOK /\ Tasks /\ PayoutAfterRewards
Loop == LoopTyped /\ ScanCovered /\ LoopAdjacent /\ IndexRecorded

LEMMA IndInvParts == IndInv <=> Core /\ Loop
BY TypeParts DEF IndInv, Core, Loop, Tasks

LEMMA GoBackwardOK ==
  ASSUME LoopTyped, index # NoIndex, NEW h \in Nat, GoBackward(h),
         scanning = FALSE, UNCHANGED <<index, scanning>>
  PROVE  /\ pc' \in {"idle", "backward"} /\ at' \in Int /\ floor' \in Int
         /\ LoopAdjacent' /\ ScanCovered'
<1>1. index.earliest \in Int /\ Threshold \in Int /\ at \in Int /\ floor \in Int
  BY IndexFacts, BlockIndexAssumption DEF LoopTyped
<1>2. CASE pc' = "idle" /\ UNCHANGED <<at, floor>>
  BY <1>1, <1>2, IdleOK
<1>3. CASE pc' = "backward" /\ at' = index.earliest /\ floor' = index.earliest - Threshold
  <2>1. scanning' = FALSE
    OBVIOUS
  <2>2. LoopAdjacent' /\ ScanCovered'
    BY <1>3, <2>1, StartsAdjacent
  <2> QED BY <1>1, <1>3, <2>2
<1> QED BY <1>2, <1>3 DEF GoBackward

LEMMA StartJobOK ==
  ASSUME Core, Loop, StartJob
  PROVE  Core' /\ Loop'
<1>1. UNCHANGED <<head, index, rows, skipped, scanning, tasks, faults>> /\ pc = "idle" /\ target' = head
  BY DEF StartJob
<1>2. Core' /\ Grows
  BY <1>1, PayoutsUnchanged DEF Core
<1>3. IndexRecorded'
  BY <1>1, <1>2, IndexedStaysRecorded DEF Loop
<1>4. scanning = FALSE /\ head \in Nat
  BY <1>1 DEF Loop, LoopAdjacent, LoopTyped
<1>5. CASE index = NoIndex /\ pc' = "first" /\ at' = head /\ UNCHANGED floor
  <2>1. LoopTyped'
    BY <1>1, <1>4, <1>5 DEF Loop, LoopTyped
  <2>2. LoopAdjacent' /\ ScanCovered'
    BY <1>1, <1>4, <1>5 DEF LoopAdjacent, ScanCovered
  <2> QED BY <1>2, <1>3, <2>1, <2>2 DEF Loop
<1>6. CASE index # NoIndex /\ pc' = "forward" /\ at' = index.latest /\ UNCHANGED floor
  <2>1. LoopAdjacent' /\ ScanCovered'
    BY <1>1, <1>4, <1>6, StartsAdjacent DEF Loop
  <2>2. index.latest \in Int
    BY <1>6, IndexFacts DEF Loop
  <2>3. LoopTyped'
    BY <1>1, <1>4, <1>6, <2>2 DEF Loop, LoopTyped
  <2> QED BY <1>2, <1>3, <2>1, <2>3 DEF Loop
<1>7. CASE index # NoIndex /\ GoBackward(head)
  <2>1. /\ pc' \in {"idle", "backward"} /\ at' \in Int /\ floor' \in Int
        /\ LoopAdjacent' /\ ScanCovered'
    BY <1>1, <1>4, <1>7, GoBackwardOK DEF Loop
  <2>2. LoopTyped'
    BY <1>1, <1>4, <1>7, <2>1 DEF Loop, LoopTyped
  <2> QED BY <1>2, <1>3, <2>1, <2>2 DEF Loop
<1> QED BY <1>5, <1>6, <1>7 DEF StartJob

LEMMA JobFailsOK ==
  ASSUME Loop, Grows, JobFails, UNCHANGED <<head, index>>, Fault \/ NoFault
  PROVE  Loop'
<1>1. IndexRecorded'
  BY IndexedStaysRecorded DEF Loop
<1>2. LoopAdjacent' /\ ScanCovered'
  BY IdleOK DEF JobFails
<1>3. LoopTyped'
  BY FaultsCounted DEF Loop, LoopTyped, JobFails
<1> QED BY <1>1, <1>2, <1>3 DEF Loop

LEMMA TurnOK ==
  ASSUME Core, Loop, Turn
  PROVE  Core' /\ Loop'
<1>1. UNCHANGED <<head, index, rows, skipped, tasks>> /\ pc # "idle" /\ scanning = FALSE
      /\ (Fault \/ NoFault)
  BY DEF Turn, Loop, LoopTyped
<1>2. Core' /\ Grows
  BY <1>1, PayoutsUnchanged DEF Core
<1>3. IndexRecorded' /\ faults' \in Nat
  BY <1>1, <1>2, IndexedStaysRecorded, FaultsCounted DEF Loop, LoopTyped
<1>4. CASE /\ IF pc = "forward" THEN GoBackward(target)
              ELSE pc' = "idle" /\ UNCHANGED <<at, floor>>
           /\ UNCHANGED <<target, scanning>>
  <2>1. CASE pc = "forward"
    <3>1. index # NoIndex /\ target \in Nat
      BY <2>1 DEF Loop, LoopTyped
    <3>2. /\ pc' \in {"idle", "backward"} /\ at' \in Int /\ floor' \in Int
          /\ LoopAdjacent' /\ ScanCovered'
      BY <1>1, <1>4, <2>1, <3>1, GoBackwardOK DEF Loop
    <3>3. LoopTyped'
      BY <1>1, <1>3, <1>4, <3>1, <3>2 DEF Loop, LoopTyped
    <3> QED BY <1>2, <1>3, <3>2, <3>3 DEF Loop
  <2>2. CASE pc # "forward"
    <3>1. pc' = "idle" /\ UNCHANGED <<at, floor, target, scanning>>
      BY <1>4, <2>2
    <3>2. LoopAdjacent' /\ ScanCovered'
      BY <1>1, <3>1, IdleOK
    <3>3. LoopTyped'
      BY <1>1, <1>3, <3>1 DEF Loop, LoopTyped
    <3> QED BY <1>2, <1>3, <3>2, <3>3 DEF Loop
  <2> QED BY <2>1, <2>2
<1>5. CASE LoopGoesOn /\ ~ToScan /\ NextBlock /\ UNCHANGED <<pc, target, floor, scanning>>
  <2>1. pc \in {"forward", "backward"}
    BY <1>1, <1>5 DEF Loop, LoopTyped, ToScan
  <2>2. index # NoIndex /\ at \in Int
    BY <2>1 DEF Loop, LoopTyped
  <2>3. index.earliest \in Int /\ index.latest \in Int
    BY <2>2, IndexFacts DEF Loop
  <2>4. LoopAdjacent' /\ ScanCovered'
    <3>1. CASE pc = "forward"
      <4>1. at >= index.latest /\ at <= index.latest
        BY <1>5, <2>2, <2>3, <3>1 DEF Loop, LoopAdjacent, ToScan
      <4>2. at' = index.latest + 1
        BY <1>5, <2>2, <2>3, <3>1, <4>1 DEF NextBlock
      <4>3. at' >= index.latest /\ (index.latest + 1) .. (at' - 1) = {}
        BY <2>3, <4>2
      <4> QED BY <1>1, <1>5, <3>1, <4>3 DEF LoopAdjacent, ScanCovered
    <3>2. CASE pc = "backward"
      <4>1. at <= index.earliest /\ at >= index.earliest
        BY <1>5, <2>2, <2>3, <3>2 DEF Loop, LoopAdjacent, ToScan
      <4>2. at' = index.earliest - 1
        BY <1>5, <2>2, <2>3, <3>2, <4>1 DEF NextBlock
      <4>3. at' <= index.earliest /\ (at' + 1) .. (index.earliest - 1) = {}
        BY <2>3, <4>2
      <4> QED BY <1>1, <1>5, <3>2, <4>3 DEF LoopAdjacent, ScanCovered
    <3> QED BY <2>1, <3>1, <3>2
  <2>5. at' \in Int
    BY <1>5, <2>2 DEF NextBlock
  <2>6. LoopTyped'
    BY <1>1, <1>3, <1>5, <2>5 DEF Loop, LoopTyped
  <2> QED BY <1>2, <1>3, <2>4, <2>6 DEF Loop
<1>6. CASE JobFails
  BY <1>1, <1>2, <1>6, JobFailsOK
<1> QED BY <1>4, <1>5, <1>6 DEF Turn

LEMMA ProcessBlockOK ==
  ASSUME Core, Loop, ProcessBlock
  PROVE  Core' /\ Loop'
<1>1. /\ UNCHANGED <<head, index, rows, pc, target, at, floor>> /\ scanning' = TRUE
      /\ pc # "idle" /\ LoopGoesOn /\ ToScan /\ scanning = FALSE /\ (Fault \/ NoFault)
  BY DEF ProcessBlock, Loop, LoopTyped
<1>2. In(at) \subseteq Extrinsics /\ In(at)' = In(at)
  BY <1>1 DEF In
<1>3. Grows /\ RowsOK' /\ Tasks' /\ \A x \in In(at) : Covered(x)'
  <2>1. CASE /\ UNCHANGED skipped
             /\ tasks' = tasks \cup {Begin(x, 1) : x \in {y \in In(at) : CallsOf[y] # <<>>}}
    <3>1. Grows /\ RowsOK'
      BY <1>1, <2>1, UnchangedGrows DEF Core, RowsOK
    <3>2. ASSUME NEW x \in In(at)
          PROVE  1 \in DOMAIN CallsOf[x] \/ DOMAIN CallsOf[x] = {}
      BY <1>2, CallFacts
    <3>3. ASSUME NEW x \in In(at), CallsOf[x] # <<>>
          PROVE  TaskTyped(Begin(x, 1)) /\ TaskOK(Begin(x, 1))' /\ Begin(x, 1).x = x /\ Begin(x, 1).own
      <4>1. 1 \in DOMAIN CallsOf[x]
        <5>1. CallsOf[x] \in Seq(Call)
          BY <1>2, BlockIndexAssumption
        <5> QED BY <3>3, <5>1
      <4>2. /\ Begin(x, 1) \in Task /\ Begin(x, 1).x = x /\ Begin(x, 1).own /\ Begin(x, 1).n = 1
            /\ Begin(x, 1).seen = {} /\ Begin(x, 1).write = 1
        BY <1>2, WriteFacts DEF Begin, Task
      <4>3. RowsBefore(Begin(x, 1)) = {}
        BY <4>2 DEF RowsBefore
      <4> QED BY <4>1, <4>2, <4>3 DEF TaskTyped, TaskOK
    <3>4. \A u \in tasks' : TaskTyped(u) /\ TaskOK(u)'
      BY <2>1, <3>1, <3>3, TaskStaysOK DEF Core, Tasks, TasksTyped, TasksOK
    <3>5. Tasks'
      BY <3>4 DEF Tasks, TasksTyped, TasksOK, TaskTyped
    <3>6. ASSUME NEW x \in In(at) PROVE Covered(x)'
      <4>1. CASE CallsOf[x] # <<>>
        <5>1. Begin(x, 1) \in tasks'
          BY <2>1, <4>1
        <5> QED BY <3>3, <4>1, <5>1 DEF Covered
      <4>2. CASE CallsOf[x] = <<>>
        BY <4>2 DEF Covered
      <4> QED BY <4>1, <4>2
    <3> QED BY <3>1, <3>5, <3>6
  <2>2. CASE skipped' = skipped \cup UNION {ClaimsOf(x) : x \in In(at)} /\ UNCHANGED tasks
    <3>1. \A x \in In(at) : ClaimsOf(x) \subseteq Claims
      BY <1>2, CallFacts DEF ClaimsOf
    <3>2. Grows /\ RowsOK'
      BY <1>1, <2>2, <3>1 DEF Core, RowsOK, Grows
    <3>3. Tasks'
      BY <2>2, <3>2, TasksStayOK DEF Core
    <3>4. ASSUME NEW x \in In(at), NEW n \in DOMAIN CallsOf[x] PROVE Done(CallsOf[x][n])'
      BY <2>2 DEF Done, ClaimsOf
    <3> QED BY <3>2, <3>3, <3>4 DEF Covered
  <2> QED BY <2>1, <2>2 DEF ProcessBlock
<1>4. PayoutAfterRewards' /\ IndexRecorded'
  BY <1>1, <1>3, PayoutOrderUnchanged, IndexedStaysRecorded DEF Core, Loop
<1>5. ScanCovered'
  BY <1>2, <1>3 DEF ScanCovered
<1>6. LoopAdjacent'
  <2>1. LoopGoesOn' /\ ToScan'
    BY <1>1 DEF LoopGoesOn, ToScan
  <2>2. \A b : BlockRecorded(b) => BlockRecorded(b)'
    BY <1>3, BlockStaysRecorded
  <2> QED BY <1>1, <2>1, <2>2 DEF Loop, LoopAdjacent
<1>7. at <= head
  <2>1. at \in Int /\ target \in Int /\ head \in Int /\ target <= head
    BY DEF Loop, LoopTyped
  <2>2. CASE pc \in {"first", "forward"}
    BY <1>1, <2>1, <2>2 DEF LoopGoesOn
  <2>3. CASE pc = "backward"
    <3>1. index # NoIndex /\ at <= index.earliest /\ index.earliest <= index.latest /\ index.latest <= head
      BY <2>3 DEF Loop, LoopTyped, LoopAdjacent
    <3>2. index.earliest \in Int /\ index.latest \in Int
      BY <3>1, IndexFacts DEF Loop
    <3> QED BY <2>1, <3>1, <3>2
  <2> QED BY <1>1, <2>2, <2>3 DEF Loop, LoopTyped
<1>8. LoopTyped'
  BY <1>1, <1>7, FaultsCounted DEF Loop, LoopTyped
<1> QED BY <1>3, <1>4, <1>5, <1>6, <1>8 DEF Core, Loop

\* The index after it is widened by the block of the loop.
LEMMA WidenedFacts ==
  ASSUME Loop, scanning
  PROVE  /\ Widened(at) \in Interval /\ Widened(at) # NoIndex
         /\ index = NoIndex => Widened(at).earliest = at /\ Widened(at).latest = at
         /\ pc = "forward" => index # NoIndex /\ Widened(at).earliest = index.earliest /\ Widened(at).latest = at
                              /\ index.latest < at
         /\ pc = "backward" => index # NoIndex /\ Widened(at).earliest = at /\ Widened(at).latest = index.latest
                              /\ at < index.earliest
         /\ pc = "first" => index = NoIndex
         /\ pc \in {"first", "forward", "backward"}
<1>1. at \in Int /\ target \in Nat /\ ToScan /\ LoopGoesOn /\ pc \in {"first", "forward", "backward"}
  BY DEF Loop, LoopTyped, LoopAdjacent
<1>2. Widened(at) \in Interval
  BY <1>1, IndexFacts DEF Loop, Widened, Interval
<1>3. Widened(at) # NoIndex
  BY <1>2, BlockIndexAssumption DEF Interval
<1>4. index = NoIndex => Widened(at).earliest = at /\ Widened(at).latest = at
  BY DEF Widened
<1>5. pc = "first" => index = NoIndex
  <2>1. at # target + 1 \/ pc # "first"
    BY <1>1 DEF LoopGoesOn
  <2> QED BY <2>1 DEF Loop, LoopAdjacent
<1>6. ASSUME pc \in {"forward", "backward"}
      PROVE  /\ index # NoIndex /\ index.earliest \in Int /\ index.latest \in Int
             /\ index.earliest <= index.latest
  BY <1>6, IndexFacts DEF Loop, LoopTyped
<1>7. CASE pc = "forward"
  <2>1. at > index.latest
    BY <1>1, <1>7 DEF ToScan
  <2>2. Widened(at).earliest = index.earliest /\ Widened(at).latest = at
    BY <1>1, <1>6, <1>7, <2>1 DEF Widened
  <2> QED BY <1>1, <1>2, <1>3, <1>4, <1>5, <1>6, <1>7, <2>1, <2>2
<1>8. CASE pc = "backward"
  <2>1. at < index.earliest
    BY <1>1, <1>8 DEF ToScan
  <2>2. Widened(at).earliest = at /\ Widened(at).latest = index.latest
    BY <1>1, <1>6, <1>8, <2>1 DEF Widened
  <2> QED BY <1>1, <1>2, <1>3, <1>4, <1>5, <1>6, <1>8, <2>1, <2>2
<1> QED BY <1>1, <1>2, <1>3, <1>4, <1>5, <1>7, <1>8

LEMMA BlockDoneOK ==
  ASSUME Core, Loop, BlockDone
  PROVE  Core' /\ Loop'
<1>1. UNCHANGED <<head, rows, skipped, tasks>> /\ scanning /\ ~Waiting /\ (Fault \/ NoFault)
  BY DEF BlockDone
<1>2. Core' /\ Grows
  BY <1>1, PayoutsUnchanged DEF Core
<1>3. \A b : BlockRecorded(b) => BlockRecorded(b)'
  BY <1>2, BlockStaysRecorded
<1>4. BlockRecorded(at)
  BY <1>1 DEF Loop, ScanCovered, Covered, Waiting, BlockRecorded
<1>5. at \in Int /\ at <= head /\ target \in Nat /\ faults' \in Nat
  BY <1>1, FaultsCounted DEF Loop, LoopTyped
<1>6. CASE JobFails /\ UNCHANGED index
  BY <1>1, <1>2, <1>6, JobFailsOK
<1>7. CASE /\ index' = Widened(at) \/ UNCHANGED index
           /\ scanning' = FALSE /\ NextBlock /\ UNCHANGED <<pc, target, floor>>
  <2>1. ScanCovered' /\ at' \in Int
    BY <1>5, <1>7 DEF ScanCovered, NextBlock
  <2>2. CASE index' = Widened(at)
    <3>1. Widened(at) \in Interval /\ Widened(at).earliest \in Int /\ Widened(at).latest \in Int
      BY <1>1, WidenedFacts DEF Interval
    <3>2. CASE index = NoIndex
      <4>1. pc = "first" /\ index' # NoIndex /\ index'.earliest = at /\ index'.latest = at
        BY <1>1, <2>2, <3>2, WidenedFacts
      <4>2. IndexRecorded'
        <5> SUFFICES ASSUME NEW b \in Int, b \in at .. at PROVE BlockRecorded(b)'
          BY <4>1 DEF IndexRecorded, Indexed
        <5>1. b = at
          BY <1>5
        <5> QED BY <1>3, <1>4, <5>1
      <4>3. at = target
        BY <1>1, <4>1 DEF Loop, LoopAdjacent, LoopGoesOn
      <4>4. at' = target + 1
        BY <1>7, <4>1, <4>3 DEF NextBlock
      <4>5. LoopAdjacent'
        BY <1>7, <4>1, <4>4 DEF LoopAdjacent
      <4>6. index'.earliest <= index'.latest /\ index'.latest <= head
        BY <1>5, <4>1
      <4>7. LoopTyped'
        BY <1>1, <1>5, <1>7, <2>1, <2>2, <3>1, <4>1, <4>6 DEF Loop, LoopTyped
      <4> QED BY <1>2, <2>1, <4>2, <4>5, <4>7 DEF Loop
    <3>3. CASE index # NoIndex
      <4>1. index.earliest \in Int /\ index.latest \in Int /\ index.earliest <= index.latest
            /\ index.latest <= head /\ head \in Int
        BY <3>3, IndexFacts DEF Loop, LoopTyped
      <4>2. \A b \in Int : b \in index.earliest .. index.latest => BlockRecorded(b)
        BY <3>3 DEF Loop, IndexRecorded, Indexed
      <4>3. CASE pc = "forward"
        <5>1. index' # NoIndex /\ index'.earliest = index.earliest /\ index'.latest = at /\ index.latest < at
          BY <1>1, <2>2, <4>3, WidenedFacts
        <5>2. \A b \in index.latest + 1 .. at - 1 : BlockRecorded(b)
          BY <4>3 DEF Loop, LoopAdjacent
        <5>3. \A b \in Int : b \in index.earliest .. at => BlockRecorded(b)
          <6> SUFFICES ASSUME NEW b \in Int, b \in index.earliest .. at PROVE BlockRecorded(b)
            OBVIOUS
          <6>1. b \in index.earliest .. index.latest \/ b \in index.latest + 1 .. at - 1 \/ b = at
            BY <1>5, <4>1
          <6> QED BY <1>4, <4>2, <5>2, <6>1
        <5>4. IndexRecorded'
          BY <1>3, <5>1, <5>3 DEF IndexRecorded, Indexed
        <5>5. at' >= index'.latest /\ (index'.latest + 1) .. (at' - 1) = {}
          BY <1>5, <1>7, <4>3, <5>1 DEF NextBlock
        <5>6. LoopAdjacent'
          BY <1>7, <4>3, <5>5 DEF LoopAdjacent
        <5>7. index'.earliest <= index'.latest /\ index'.latest <= head
          BY <1>5, <4>1, <5>1
        <5>8. LoopTyped'
          BY <1>1, <1>5, <1>7, <2>1, <2>2, <3>1, <5>1, <5>7 DEF Loop, LoopTyped
        <5> QED BY <1>2, <2>1, <5>4, <5>6, <5>8 DEF Loop
      <4>4. CASE pc = "backward"
        <5>1. index' # NoIndex /\ index'.earliest = at /\ index'.latest = index.latest /\ at < index.earliest
          BY <1>1, <2>2, <4>4, WidenedFacts
        <5>2. \A b \in at + 1 .. index.earliest - 1 : BlockRecorded(b)
          BY <4>4 DEF Loop, LoopAdjacent
        <5>3. \A b \in Int : b \in at .. index.latest => BlockRecorded(b)
          <6> SUFFICES ASSUME NEW b \in Int, b \in at .. index.latest PROVE BlockRecorded(b)
            OBVIOUS
          <6>1. b \in index.earliest .. index.latest \/ b \in at + 1 .. index.earliest - 1 \/ b = at
            BY <1>5, <4>1
          <6> QED BY <1>4, <4>2, <5>2, <6>1
        <5>4. IndexRecorded'
          BY <1>3, <5>1, <5>3 DEF IndexRecorded, Indexed
        <5>5. at' <= index'.earliest /\ (at' + 1) .. (index'.earliest - 1) = {}
          BY <1>5, <1>7, <4>4, <5>1 DEF NextBlock
        <5>6. LoopAdjacent'
          BY <1>7, <4>4, <5>5 DEF LoopAdjacent
        <5>7. index'.earliest <= index'.latest /\ index'.latest <= head
          BY <1>5, <4>1, <5>1
        <5>8. LoopTyped'
          BY <1>1, <1>5, <1>7, <2>1, <2>2, <3>1, <5>1, <5>7 DEF Loop, LoopTyped
        <5> QED BY <1>2, <2>1, <5>4, <5>6, <5>8 DEF Loop
      <4> QED BY <1>1, <3>3, <4>3, <4>4, WidenedFacts
    <3> QED BY <3>2, <3>3
  <2>3. CASE UNCHANGED index
    <3>1. IndexRecorded'
      BY <1>2, <2>3, IndexedStaysRecorded DEF Loop
    <3>2. LoopTyped'
      BY <1>1, <1>5, <1>7, <2>1, <2>3 DEF Loop, LoopTyped
    <3>3. LoopAdjacent'
      <4>1. CASE pc = "first"
        BY <1>1, <1>7, <2>3, <4>1, WidenedFacts DEF LoopAdjacent
      <4>2. CASE pc = "forward"
        <5>1. index # NoIndex /\ index.latest < at /\ index.latest \in Int
          BY <1>1, <4>2, WidenedFacts, IndexFacts DEF Loop
        <5>2. at' = at + 1 /\ at' >= index.latest
          BY <1>5, <1>7, <4>2, <5>1 DEF NextBlock
        <5>3. \A b \in index.latest + 1 .. at' - 1 : BlockRecorded(b)
          <6> SUFFICES ASSUME NEW b \in index.latest + 1 .. at' - 1 PROVE BlockRecorded(b)
            OBVIOUS
          <6>1. b \in index.latest + 1 .. at - 1 \/ b = at
            BY <1>5, <5>1, <5>2
          <6> QED BY <1>4, <4>2, <6>1 DEF Loop, LoopAdjacent
        <5> QED BY <1>3, <1>7, <2>3, <4>2, <5>2, <5>3 DEF LoopAdjacent
      <4>3. CASE pc = "backward"
        <5>1. index # NoIndex /\ at < index.earliest /\ index.earliest \in Int
          BY <1>1, <4>3, WidenedFacts, IndexFacts DEF Loop
        <5>2. at' = at - 1 /\ at' <= index.earliest
          BY <1>5, <1>7, <4>3, <5>1 DEF NextBlock
        <5>3. \A b \in at' + 1 .. index.earliest - 1 : BlockRecorded(b)
          <6> SUFFICES ASSUME NEW b \in at' + 1 .. index.earliest - 1 PROVE BlockRecorded(b)
            OBVIOUS
          <6>1. b \in at + 1 .. index.earliest - 1 \/ b = at
            BY <1>5, <5>1, <5>2
          <6> QED BY <1>4, <4>3, <6>1 DEF Loop, LoopAdjacent
        <5> QED BY <1>3, <1>7, <2>3, <4>3, <5>2, <5>3 DEF LoopAdjacent
      <4> QED BY <1>1, <4>1, <4>2, <4>3, WidenedFacts
    <3> QED BY <1>2, <2>1, <3>1, <3>2, <3>3 DEF Loop
  <2> QED BY <1>7, <2>2, <2>3
<1> QED BY <1>6, <1>7 DEF BlockDone

\* A step of a task keeps the scan's part of the invariant.
LEMMA ProcessOK ==
  ASSUME Core, Loop, NEW t \in tasks, Process(t)
  PROVE  Core' /\ Loop'
<1>1. TaskStepOK
  BY ReadContextOK, FindRowsOK, SaveRowsOK DEF Process, Core
<1>2. UNCHANGED <<head, index>> /\ (Fault \/ NoFault)
  BY DEF Process, ReadContext, FindRows, SaveRows
<1>3. Core' /\ Grows
  BY <1>1 DEF TaskStepOK, Core
<1>4. CASE JobFails
  BY <1>2, <1>3, <1>4, JobFailsOK
<1>5. CASE UNCHANGED job /\ \A x \in Extrinsics : Covered(x) => Covered(x)'
  <2>1. LoopAdjacent' /\ IndexRecorded'
    BY <1>2, <1>3, <1>5, AdjacentStays, IndexedStaysRecorded DEF Loop
  <2>2. ScanCovered'
    BY <1>5 DEF Loop, ScanCovered, In, job
  <2>3. LoopTyped'
    BY <1>2, <1>5, FaultsCounted DEF Loop, LoopTyped, job
  <2> QED BY <1>3, <2>1, <2>2, <2>3 DEF Loop
<1> QED BY <1>1, <1>4, <1>5 DEF TaskStepOK

LEMMA NewBlockOK ==
  ASSUME Core, Loop, NewBlock \/ UNCHANGED vars
  PROVE  Core' /\ Loop'
<1>1. UNCHANGED <<index, rows, skipped, job, tasks, faults>> /\ head' \in {head, head + 1}
  BY DEF NewBlock, vars
<1>2. Core' /\ Grows
  BY <1>1, PayoutsUnchanged DEF Core
<1>3. LoopAdjacent' /\ IndexRecorded'
  BY <1>1, <1>2, AdjacentStays, IndexedStaysRecorded DEF Loop
<1>4. ScanCovered'
  BY <1>1 DEF Loop, ScanCovered, Covered, Done, Recorded, In, job
<1>5. LoopTyped'
  <2>1. head \in Nat /\ head' \in Nat /\ head <= head'
    BY <1>1 DEF Loop, LoopTyped
  <2>2. target <= head' /\ (at \in Int /\ at <= head => at <= head')
    BY <2>1 DEF Loop, LoopTyped
  <2>3. index # NoIndex => index.latest <= head'
    <3>1. index # NoIndex => index.latest <= head /\ index.latest \in Int
      BY IndexFacts DEF Loop, LoopTyped
    <3> QED BY <2>1, <3>1
  <2> QED BY <1>1, <2>1, <2>2, <2>3 DEF Loop, LoopTyped, job
<1> QED BY <1>2, <1>3, <1>4, <1>5 DEF Loop

LEMMA CrashOK ==
  ASSUME Core, Loop, Crash
  PROVE  Core' /\ Loop'
<1>1. UNCHANGED <<head, index, rows, skipped, target, at, floor>> /\ pc' = "idle" /\ scanning' = FALSE
      /\ tasks' = {} /\ Fault
  BY DEF Crash
<1>2. Grows /\ RowsOK' /\ PayoutAfterRewards'
  BY <1>1, UnchangedGrows, PayoutOrderUnchanged DEF Core, RowsOK
<1>3. Tasks'
  BY <1>1 DEF Tasks, TasksTyped, TasksOK
<1>4. IndexRecorded'
  BY <1>1, <1>2, IndexedStaysRecorded DEF Loop
<1>5. LoopAdjacent' /\ ScanCovered'
  BY <1>1, IdleOK
<1>6. LoopTyped'
  BY <1>1, FaultsCounted DEF Loop, LoopTyped
<1> QED BY <1>2, <1>3, <1>4, <1>5, <1>6 DEF Core, Loop
-----------------------------------------------------------------------------
LEMMA InitOK == Init => IndInv
<1> SUFFICES ASSUME Init PROVE Core /\ Loop
  BY IndInvParts
<1>1. RowsOK
  BY DEF Init, RowsOK
<1>2. Tasks
  BY DEF Init, Tasks, TasksTyped, TasksOK
<1>3. PayoutAfterRewards
  <2>1. \A c \in Claims : rows[c][Payout] = 0
    BY PayoutIsNoStaker DEF Init
  <2> QED BY <2>1 DEF PayoutAfterRewards
<1>4. LoopTyped
  <2>1. head \in Nat /\ target \in Nat /\ target <= head /\ at \in Int /\ floor \in Int /\ faults \in Nat
    BY DEF Init
  <2>2. index = NoIndex /\ pc = "idle" /\ scanning = FALSE
    BY DEF Init
  <2> QED BY <2>1, <2>2 DEF LoopTyped
<1>5. ScanCovered /\ LoopAdjacent
  BY DEF Init, ScanCovered, LoopAdjacent
<1>6. IndexRecorded
  BY DEF Init, IndexRecorded, Indexed
<1> QED BY <1>1, <1>2, <1>3, <1>4, <1>5, <1>6 DEF Core, Loop

LEMMA NextOK == IndInv /\ [Next]_vars => IndInv'
<1> SUFFICES ASSUME Core, Loop, [Next]_vars PROVE Core' /\ Loop'
  <2>1. IndInv' <=> Core' /\ Loop'
    BY IndInvParts, PTL
  <2> QED BY <2>1, IndInvParts
<1>1. CASE StartJob
  BY <1>1, StartJobOK
<1>2. CASE Turn
  BY <1>2, TurnOK
<1>3. CASE ProcessBlock
  BY <1>3, ProcessBlockOK
<1>4. CASE BlockDone
  BY <1>4, BlockDoneOK
<1>5. CASE \E t \in tasks : Process(t)
  BY <1>5, ProcessOK
<1>6. CASE NewBlock \/ UNCHANGED vars
  BY <1>6, NewBlockOK
<1>7. CASE Crash
  BY <1>7, CrashOK
<1> QED BY <1>1, <1>2, <1>3, <1>4, <1>5, <1>6, <1>7 DEF Next

LEMMA Inductive == Spec => []IndInv
<1> QED BY InitOK, NextOK, PTL DEF Spec

\* The variables of the block job hold values of their kinds, and it never scans a block the
\* chain does not have yet (TypeOK), for any claims, batches, chain length and faults.
THEOREM BlockIndexTyped == Spec => []TypeOK
<1>1. IndInv => TypeOK
  BY DEF IndInv
<1> QED BY <1>1, Inductive, PTL

\* The row of a payout never stands without its reward rows (setPayoutTransaction after
\* setReward), whatever throws and however many abandoned extrinsics still write.
THEOREM PayoutRowComesLast == Spec => []PayoutAfterRewards
<1>1. IndInv => PayoutAfterRewards
  BY DEF IndInv
<1> QED BY <1>1, Inductive, PTL

\* Every payout of a block within the recorded interval is recorded, unless it was skipped:
\* setBlockIndex never takes in a block that was not processed to its end.
THEOREM IndexTellsTheTruth == Spec => []IndexedIsRecorded
<1>1. IndInv => IndexedIsRecorded
  <2> SUFFICES ASSUME IndInv, NEW x \in Extrinsics, Indexed(BlockOf[x])
               PROVE  \A n \in DOMAIN CallsOf[x] :
                        CallsOf[x][n].claim \in skipped \/ Recorded(CallsOf[x][n])
    BY DEF IndexedIsRecorded
  <2>1. BlockOf[x] \in Int /\ x \in In(BlockOf[x])
    BY BlockIndexAssumption DEF In
  <2>2. BlockRecorded(BlockOf[x])
    BY <2>1 DEF IndInv, IndexRecorded
  <2> QED BY <2>1, <2>2 DEF BlockRecorded, Done
<1> QED BY <1>1, Inductive, PTL
-----------------------------------------------------------------------------
(* The scan keeps the promise of its records.                              *)

\* A block all of whose calls are done with is scanned, as the promise has it.
LEMMA RecordedIsScanned ==
  ASSUME NEW b \in Int, BlockRecorded(b)
  PROVE  Promise!Scanned(b)
<1> DEFINE calls == UNION {{CallsOf[x][n] : n \in DOMAIN CallsOf[x]} : x \in In(b)}
<1>1. SUFFICES ASSUME NEW k \in calls PROVE Promise!DoneWith(k)
  BY DEF Promise!Scanned
<1>2. PICK x \in In(b) : \E n \in DOMAIN CallsOf[x] : k = CallsOf[x][n]
  BY <1>1
<1>3. Done(k) /\ k.claim \in Claims
  BY <1>2, CallFacts DEF BlockRecorded, In
<1>4. PaidBy[k.claim] \subseteq Rows /\ Payout \in Rows
  BY <1>3, PaidAreStakers, PayoutIsNoStaker
<1>5. \A r \in Rows : rows[k.claim][r] > 0
        => <<k.claim, r>> \in {j \in Claims \X Rows : rows[j[1]][j[2]] > 0}
  BY <1>3
<1> QED BY <1>3, <1>4, <1>5 DEF Promise!DoneWith, Done, Recorded

LEMMA RowsAsPromised == Promise!Rows = Rows
BY DEF Promise!Rows, Rows, Stakers

LEMMA ScanPromiseInit == Init => Promise!Init
<1> SUFFICES ASSUME Init PROVE Promise!Init
  OBVIOUS
<1>1. \A c \in Claims : \A r \in Rows : rows[c][r] = 0
  BY DEF Init
<1>2. {k \in Claims \X Rows : rows[k[1]][k[2]] > 0} = {}
  BY <1>1
<1> QED BY <1>2 DEF Init, Promise!Init

\* What a task inserts is stored for its claim, the payout last.
LEMMA InsertStores ==
  ASSUME RowsOK, PayoutAfterRewards, NEW t, TaskTyped(t), TaskOK(t),
         NEW some \in SUBSET RowsOf(t), Insert(t, some), UNCHANGED <<head, index, skipped>>
  PROVE  Promise!Next
<1>1. some \in SUBSET Rows
  BY RowsOfFacts DEF TaskTyped
<1>2. /\ ClaimOf(t) \in Claims
      /\ \A d \in Claims : \A r \in Rows : rows[d][r] > 0 => rows'[d][r] > 0
      /\ \A r \in some : rows'[ClaimOf(t)][r] > 0
      /\ \A d \in Claims : \A r \in Rows :
           d # ClaimOf(t) \/ r \notin some => rows'[d][r] = rows[d][r]
  BY <1>1, InsertFills, TaskFacts
\* fixed values, for what is said of them in the next state
<1>3. PICK c \in Claims, new \in SUBSET Rows : c = ClaimOf(t) /\ new = some
  BY <1>1, <1>2
<1>4. {k \in Claims \X Rows : rows[k[1]][k[2]] > 0}'
        = {k \in Claims \X Rows : rows[k[1]][k[2]] > 0} \cup ({c} \X new)
  <2>1. \A d \in Claims : \A r \in Rows :
          rows'[d][r] > 0 <=> rows[d][r] > 0 \/ (d = c /\ r \in new)
    BY <1>2, <1>3
  <2>2. {k \in Claims \X Rows : rows[k[1]][k[2]] > 0}' = {k \in Claims \X Rows : rows'[k[1]][k[2]] > 0}
    OBVIOUS
  <2>3. \A k \in Claims \X Rows : k \in {c} \X new <=> k[1] = c /\ k[2] \in new
    OBVIOUS
  <2>4. \A k \in Claims \X Rows : rows'[k[1]][k[2]] > 0 <=> (rows[k[1]][k[2]] > 0 \/ k \in {c} \X new)
    BY <2>1, <2>3
  <2> QED BY <2>2, <2>4
<1>5. ASSUME Payout \in new,
             ~(\E x \in Extrinsics : \E n \in DOMAIN CallsOf[x] :
                 CallsOf[x][n].claim = c /\ ~CallsOf[x][n].ok),
             NEW s \in PaidBy[c]
      PROVE  <<c, s>> \in {k \in Claims \X Rows : rows[k[1]][k[2]] > 0}
  <2>1. t.write = 3 /\ t.x \in Extrinsics /\ t.n \in DOMAIN CallsOf[t.x]
    BY <1>3, <1>5, RowsOfFacts, TaskFacts DEF TaskTyped
  <2>2. CallsOf[t.x][t.n].claim = c /\ CallsOf[t.x][t.n].ok
    BY <1>3, <1>5, <2>1 DEF ClaimOf
  <2>3. s \in RowsBefore(t)
    BY <2>1, <2>2, PaidAreRewarded DEF RowsBefore
  <2>4. rows[c][s] > 0 /\ s \in Rows
    BY <1>3, <2>3, PaidAreStakers, PayoutIsNoStaker DEF TaskOK
  <2> QED BY <2>4
<1>6. Promise!Store(c, new)
  BY <1>4, <1>5 DEF Promise!Store
<1> QED BY <1>6, RowsAsPromised DEF Promise!Next

\* Claims are given up, and nothing else changes.
LEMMA SkipGivesUp ==
  ASSUME NEW cs \in SUBSET Claims, skipped' = skipped \cup cs, UNCHANGED <<head, index, rows>>
  PROVE  Promise!Next
<1>1. Promise!GiveUp(cs)
  BY DEF Promise!GiveUp
<1> QED BY <1>1 DEF Promise!Next

\* The block of the loop becomes an end of the index, which holds only recorded blocks.
LEMMA BlockDoneIndexes ==
  ASSUME IndInv, IndInv', BlockDone, index' = Widened(at)
  PROVE  Promise!Next
<1>1. Core /\ Loop /\ scanning /\ UNCHANGED <<head, rows, skipped, tasks>>
  BY IndInvParts DEF BlockDone
<1>2. at \in Int /\ at <= head
  BY <1>1 DEF Loop, LoopTyped
<1>3. Widened(at) \in Interval /\ Widened(at) # NoIndex
  BY <1>1, WidenedFacts
<1>4. at \in {index'.earliest, index'.latest}
  BY <1>1, WidenedFacts
<1>5. index' = Promise!Hull(at)
  BY DEF Widened, Promise!Hull
<1>6. ASSUME NEW e \in index'.earliest .. index'.latest PROVE Promise!Scanned(e)
  <2>1. index'.earliest \in Int /\ index'.latest \in Int
    BY <1>3 DEF Interval
  <2>2. e \in Int
    BY <1>6, <2>1
  <2>3. BlockRecorded(e)'
    BY <1>3, <1>6, <2>2 DEF IndInv, IndexRecorded, Indexed
  <2>4. BlockRecorded(e)
    BY <1>1, <2>3 DEF BlockRecorded, Done, Recorded
  <2> QED BY <2>2, <2>4, RecordedIsScanned
<1>7. Promise!Index(at)
  BY <1>1, <1>2, <1>5, <1>6 DEF Promise!Index
<1> QED BY <1>3, <1>4, <1>7 DEF Promise!Next, Promise!Widen

\* Every step is a step of the promise, or changes nothing it speaks of.
LEMMA ScanPromiseNext ==
  IndInv /\ IndInv' /\ [Next]_vars => [Promise!Next]_(Promise!promiseVars)
<1> SUFFICES ASSUME IndInv, IndInv', [Next]_vars PROVE [Promise!Next]_(Promise!promiseVars)
  OBVIOUS
<1>1. Core /\ Loop
  BY IndInvParts
<1>2. CASE UNCHANGED <<head, index, rows, skipped>>
  BY <1>2 DEF Promise!promiseVars
<1>3. CASE NewBlock
  BY <1>3 DEF NewBlock, Promise!Next, Promise!Grow
<1>4. CASE StartJob \/ Turn \/ Crash \/ UNCHANGED vars
  BY <1>2, <1>4 DEF StartJob, Turn, Crash, vars
<1>5. CASE ProcessBlock
  <2>1. UNION {ClaimsOf(x) : x \in In(at)} \in SUBSET Claims
    BY CallFacts DEF ClaimsOf, In
  <2> QED BY <1>2, <1>5, <2>1, SkipGivesUp DEF ProcessBlock
<1>6. CASE BlockDone
  BY <1>2, <1>6, BlockDoneIndexes DEF BlockDone
<1>7. ASSUME NEW t \in tasks, Process(t) PROVE [Promise!Next]_(Promise!promiseVars)
  <2>1. TaskTyped(t) /\ TaskOK(t) /\ RowsOK /\ PayoutAfterRewards
    BY <1>1 DEF Core, Tasks, TasksTyped, TasksOK
  <2>2. CASE ReadContext(t)
    <3>1. {ClaimOf(t)} \in SUBSET Claims
      BY <2>1, TaskFacts
    <3> QED BY <1>2, <2>2, <3>1, SkipGivesUp DEF ReadContext
  <2>3. CASE FindRows(t)
    BY <1>2, <2>3 DEF FindRows
  <2>4. CASE SaveRows(t)
    <3>1. \E some \in SUBSET RowsOf(t) : Insert(t, some)
      BY <2>4 DEF SaveRows
    <3>2. UNCHANGED <<head, index, skipped>>
      BY <2>4 DEF SaveRows
    <3> QED BY <2>1, <3>1, <3>2, InsertStores
  <2> QED BY <1>7, <2>2, <2>3, <2>4 DEF Process
<1> QED BY <1>3, <1>4, <1>5, <1>6, <1>7 DEF Next

\* For any claims, batches, chain, faults and crashes, and however many abandoned extrinsics
\* still write, the block job implements the promise of its records: the index stays one
\* interval of recorded blocks that only grows, and rows stay, the payout's last.
THEOREM KeepsScanPromise == Spec => ImplementsPromise
BY ScanPromiseInit, ScanPromiseNext, Inductive, PTL DEF Spec, ImplementsPromise, Promise!Spec
=============================================================================
