------------------------------ MODULE BlockIndex ------------------------------
(***************************************************************************)
(* The block job records the staking payouts of the chain: for each call   *)
(* of payoutStakers the reward rows, then the row of the payout.  It scans *)
(* forward to the head of the chain, then backward a number of blocks per  *)
(* run, and keeps the scanned interval in the database.  The extrinsics of *)
(* a block are processed concurrently; when one throws, the run of the job *)
(* is over while the others go on, and may still be writing when the next  *)
(* run comes to the same block.                                            *)
(*                                                                         *)
(* The head is the best block, before it is final.  Here the chain only    *)
(* grows; that it takes back a block which was scanned, and has another in *)
(* its place, is left out.                                                 *)
(***************************************************************************)
EXTENDS Integers, Sequences, FiniteSets

CONSTANTS
  Claims,        \* what a call pays out: a validator and an era
  ValidatorOf,   \* the validator of a claim
  PaidBy,        \* the stakers a claim pays: the validator and its nominators
  Free,          \* claims of a validator with zero commission
  Payout,        \* the row of the payout itself, next to the rows of the stakers
  Extrinsics,
  BlockOf,       \* the block an extrinsic is in
  CallsOf,       \* its calls of payoutStakers: several in a batch
  Threshold,
  MaxHead,       \* bound: the last block of the chain
  MaxDepth,      \* bound: no backward scan starts this far below block 0
  MaxFaults,     \* bound: how many faults a behaviour may contain
  NoIndex

Stakers == UNION {PaidBy[c] : c \in Claims}
Call    == [claim : Claims, ok : BOOLEAN]

ASSUME BlockIndexAssumption ==
  /\ ValidatorOf \in [Claims -> Stakers] /\ DOMAIN PaidBy = Claims
  /\ Free \subseteq Claims /\ Payout \notin Stakers
  /\ BlockOf \in [Extrinsics -> Nat] /\ CallsOf \in [Extrinsics -> Seq(Call)]
  /\ Threshold \in Nat /\ MaxHead \in Nat /\ MaxDepth \in Nat /\ MaxFaults \in Nat
  /\ NoIndex \notin [earliest : Int, latest : Int]

VARIABLES
  head,          \* the chain's last block
  index,         \* database: the interval of scanned blocks
  rows,          \* database: how many rows a claim has for each staker, and for its payout
  skipped,       \* history: claims given up without an exception
  pc,            \* the job: idle, its first run ever, or the direction of its scan
  target,        \* the head it read at its start
  at, floor,     \* the loop's block, and the block at which the backward loop ends
  scanning,      \* whether it is inside processBlock(at)
  tasks,         \* the extrinsics being processed
  faults

job  == <<pc, target, at, floor, scanning>>
vars == <<head, index, rows, skipped, job, tasks, faults>>

Rows   == Stakers \cup {Payout}
\* The three writes of processPayoutStakers, in their order.
Writes == <<"validator", "nominators", "payout">>
Interval == [earliest : Int, latest : Int]
\* A task works on call number n of extrinsic x; seen are the rows its lookups found.  It is
\* own as long as the run that started it waits for it.
Task == [x : Extrinsics, n : Nat, write : DOMAIN Writes, step : {"read", "find", "save"},
         seen : SUBSET Rows, own : BOOLEAN]

In(b)       == {x \in Extrinsics : BlockOf[x] = b}
ClaimsOf(x) == {CallsOf[x][n].claim : n \in DOMAIN CallsOf[x]}
ClaimOf(t)  == CallsOf[t.x][t.n].claim

Fault   == faults < MaxFaults /\ faults' = faults + 1
NoFault == UNCHANGED faults

Init ==
  /\ head = 1 /\ index = NoIndex
  /\ rows = [c \in Claims |-> [r \in Rows |-> 0]] /\ skipped = {}
  /\ pc = "idle" /\ target = 0 /\ at = 0 /\ floor = 0 /\ scanning = FALSE
  /\ tasks = {} /\ faults = 0
-----------------------------------------------------------------------------
(* The payouts of a block.                                                 *)

\* How many Rewarded events extrinsic x has for staker s: a call that failed has none,
\* and nothing tells the events of one call of a batch from those of another.
Events(x, s) ==
  Cardinality({n \in DOMAIN CallsOf[x] : CallsOf[x][n].ok /\ s \in PaidBy[CallsOf[x][n].claim]})

Rewarded(x) == {s \in Stakers : Events(x, s) > 0}

\* (Variant: the row of the payout first.)
PayoutFirst(t) ==
  LET validator == ValidatorOf[ClaimOf(t)] IN
  CASE t.write = 1 -> {Payout}
    [] t.write = 2 -> Rewarded(t.x) \cap {validator}
    [] t.write = 3 -> Rewarded(t.x) \ {validator}

\* The rows that task t writes next: all at once, each by a lookup and an insertion or update.
RowsOf(t) ==
  LET validator == ValidatorOf[ClaimOf(t)] IN
  CASE Writes[t.write] = "validator"  -> Rewarded(t.x) \cap {validator}
    [] Writes[t.write] = "nominators" -> Rewarded(t.x) \ {validator}
    [] Writes[t.write] = "payout"     -> {Payout}

Times(t, r) == IF r = Payout THEN 1 ELSE Events(t.x, r)

Begin(x, n) == [x |-> x, n |-> n, write |-> 1, step |-> "read", seen |-> {}, own |-> TRUE]

\* The task goes on to become u, or is over.
Becomes(t, u) == tasks' = (tasks \ {t}) \cup {u}
NextCall(t) ==
  IF t.n < Len(CallsOf[t.x]) THEN Becomes(t, [Begin(t.x, t.n + 1) EXCEPT !.own = t.own])
  ELSE tasks' = tasks \ {t}

\* An exception in a task the job waits for ends the run; the other tasks go on.
Orphaned(ts) == {[t EXCEPT !.own = FALSE] : t \in ts}
JobFails == pc' = "idle" /\ scanning' = FALSE /\ UNCHANGED <<target, at, floor>>

Throw(t) ==
  IF t.own THEN JobFails /\ tasks' = Orphaned(tasks \ {t})
  ELSE tasks' = tasks \ {t} /\ UNCHANGED job

\* What the rewards are computed from is read from the chain.  The call is left, without an
\* exception, when something is missing, as a reward destination that cannot be read; a
\* commission of zero counts as missing.  The other queries throw when they fail.
ReadContext(t) ==
  /\ t.step = "read"
  /\ \/ /\ NoFault /\ ClaimOf(t) \notin Free
        /\ Becomes(t, [t EXCEPT !.step = "find"]) /\ UNCHANGED <<job, skipped>>
     \/ /\ IF ClaimOf(t) \in Free THEN NoFault ELSE Fault
        /\ skipped' = skipped \cup {ClaimOf(t)}
        /\ NextCall(t) /\ UNCHANGED job
     \/ Fault /\ Throw(t) /\ UNCHANGED skipped
  /\ UNCHANGED <<head, index, rows>>

\* setReward, setPayoutTransaction: all look up their row first ...
FindRows(t) ==
  /\ t.step = "find"
  /\ \/ /\ NoFault /\ UNCHANGED job
        /\ Becomes(t, [t EXCEPT !.step = "save",
                                !.seen = {r \in RowsOf(t) : rows[ClaimOf(t)][r] > 0}])
     \/ Fault /\ Throw(t)
  /\ UNCHANGED <<head, index, rows, skipped>>

\* ... and insert it if they found none: of several lookups for one row at least the first
\* finds none.  `some` are the rows written when one of the writes fails.
Insert(t, some) ==
  \E new \in [some -> 1 .. Cardinality(DOMAIN CallsOf[t.x])] :
    /\ \A r \in some : new[r] <= Times(t, r)
    /\ rows' = [rows EXCEPT ![ClaimOf(t)] =
                  [r \in Rows |-> @[r] + (IF r \in some THEN new[r] ELSE 0)]]

SaveRows(t) ==
  /\ t.step = "save"
  /\ \/ /\ NoFault /\ UNCHANGED job
        /\ Insert(t, RowsOf(t) \ t.seen)
        /\ IF t.write < Len(Writes)
           THEN Becomes(t, [t EXCEPT !.step = "find", !.write = @ + 1, !.seen = {}])
           ELSE NextCall(t)
     \/ /\ Fault /\ Throw(t)
        /\ \E some \in SUBSET (RowsOf(t) \ t.seen) : Insert(t, some)
  /\ UNCHANGED <<head, index, skipped>>

Process(t) == ReadContext(t) \/ FindRows(t) \/ SaveRows(t)
-----------------------------------------------------------------------------
(* The scan.                                                               *)

\* (Variant: the block replaces a bound it does not extend.)
WidenedAnew(b) ==
  IF index = NoIndex THEN [earliest |-> b, latest |-> b]
  ELSE [earliest |-> IF b < index.earliest THEN b ELSE index.earliest, latest |-> b]

\* setBlockIndex: the interval only grows.
Widened(b) ==
  IF index = NoIndex THEN [earliest |-> b, latest |-> b]
  ELSE [earliest |-> IF b < index.earliest THEN b ELSE index.earliest,
        latest   |-> IF b > index.latest THEN b ELSE index.latest]

\* (Variant: only if a full batch is below.)
GoBackwardByBatch(newTarget) ==
  IF index.earliest # newTarget /\ index.earliest > Threshold
  THEN /\ pc' = "backward" /\ at' = index.earliest /\ floor' = index.earliest - Threshold
  ELSE pc' = "idle" /\ UNCHANGED <<at, floor>>

\* The backward scan, unless nothing is below: zero counts as no block.
GoBackward(newTarget) ==
  IF index.earliest # 0 /\ index.earliest # newTarget /\ index.earliest > -MaxDepth
  THEN /\ pc' = "backward" /\ at' = index.earliest /\ floor' = index.earliest - Threshold
  ELSE pc' = "idle" /\ UNCHANGED <<at, floor>>

StartJob ==
  /\ pc = "idle" /\ target' = head
  /\ IF index = NoIndex
     THEN pc' = "first" /\ at' = head /\ UNCHANGED floor
     ELSE IF index.latest # head
     THEN pc' = "forward" /\ at' = index.latest /\ UNCHANGED floor
     ELSE GoBackward(head)
  /\ UNCHANGED <<head, index, rows, skipped, scanning, tasks, faults>>

\* Whether the loop goes on with block at, and whether that block is still to be scanned.
LoopGoesOn ==
  \/ pc = "first" /\ at = target
  \/ pc = "forward" /\ at < target
  \/ pc = "backward" /\ at > floor

ToScan ==
  \/ pc = "first"
  \/ pc = "forward" /\ at > index.latest
  \/ pc = "backward" /\ at < index.earliest

NextBlock == at' = IF pc = "backward" THEN at - 1 ELSE at + 1

Turn ==
  /\ pc # "idle" /\ ~scanning
  /\ \/ /\ ~LoopGoesOn /\ NoFault
        /\ IF pc = "forward" THEN GoBackward(target)
           ELSE pc' = "idle" /\ UNCHANGED <<at, floor>>
        /\ UNCHANGED <<target, scanning>>
     \/ /\ LoopGoesOn /\ ~ToScan /\ NoFault
        /\ NextBlock /\ UNCHANGED <<pc, target, floor, scanning>>
     \/ Fault /\ JobFails
  /\ UNCHANGED <<head, index, rows, skipped, tasks>>

\* processBlock up to its extrinsics, which all start.  A block for which the node has no
\* body, session or era is left without an exception, and counts as processed; a query that
\* fails throws (Turn).
ProcessBlock ==
  /\ pc # "idle" /\ ~scanning /\ LoopGoesOn /\ ToScan
  /\ \/ /\ NoFault /\ UNCHANGED skipped
        /\ tasks' = tasks \cup {Begin(x, 1) : x \in {y \in In(at) : CallsOf[y] # <<>>}}
     \/ /\ Fault /\ skipped' = skipped \cup UNION {ClaimsOf(x) : x \in In(at)}
        /\ UNCHANGED tasks
  /\ scanning' = TRUE
  /\ UNCHANGED <<head, index, rows, pc, target, at, floor>>

Waiting == \E t \in tasks : t.own

\* (Variant: the block's extrinsics are not awaited.)
BlockDoneAtOnce ==
  /\ scanning
  /\ \/ /\ (index' = Widened(at) /\ NoFault) \/ (Fault /\ UNCHANGED index)
        /\ scanning' = FALSE /\ NextBlock /\ UNCHANGED <<pc, target, floor>>
     \/ Fault /\ JobFails /\ UNCHANGED index
  /\ UNCHANGED <<head, rows, skipped, tasks>>

\* All extrinsics are processed; processBlock and the loop widen the index by the block, or
\* fail to, with an exception (which ends the run) or without.
BlockDone ==
  /\ scanning /\ ~Waiting
  /\ \/ /\ (index' = Widened(at) /\ NoFault) \/ (Fault /\ UNCHANGED index)
        /\ scanning' = FALSE /\ NextBlock /\ UNCHANGED <<pc, target, floor>>
     \/ Fault /\ JobFails /\ UNCHANGED index
  /\ UNCHANGED <<head, rows, skipped, tasks>>
-----------------------------------------------------------------------------
NewBlock ==
  /\ head < MaxHead /\ head' = head + 1
  /\ UNCHANGED <<index, rows, skipped, job, tasks, faults>>

Crash ==
  /\ Fault /\ pc' = "idle" /\ scanning' = FALSE /\ tasks' = {}
  /\ UNCHANGED <<head, index, rows, skipped, target, at, floor>>

Next ==
  \/ NewBlock \/ Crash
  \/ StartJob \/ Turn \/ ProcessBlock \/ BlockDone
  \/ \E t \in tasks : Process(t)

Spec == Init /\ [][Next]_vars

\* The chain grows, cron starts the job again and again, and what runs goes on running.
Fairness ==
  /\ WF_vars(NewBlock) /\ WF_vars(StartJob)
  /\ WF_vars(Turn \/ ProcessBlock \/ BlockDone)
  /\ WF_vars(\E t \in tasks : t.own /\ Process(t))

FairSpec == Spec /\ Fairness
-----------------------------------------------------------------------------
\* Every variable holds a value of its kind, and no block is scanned before the chain has it.
TypeOK ==
  /\ head \in Nat /\ index \in Interval \cup {NoIndex}
  /\ rows \in [Claims -> [Rows -> Nat]] /\ skipped \subseteq Claims
  /\ pc \in {"idle", "first", "forward", "backward"} /\ scanning \in BOOLEAN
  /\ target \in Nat /\ at \in Int /\ floor \in Int
  /\ tasks \subseteq Task /\ faults \in Nat
  /\ \A t \in tasks : t.n \in DOMAIN CallsOf[t.x]
  /\ index = NoIndex => pc \in {"idle", "first"}
  /\ target <= head /\ (scanning => at <= head)
  /\ index # NoIndex => (index.earliest <= index.latest /\ index.latest <= head)

Indexed(b) == index # NoIndex /\ b \in index.earliest .. index.latest

\* Call k of an extrinsic has left its payout, and a reward for every staker it paid.
Recorded(k) ==
  /\ rows[k.claim][Payout] > 0
  /\ k.ok => \A s \in PaidBy[k.claim] : rows[k.claim][s] > 0

\* "Storing the earliest and latest block that has been indexed" (BlockIndex): whatever fails
\* or crashes, and whatever an abandoned extrinsic still writes, each payout of a block
\* within the index is recorded, unless it was skipped for what could not be read.
IndexedIsRecorded ==
  \A x \in Extrinsics : Indexed(BlockOf[x]) =>
    \A n \in DOMAIN CallsOf[x] :
      CallsOf[x][n].claim \in skipped \/ Recorded(CallsOf[x][n])

\* A claim's payout row never stands without its reward rows, even after a crash between
\* the writes, if none of the calls for that claim failed on the chain.
PayoutAfterRewards ==
  \A c \in Claims :
    /\ rows[c][Payout] > 0
    /\ \A x \in Extrinsics : \A n \in DOMAIN CallsOf[x] :
         CallsOf[x][n].claim = c => CallsOf[x][n].ok
    => \A s \in PaidBy[c] : rows[c][s] > 0

Promise == INSTANCE ScanPromise WITH
  CallsAt <- [b \in Int |-> UNION {{CallsOf[x][n] : n \in DOMAIN CallsOf[x]} : x \in In(b)}],
  Failed  <- {c \in Claims : \E x \in Extrinsics : \E n \in DOMAIN CallsOf[x] :
                               CallsOf[x][n].claim = c /\ ~CallsOf[x][n].ok},
  stored  <- {k \in Claims \X Rows : rows[k[1]][k[2]] > 0},
  givenUp <- skipped

\* The loops, tasks and orphans, whatever fails between two of their steps, only ever widen the
\* index, over blocks whose payouts are recorded or given up, also when it could not be stored
\* for a while; and they never take back a row (setBlockIndex, processBlock).
ImplementsPromise == Promise!Spec

\* Once the index exists and the chain goes on beyond it, every block is scanned in the end,
\* those before the first scanned block down to block 0 as well as the new ones.
EveryBlockScanned ==
  \A b \in 0 .. MaxHead - 1 :
    (index # NoIndex /\ index.latest < MaxHead) ~> Indexed(b)
=============================================================================
