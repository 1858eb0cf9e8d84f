--------------------------- MODULE ProxyNomination ---------------------------
(***************************************************************************)
(* The life of a time-delayed nomination.  A scorekeeper round chooses a   *)
(* slate of validators for a nominator, stores a DelayedTx in the database *)
(* and announces the call on chain (startRound, doNominations, nominate,   *)
(* sendProxyDelayTx); after Delay blocks the execution job broadcasts the  *)
(* call and deletes the DelayedTx (executionJob); the cancel job removes   *)
(* blacklisted and old announcements from the chain (cancelJob).           *)
(*                                                                         *)
(* The three run in one event loop and interleave at every await, so each  *)
(* is a process with a stage, and one action per stretch between awaits    *)
(* that touch shared state.  The database and the chain survive a crash,   *)
(* the processes do not.                                                   *)
(***************************************************************************)
EXTENDS Integers, Sequences, FiniteSets

CONSTANTS
  Nominators,   \* the nominator accounts that act through a delayed proxy
  Groups,       \* nominatorGroups, in the order the jobs visit them
  Slates,       \* lists of targets; a call hash identifies its slate
  Risky,        \* slates with a validator that may raise its commission too far
  Blacklisted,  \* config.proxy.blacklistedAnnouncements
  Delay,        \* config.proxy.timeDelayBlocks, also the delay the chain enforces
  EraLength,    \* blocks per era
  MaxPending,   \* NUM_NOMINATORS of startRound
  MaxBlock,     \* bound: the last block
  FaultKinds,   \* which of "crash", "loss", "call", "boot" may happen
  MaxFaults,    \* bound: how many faults a behaviour may contain
  None

ASSUME ConstantsAssumption ==
  /\ Groups \in Seq(Nominators)
  /\ Risky \subseteq Slates
  /\ Delay \in Nat \ {0}
  /\ EraLength \in Nat \ {0}
  /\ MaxPending \in Nat
  /\ MaxBlock \in Nat
  /\ MaxFaults \in Nat
  /\ None \notin [slate : Slates, since : Nat]

VARIABLES
  block, era,        \* chain: the latest block and the era it lies in
  announcements,     \* chain: per nominator, the announced calls not yet taken back
  active,            \* chain: per nominator, the slate nominated and the era of that
  pool,              \* transactions broadcast and not yet in a block
  overCommission,    \* slates holding a validator above the commission limit
  delayed,           \* database: the delayedtxes collection
  nominations,       \* database: the nominations collection, in the order its rows were saved
  phase,             \* "down", "boot" (first round), "up" (jobs scheduled), "jobless"
  roundPc, roundPos,               \* the round: stage, group visited
  roundSlate, roundNumber,         \* the slate chosen for it, the block read for its record
  execPc, execLatest, execEra,     \* the execution job: stage, block and era it read
  execTodo, execCur, execSent,     \* records left of its snapshot, the one in hand, didSend
  cancelPc, cancelLatest,          \* the cancel job: stage, block it read
  cancelPos, cancelTodo,           \* group visited, announcements left of its snapshot
  faults,            \* faults so far
  broadcast          \* history: records whose execution has been broadcast

chainVars  == <<block, era, announcements, active>>
dbVars     == <<delayed, nominations>>
roundVars  == <<roundPc, roundPos, roundSlate, roundNumber>>
execVars   == <<execPc, execLatest, execEra, execTodo, execCur, execSent>>
cancelVars == <<cancelPc, cancelLatest, cancelPos, cancelTodo>>
vars == <<chainVars, pool, overCommission, dbVars, phase, roundVars, execVars,
          cancelVars, faults, broadcast>>

Record       == [nom : Nominators, number : Nat, slate : Slates]
Announcement == [slate : Slates, height : Nat]

\* A broadcast transaction.  Two with the same content count as one: the second would
\* fail, or announce the same call again.
TxKinds == {"announce", "execute", "remove"}
Tx == [kind : TxKinds, nom : Nominators, slate : Slates]
TxOf(kind, n, s) == [kind |-> kind, nom |-> n, slate |-> s]

\* The DelayedTx rows of nominator n (getAccountDelayedTx).
PendingOf(n) == {r \in delayed : r.nom = n}

\* shouldNominate, from what the database and the chain hold now.
Ready(n) == era - active[n].era >= 1 /\ PendingOf(n) = {}

\* sendStakingTx awaits the outcome of tx.
Awaited(tx) == execPc = "sent" /\ tx = TxOf("execute", execCur.nom, execCur.slate)

\* announcement.height < latestBlock - 1.2 * timeDelayBlocks
TooOld(a, latest) == 6 * Delay < 5 * (latest - a.height)

\* One more fault of a kind this instance allows.
Fault(kind) ==
  /\ kind \in FaultKinds
  /\ faults < MaxFaults
  /\ faults' = faults + 1

NoFault == UNCHANGED faults
-----------------------------------------------------------------------------
Init ==
  /\ block = 1 /\ era = 1
  /\ announcements = [n \in Nominators |-> {}]
  /\ active = [n \in Nominators |-> [slate |-> None, era |-> 0]]
  /\ pool = {} /\ overCommission = {}
  /\ delayed = {} /\ nominations = <<>>
  /\ phase = "down"
  /\ roundPc = "idle" /\ roundPos = 1 /\ roundSlate = None /\ roundNumber = 0
  /\ execPc = "idle" /\ execLatest = 0 /\ execEra = 0
  /\ execTodo = {} /\ execCur = None /\ execSent = FALSE
  /\ cancelPc = "idle" /\ cancelLatest = 0 /\ cancelPos = 1 /\ cancelTodo = {}
  /\ faults = 0 /\ broadcast = {}
-----------------------------------------------------------------------------
(* The chain and its transaction pool.                                     *)

NewBlock ==
  /\ block < MaxBlock
  /\ block' = block + 1
  /\ era' = IF block' % EraLength = 0 THEN era + 1 ELSE era
  /\ UNCHANGED <<announcements, active, pool, overCommission, dbVars, phase,
                 roundVars, execVars, cancelVars, faults, broadcast>>

\* proxy.announce: it lands in the block after the latest one.
IncludeAnnounce(tx) ==
  /\ tx.kind = "announce"
  /\ announcements' = [announcements EXCEPT ![tx.nom] =
                         @ \cup {[slate |-> tx.slate, height |-> block + 1]}]
  /\ UNCHANGED <<active, execSent, faults>>

\* Announcements of tx's call that have waited Delay blocks when tx lands.
Matured(tx) == {a \in announcements[tx.nom] :
                  a.slate = tx.slate /\ a.height + Delay <= block + 1}

\* proxyAnnounced: takes the matured announcements and nominates, or fails.
IncludeExecute(tx) ==
  /\ tx.kind = "execute"
  /\ \/ /\ Matured(tx) # {}
        /\ announcements' = [announcements EXCEPT ![tx.nom] = @ \ Matured(tx)]
        /\ active' = [active EXCEPT ![tx.nom] = [slate |-> tx.slate, era |-> era]]
        /\ UNCHANGED <<execSent, faults>>
     \/ /\ Matured(tx) = {}
        /\ UNCHANGED <<announcements, active>>
        \* the callback learns of the failure at finality, which sendStakingTx returns
        \* before unless one of its calls hangs
        /\ \/ NoFault /\ UNCHANGED execSent
           \/ Awaited(tx) /\ Fault("call") /\ execSent' = FALSE

\* proxy.removeAnnouncement: every announcement of that call hash goes.
IncludeRemove(tx) ==
  /\ tx.kind = "remove"
  /\ announcements' = [announcements EXCEPT ![tx.nom] =
                         {a \in @ : a.slate # tx.slate}]
  /\ UNCHANGED <<active, execSent, faults>>

IncludeTx(tx) ==
  /\ tx \in pool
  /\ pool' = pool \ {tx}
  /\ IncludeAnnounce(tx) \/ IncludeExecute(tx) \/ IncludeRemove(tx)
  /\ UNCHANGED <<block, era, overCommission, dbVars, phase, roundVars, execPc,
                 execLatest, execEra, execTodo, execCur, cancelVars, broadcast>>

\* A transaction is dropped or usurped; the callback learns of the second only.
LoseTx(tx) ==
  /\ tx \in pool
  /\ Fault("loss")
  /\ pool' = pool \ {tx}
  /\ execSent' \in (IF Awaited(tx) THEN {execSent, FALSE} ELSE {execSent})
  /\ UNCHANGED <<chainVars, overCommission, dbVars, phase, roundVars, execPc,
                 execLatest, execEra, execTodo, execCur, cancelVars, broadcast>>

\* Validators change the commission they charge.
ChangeCommission ==
  /\ \E S \in SUBSET Risky : S # overCommission /\ overCommission' = S
  /\ UNCHANGED <<chainVars, pool, dbVars, phase, roundVars, execVars, cancelVars,
                 faults, broadcast>>
-----------------------------------------------------------------------------
(* The process: start-up and crash.                                        *)

\* Scorekeeper.begin: a round first if some nominator is ready, then the jobs.
Begin ==
  /\ phase = "down"
  /\ phase' = IF \E i \in DOMAIN Groups : Ready(Groups[i]) THEN "boot" ELSE "up"
  /\ UNCHANGED <<chainVars, pool, overCommission, dbVars, roundVars, execVars,
                 cancelVars, faults, broadcast>>

\* The first round throws, before or after doNominations, which catches what goes wrong in
\* it: begin returns false and starts no job.
BeginFails ==
  /\ phase = "boot"
  /\ roundPc = "idle" \/ (roundPc = "delayed" /\ roundPos \notin DOMAIN Groups)
  /\ Fault("boot")
  /\ phase' = "jobless"
  /\ roundPc' = "idle"
  /\ UNCHANGED <<chainVars, pool, overCommission, dbVars, roundPos, roundSlate,
                 roundNumber, execVars, cancelVars, broadcast>>

\* The process dies; what it kept in memory is gone.
Crash ==
  /\ phase # "down"
  /\ Fault("crash")
  /\ phase' = "down"
  /\ roundPc' = "idle" /\ roundPos' = 1 /\ roundSlate' = None /\ roundNumber' = 0
  /\ execPc' = "idle" /\ execLatest' = 0 /\ execEra' = 0
  /\ execTodo' = {} /\ execCur' = None /\ execSent' = FALSE
  /\ cancelPc' = "idle" /\ cancelLatest' = 0 /\ cancelPos' = 1 /\ cancelTodo' = {}
  /\ UNCHANGED <<chainVars, pool, overCommission, dbVars, broadcast>>
-----------------------------------------------------------------------------
(* A round: startRound, doNominations and, per nominator, nominate.        *)

outsideRound == <<chainVars, overCommission, nominations, execVars, cancelVars, broadcast>>

\* What ends a round also ends the start-up round, after which the jobs run.
Idle ==
  /\ roundPc' = "idle"
  /\ phase' = IF phase = "boot" THEN "up" ELSE phase
  /\ roundPos' = 1 /\ roundSlate' = None /\ roundNumber' = 0

NextGroup ==
  /\ roundPc' = "delayed" /\ roundPos' = roundPos + 1
  /\ roundSlate' = None /\ roundNumber' = 0
  /\ UNCHANGED phase

StartRound ==
  /\ phase \in {"boot", "up"} /\ roundPc = "idle"
  /\ Cardinality(delayed) < MaxPending
  /\ roundPc' = "delayed"
  /\ UNCHANGED <<outsideRound, pool, delayed, phase, roundPos, roundSlate, roundNumber, faults>>

\* startRound returns early: too many pending records.
SkipRound ==
  /\ phase \in {"boot", "up"} /\ roundPc = "idle"
  /\ Cardinality(delayed) >= MaxPending
  /\ Idle
  /\ UNCHANGED <<outsideRound, pool, delayed, faults>>

\* (Variant: shouldNominate does not look for a DelayedTx.)
CheckDelayedOmitted ==
  /\ roundPc = "delayed" /\ roundPos \in DOMAIN Groups
  /\ roundPc' = "era" /\ UNCHANGED <<phase, roundPos, roundSlate, roundNumber>>
  /\ UNCHANGED <<outsideRound, pool, delayed, faults>>

\* shouldNominate, first half: does the nominator have a DelayedTx?
CheckDelayed ==
  /\ roundPc = "delayed" /\ roundPos \in DOMAIN Groups
  /\ IF PendingOf(Groups[roundPos]) = {}
     THEN roundPc' = "era" /\ UNCHANGED <<phase, roundPos, roundSlate, roundNumber>>
     ELSE NextGroup
  /\ UNCHANGED <<outsideRound, pool, delayed, faults>>

\* The second half: an era passed since the last nomination.  An old nominator gets the
\* next slate, is skipped for want of balance, or the round gives up (no candidate left, no
\* balance read): doNominations returns null, as it does when a query throws.
CheckEra ==
  /\ roundPc = "era"
  /\ LET n == Groups[roundPos] IN
     \/ NoFault /\ era - active[n].era < 1 /\ NextGroup
     \/ /\ NoFault /\ era - active[n].era >= 1
        /\ \/ \E s \in Slates : /\ roundPc' = "number" /\ roundSlate' = s
                                /\ UNCHANGED <<phase, roundPos, roundNumber>>
           \/ NextGroup
           \/ Idle
     \/ Fault("call") /\ Idle
  /\ UNCHANGED <<outsideRound, pool, delayed>>

\* nominate and sendProxyDelayTx up to the latest block; without a bond or a block they
\* return false, which doNominations ignores.
ReadNumber ==
  /\ roundPc = "number"
  /\ \/ /\ NoFault
        /\ roundPc' = "insert" /\ roundNumber' = block
        /\ UNCHANGED <<phase, roundPos, roundSlate>>
     \/ Fault("call") /\ NextGroup
  /\ UNCHANGED <<outsideRound, pool, delayed>>

\* addDelayedTx, whose failure goes unseen.
InsertDelayedTx ==
  /\ roundPc = "insert"
  /\ \/ /\ NoFault
        /\ delayed' = delayed \cup {[nom |-> Groups[roundPos], number |-> roundNumber,
                                     slate |-> roundSlate]}
     \/ Fault("call") /\ UNCHANGED delayed
  /\ roundPc' = "announce"
  /\ UNCHANGED <<outsideRound, pool, phase, roundPos, roundSlate, roundNumber>>

\* signAndSendTx(announce): the outcome is logged and otherwise ignored.
AnnounceTx ==
  /\ roundPc = "announce"
  /\ \/ /\ NoFault
        /\ pool' = pool \cup {TxOf("announce", Groups[roundPos], roundSlate)}
     \/ Fault("call") /\ UNCHANGED pool
  /\ NextGroup
  /\ UNCHANGED <<outsideRound, delayed>>

FinishRound ==
  /\ roundPc = "delayed" /\ roundPos \notin DOMAIN Groups
  /\ Idle
  /\ UNCHANGED <<outsideRound, pool, delayed, faults>>

Round == StartRound \/ SkipRound \/ CheckDelayed \/ CheckEra \/ ReadNumber
           \/ InsertDelayedTx \/ AnnounceTx \/ FinishRound
-----------------------------------------------------------------------------
(* The execution job.                                                      *)

outsideExec == <<chainVars, overCommission, phase, roundVars, cancelVars>>

StartExecution ==
  /\ phase = "up" /\ execPc = "idle"
  /\ execPc' = "read" /\ execLatest' = block
  /\ UNCHANGED <<outsideExec, pool, delayed, nominations, execEra, execTodo, execCur,
                 execSent, faults, broadcast>>

\* getCurrentEra and getAllDelayedTxs: the snapshot the job works through.
ReadDelayed ==
  /\ execPc = "read"
  /\ execPc' = "pick" /\ execEra' = era /\ execTodo' = delayed
  /\ UNCHANGED <<outsideExec, pool, delayed, nominations, execLatest, execCur, execSent,
                 faults, broadcast>>

\* On to the next record of the snapshot.
NextRecord == execPc' = "pick" /\ execCur' = None /\ execSent' = FALSE

\* (Variants: the delay left out; due in one block only.)
DueAtOnce(r) == r.number <= execLatest
DueOnce(r)   == r.number + Delay = execLatest

\* dataNum + timeDelayBlocks <= latestBlock, by the block read at the start.
Due(r) == r.number + Delay <= execLatest

\* Take a record of the snapshot and look at its targets' commission.
CheckCommission(r) ==
  /\ execPc = "pick" /\ r \in execTodo
  /\ execTodo' = execTodo \ {r}
  /\ \/ /\ r.slate \in overCommission
        /\ execPc' = "cancel" /\ execCur' = r /\ UNCHANGED execSent
     \/ /\ r.slate \notin overCommission
        /\ IF Due(r) THEN execPc' = "send" /\ execCur' = r /\ UNCHANGED execSent
                     ELSE NextRecord
  /\ UNCHANGED <<outsideExec, pool, delayed, nominations, execLatest, execEra, faults,
                 broadcast>>

\* Cancel the announcements of the call, which cancelTx may fail at; the record stays in
\* the database.
CancelAnnounced ==
  /\ execPc = "cancel"
  /\ LET found == {a \in announcements[execCur.nom] : a.slate = execCur.slate} IN
     \/ NoFault /\ pool' = pool \cup {TxOf("remove", execCur.nom, a.slate) : a \in found}
     \/ Fault("call") /\ UNCHANGED pool
  /\ NextRecord
  /\ UNCHANGED <<outsideExec, delayed, nominations, execLatest, execEra, execTodo, broadcast>>

\* (Variant: an error that is caught is answered as if the call had been sent.)
SendExecutionUnseen ==
  /\ execPc = "send"
  /\ \/ /\ NoFault
        /\ pool' = pool \cup {TxOf("execute", execCur.nom, execCur.slate)}
        /\ broadcast' = broadcast \cup {execCur}
     \/ Fault("call") /\ UNCHANGED <<pool, broadcast>>
  /\ execSent' = TRUE /\ execPc' = "sent" /\ UNCHANGED execCur
  /\ UNCHANGED <<outsideExec, delayed, nominations, execLatest, execEra, execTodo>>

\* sendStakingTx(proxyAnnounced): returns once broadcast, or catches the error.
SendExecution ==
  /\ execPc = "send"
  /\ \/ /\ NoFault
        /\ pool' = pool \cup {TxOf("execute", execCur.nom, execCur.slate)}
        /\ broadcast' = broadcast \cup {execCur}
        /\ execSent' = TRUE /\ execPc' = "sent" /\ UNCHANGED execCur
     \/ Fault("call") /\ NextRecord /\ UNCHANGED <<pool, broadcast>>
  /\ UNCHANGED <<outsideExec, delayed, nominations, execLatest, execEra, execTodo>>

Nomination == [nom : Nominators, era : Nat, slate : Slates]

\* setNomination(n, e, s), whose row has no block hash (executionJob never learns one): a new
\* row, or, when the nominator has one of that era, an update without a filter: its one
\* argument is the update, and the first row of the collection is overwritten.
Recorded(n, e, s) ==
  LET row == [nom |-> n, era |-> e, slate |-> s] IN
  IF \E i \in DOMAIN nominations : nominations[i].nom = n /\ nominations[i].era = e
  THEN [nominations EXCEPT ![1] = row]
  ELSE Append(nominations, row)

\* With didSend, or without: the transaction was usurped or failed, or one of the calls
\* sendStakingTx makes after the broadcast threw.  That setNomination itself failed goes unseen.
SetNomination ==
  /\ execPc = "sent"
  /\ \/ /\ execSent
        /\ \/ /\ NoFault
              /\ nominations' = Recorded(execCur.nom, execEra, execCur.slate)
           \/ Fault("call") /\ UNCHANGED nominations
        /\ execPc' = "recorded" /\ UNCHANGED <<execCur, execSent>>
     \/ /\ (~execSent /\ NoFault) \/ Fault("call")
        /\ NextRecord /\ UNCHANGED nominations
  /\ UNCHANGED <<outsideExec, pool, delayed, execLatest, execEra, execTodo, broadcast>>

\* (Variant: deleted by the block just read.)
DeleteByLatest ==
  /\ execPc = "recorded" /\ NoFault
  /\ delayed' = {r \in delayed : ~(r.nom = execCur.nom /\ r.number = execLatest - Delay)}
  /\ NextRecord
  /\ UNCHANGED <<outsideExec, pool, nominations, execLatest, execEra, execTodo, broadcast>>

\* deleteDelayedTx(dataNum, controller)
DeleteDelayedTx ==
  /\ execPc = "recorded"
  /\ \/ /\ NoFault
        /\ delayed' = {r \in delayed : ~(r.nom = execCur.nom /\ r.number = execCur.number)}
     \/ Fault("call") /\ UNCHANGED delayed
  /\ NextRecord
  /\ UNCHANGED <<outsideExec, pool, nominations, execLatest, execEra, execTodo, broadcast>>

\* The loop is over, or an exception ends the job.
FinishExecution ==
  /\ \/ execPc = "pick" /\ execTodo = {} /\ NoFault
     \/ execPc # "idle" /\ Fault("call")
  /\ execPc' = "idle" /\ execLatest' = 0 /\ execEra' = 0
  /\ execTodo' = {} /\ execCur' = None /\ execSent' = FALSE
  /\ UNCHANGED <<outsideExec, pool, delayed, nominations, broadcast>>

Execution == StartExecution \/ ReadDelayed \/ (\E r \in execTodo : CheckCommission(r)) \/ CancelAnnounced
               \/ SendExecution \/ SetNomination \/ DeleteDelayedTx \/ FinishExecution
-----------------------------------------------------------------------------
(* The cancel job.                                                         *)

outsideCancel == <<chainVars, overCommission, dbVars, phase, roundVars, execVars, broadcast>>

StartCancel ==
  /\ phase = "up" /\ cancelPc = "idle"
  /\ cancelPc' = "read" /\ cancelLatest' = block /\ cancelPos' = 1
  /\ UNCHANGED <<outsideCancel, pool, cancelTodo, faults>>

\* getProxyAnnouncements: the snapshot of this group.
ReadAnnouncements ==
  /\ cancelPc = "read" /\ cancelPos \in DOMAIN Groups
  /\ cancelTodo' = announcements[Groups[cancelPos]]
  /\ cancelPc' = "each"
  /\ UNCHANGED <<outsideCancel, pool, cancelLatest, cancelPos, faults>>

\* (Variant: only blacklisted announcements are cancelled.)
CancelBlacklisted(a) ==
  /\ cancelPc = "each" /\ a \in cancelTodo
  /\ cancelTodo' = cancelTodo \ {a}
  /\ NoFault
  /\ pool' = IF a.slate \in Blacklisted
             THEN pool \cup {TxOf("remove", Groups[cancelPos], a.slate)} ELSE pool
  /\ UNCHANGED <<outsideCancel, cancelPc, cancelLatest, cancelPos>>

\* Cancel an announcement of the snapshot when it is blacklisted or too old.
CancelOne(a) ==
  /\ cancelPc = "each" /\ a \in cancelTodo
  /\ cancelTodo' = cancelTodo \ {a}
  /\ IF a.slate \in Blacklisted \/ TooOld(a, cancelLatest)
     THEN \/ NoFault /\ pool' = pool \cup {TxOf("remove", Groups[cancelPos], a.slate)}
          \/ Fault("call") /\ UNCHANGED pool
     ELSE NoFault /\ UNCHANGED pool
  /\ UNCHANGED <<outsideCancel, cancelPc, cancelLatest, cancelPos>>

NextCancelGroup ==
  /\ cancelPc = "each" /\ cancelTodo = {}
  /\ cancelPc' = "read" /\ cancelPos' = cancelPos + 1
  /\ UNCHANGED <<outsideCancel, pool, cancelLatest, cancelTodo, faults>>

\* The loop is over, or an exception ends the job.
FinishCancel ==
  /\ \/ cancelPc = "read" /\ cancelPos \notin DOMAIN Groups /\ NoFault
     \/ cancelPc # "idle" /\ Fault("call")
  /\ cancelPc' = "idle" /\ cancelLatest' = 0 /\ cancelPos' = 1 /\ cancelTodo' = {}
  /\ UNCHANGED <<outsideCancel, pool>>

Cancel == StartCancel \/ ReadAnnouncements \/ (\E a \in cancelTodo : CancelOne(a))
            \/ NextCancelGroup \/ FinishCancel
-----------------------------------------------------------------------------
Next ==
  \/ NewBlock \/ ChangeCommission
  \/ \E tx \in pool : IncludeTx(tx) \/ LoseTx(tx)
  \/ Begin \/ BeginFails \/ Crash
  \/ Round \/ Execution \/ Cancel

Spec == Init /\ [][Next]_vars

\* Blocks are produced and take up transactions, the process is restarted, cron
\* starts the two jobs and the event loop runs what it has started.
Fairness ==
  /\ WF_vars(NewBlock)
  /\ \A tx \in Tx : WF_vars(IncludeTx(tx))
  /\ WF_vars(Begin)
  /\ WF_vars(Round)
  /\ WF_vars(Execution)
  /\ WF_vars(Cancel)

FairSpec == Spec /\ Fairness
-----------------------------------------------------------------------------
(* Invariants.                                                             *)

\* The stages of the round, of the execution job and of the cancel job.
RoundStages  == {"idle", "delayed", "era", "number", "insert", "announce"}
ExecStages   == {"idle", "read", "pick", "cancel", "send", "sent", "recorded"}
CancelStages == {"idle", "read", "each"}

\* The stages of the execution job that work on one record, execCur.
InHand == {"cancel", "send", "sent", "recorded"}

ChainTypeOK ==
  /\ block \in Nat /\ era \in Nat
  /\ announcements \in [Nominators -> SUBSET Announcement]
  /\ active \in [Nominators -> [slate : Slates \cup {None}, era : Nat]]
  /\ pool \subseteq Tx
  /\ overCommission \subseteq Slates

StoreTypeOK ==
  /\ delayed \subseteq Record
  /\ nominations \in Seq(Nomination)
  /\ phase \in {"down", "boot", "up", "jobless"}
  /\ faults \in Nat
  /\ broadcast \subseteq Record

RoundTypeOK ==
  /\ roundPc \in RoundStages /\ roundPos \in Nat \ {0}
  /\ roundPc \in {"era", "number", "insert", "announce"} => roundPos \in DOMAIN Groups
  /\ roundSlate \in Slates \cup {None} /\ roundNumber \in Nat
  /\ roundPc \in {"number", "insert", "announce"} => roundSlate \in Slates

ExecTypeOK ==
  /\ execPc \in ExecStages /\ execLatest \in Nat /\ execEra \in Nat
  /\ execTodo \subseteq Record /\ execCur \in Record \cup {None} /\ execSent \in BOOLEAN
  /\ execPc \in InHand => execCur \in Record

CancelTypeOK ==
  /\ cancelPc \in CancelStages /\ cancelLatest \in Nat /\ cancelPos \in Nat \ {0}
  /\ cancelPc = "each" => cancelPos \in DOMAIN Groups
  /\ cancelTodo \subseteq Announcement

\* Every variable holds a value of its kind, and a stage that works on a group or on
\* a record has one in hand.
TypeOK == ChainTypeOK /\ StoreTypeOK /\ RoundTypeOK /\ ExecTypeOK /\ CancelTypeOK

\* A nominator never has two delayed nominations at once, whatever crashes and rounds
\* come between the check in shouldNominate and the row addDelayedTx saves.
OnePendingPerNominator == \A r, q \in delayed : r.nom = q.nom => r = q

\* The snapshot the execution job works through stays true while it waits: every
\* record it has still to look at, or has in hand, is in the database.
SnapshotCurrent ==
  /\ execTodo \subseteq delayed
  /\ execPc \in InHand => execCur \in delayed

\* The nominations collection tells only of calls that the execution job broadcast, of the
\* nominator and slate they name and after their delay (executionJob and setNomination); and
\* none is of an era to come, however late the job records it, and whichever row it overwrites.
WasSent(row) ==
  /\ row.era <= era
  /\ \E r \in broadcast : r.nom = row.nom /\ r.slate = row.slate /\ r.number + Delay <= block

RecordedWasSent == \A i \in DOMAIN nominations : WasSent(nominations[i])
-----------------------------------------------------------------------------
(* The promise the database rows of a nominator, the jobs and the chain's  *)
(* clock keep.                                                             *)

\* The call nominator n has scheduled: its row in the database.
ScheduledCall(n) ==
  IF PendingOf(n) = {} THEN None
  ELSE LET r == CHOOSE r \in PendingOf(n) : TRUE
       IN [slate |-> r.slate, since |-> r.number]

Promise == INSTANCE NominationPromise WITH
  now       <- block,
  scheduled <- [n \in Nominators |-> ScheduledCall(n)],
  sent      <- {n \in Nominators : PendingOf(n) \cap broadcast # {}}

\* The rounds and jobs, whatever fails between two of their steps, schedule one call
\* per nominator at a time, send it only after the delay (ExecutionJob's shouldExecute)
\* and drop it from the database only once it was sent.
ImplementsPromise == Promise!Spec
-----------------------------------------------------------------------------
(* Action properties.                                                      *)

\* The execution job broadcasts a record a second time only when something failed
\* before: a crash, a lost transaction or a failed call.
ResendsOnlyAfterFault ==
  [][execPc = "send" /\ execPc' = "sent" /\ execCur \in broadcast => faults > 0]_vars
-----------------------------------------------------------------------------
(* Liveness, under FairSpec.                                               *)

\* Delayed nominations leave the database for good once their delay has passed, also when an
\* announcement was lost or the process crashed between any two steps: in the end there is none
\* whose delay is over by the last block.
DelayedTxSettles ==
  \A n \in Nominators : <>[](\A r \in PendingOf(n) : MaxBlock < r.number + Delay)

\* An announcement leaves the chain: it is executed, or the cancel job finds it too old.
AnnouncementsDoNotLinger ==
  \A n \in Nominators, a \in {a \in [slate : Slates, height : 2 .. MaxBlock] :
                                TooOld(a, MaxBlock)} :
    a \in announcements[n] ~> a \notin announcements[n]
=============================================================================
