------------------------------ MODULE StakingTx ------------------------------
(***************************************************************************)
(* Nominations that are sent at once: by an account that nominates itself, *)
(* or through a proxy without delay.  A round visits the nominators one    *)
(* after the other, gives each a slice of the ranked candidates and        *)
(* broadcasts the call (doNominations, nominate, sendProxyTx).  Some       *)
(* blocks later the callback of sendStakingTx learns that the transaction  *)
(* is final and rewrites the nominator's current targets, one query at a   *)
(* time, while the round works for other nominators.                       *)
(*                                                                         *)
(* Callbacks die with the process; transactions and the database do not.   *)
(* Left out: nominatedAt, lastNomination and lastNominatedEraIndex, which  *)
(* are written along the way and decide nothing (mainScorekeeperJob starts *)
(* a round whatever the last is: hasOld is an array and never false).      *)
(***************************************************************************)
EXTENDS Integers, Sequences, FiniteSets

CONSTANTS
  Nominators,   \* the nominator accounts
  Proxied,      \* those that act through a proxy with proxyDelay 0
  Groups,       \* nominatorGroups, in the order a round visits them
  Candidates,   \* stashes
  Rankings,     \* the lists of valid candidates, best first, a round may find
  Numbers,      \* what autoNumNominations may answer
  MaxEra,       \* bound: the last era
  FaultKinds,   \* which of "late", "lost", "failed", "send", "read", "crash" may happen
  MaxFaults     \* bound: how many kinds of fault a behaviour may contain, each once

ASSUME StakingAssumption ==
  /\ Proxied \subseteq Nominators
  /\ Groups \in Seq(Nominators)
  /\ Rankings \subseteq Seq(Candidates)
  /\ Numbers \subseteq Nat \ {0}
  /\ MaxEra \in Nat /\ MaxFaults \in Nat

VARIABLES
  era,               \* chain: the current era
  active,            \* chain: per nominator, the targets nominated and the era of that
  sent,              \* the transactions broadcast, each with the progress of its callback
  current,           \* database: Nominator.current, the targets shown for a nominator
  rows,              \* database: the nominations collection, in the order its rows were saved
  roundPc, roundPos, \* the round: stage, nominator visited
  ranking, counter,  \* the candidates of this round, how many of them are given out
  targets, hash,     \* the slice in hand, the block hash sendStakingTx answered
  faulted,           \* kinds of fault so far
  crossed            \* history: the transactions one of which was decided on while another of
                     \* its nominator waited; the next one to be sent counts by its number

chainVars == <<era, active>>
dbVars    == <<current, rows>>
roundVars == <<roundPc, roundPos, ranking, counter, targets, hash>>
vars      == <<chainVars, sent, dbVars, roundVars, faulted, crossed>>

\* The way of a transaction: waiting, in a block, then the steps of its callback
\* ("final" to "push"), or lost.  heard: the process that sent it still listens.
Stages == {"pool", "block", "final", "clear", "era", "push", "done", "lost"}
Tx == [nom : Nominators, targets : Seq(Candidates), stage : Stages, heard : BOOLEAN,
       pos : Nat]

Final(tx)    == tx.stage \in {"final", "clear", "era", "push", "done"}

\* The nominator's transactions that no block has taken up yet.
WaitingOf(n) == {k \in DOMAIN sent : sent[k].nom = n /\ sent[k].stage = "pool"}

\* Rounds are five minutes apart and check every candidate first: by then what this process
\* has sent is lost, or final and its callback over, unless finality is late.  Of what an
\* earlier process sent it knows nothing.
Settled == \A k \in DOMAIN sent : sent[k].heard => sent[k].stage \in {"done", "lost"}

Fault(kind) ==
  /\ kind \in FaultKinds \ faulted
  /\ Cardinality(faulted) < MaxFaults
  /\ faulted' = faulted \cup {kind}

NoFault == UNCHANGED faulted
-----------------------------------------------------------------------------
Init ==
  /\ era = 1 /\ active = [n \in Nominators |-> [targets |-> <<>>, era |-> 0]]
  /\ sent = <<>>
  /\ current = [n \in Nominators |-> <<>>]
  /\ rows = <<>>
  /\ roundPc = "idle" /\ roundPos = 1
  /\ ranking = <<>> /\ counter = 0 /\ targets = <<>> /\ hash = ""
  /\ faulted = {} /\ crossed = {}
-----------------------------------------------------------------------------
(* The chain.                                                              *)

NewEra ==
  /\ era < MaxEra
  /\ era' = era + 1
  /\ UNCHANGED <<active, sent, dbVars, roundVars, faulted, crossed>>

\* staking.nominate in a block; the call may fail there (a target that blocks nominators).
IncludeTx(k) ==
  /\ sent[k].stage = "pool"
  /\ sent' = [sent EXCEPT ![k].stage = "block"]
  /\ \/ /\ NoFault
        /\ active' = [active EXCEPT ![sent[k].nom] = [targets |-> sent[k].targets, era |-> era]]
     \/ Fault("failed") /\ UNCHANGED active
  /\ UNCHANGED <<era, dbVars, roundVars, crossed>>

\* Dropped or usurped: the callback does nothing that is used.
LoseTx(k) ==
  /\ sent[k].stage = "pool" /\ Fault("lost")
  /\ sent' = [sent EXCEPT ![k].stage = "lost"]
  /\ UNCHANGED <<chainVars, dbVars, roundVars, crossed>>

FinaliseTx(k) ==
  /\ sent[k].stage = "block"
  /\ sent' = [sent EXCEPT ![k].stage = IF sent[k].heard THEN "final" ELSE "done"]
  /\ UNCHANGED <<chainVars, dbVars, roundVars, faulted, crossed>>

\* The process dies and is started again: no round, no callback, the same rows
\* (addNominator keeps the current targets of a nominator it knows).
Die ==
  /\ sent' = [k \in DOMAIN sent |->
                [sent[k] EXCEPT !.heard = FALSE,
                   !.stage = IF @ \in {"pool", "block", "lost"} THEN @ ELSE "done"]]
  /\ roundPc' = "idle" /\ roundPos' = 1
  /\ ranking' = <<>> /\ counter' = 0 /\ targets' = <<>> /\ hash' = ""
  /\ UNCHANGED <<chainVars, dbVars, crossed>>

Crash == Fault("crash") /\ Die
-----------------------------------------------------------------------------
(* A round.                                                                *)

outsideRound == <<chainVars, current>>

Idle ==
  /\ roundPc' = "idle" /\ roundPos' = 1
  /\ ranking' = <<>> /\ counter' = 0 /\ targets' = <<>> /\ hash' = ""

NextNominator ==
  /\ roundPc' = "visit" /\ roundPos' = roundPos + 1
  /\ targets' = <<>> /\ hash' = ""
  /\ UNCHANGED <<ranking, counter>>

\* Every five minutes, and at once when the process has started (begin), on the candidates that
\* are valid then; also while transactions of an earlier process are still in the pool.
StartRound ==
  /\ roundPc = "idle"
  /\ (Settled /\ NoFault) \/ (~Settled /\ Fault("late"))
  /\ ranking' \in Rankings
  /\ roundPc' = "visit"
  /\ UNCHANGED <<outsideRound, sent, rows, roundPos, counter, targets, hash, crossed>>

\* (Variant: an era of difference is not asked for.)
OldAlways(n) == TRUE

\* shouldNominate
Old(n) == era - active[n].era >= 1

Smaller(a, b) == IF a < b THEN a ELSE b

\* Nominator n is to nominate: the transaction to be sent crosses those of n that wait.
Cross(n) == crossed' = IF WaitingOf(n) = {} THEN crossed \ {Len(sent) + 1}
                       ELSE crossed \cup WaitingOf(n) \cup {Len(sent) + 1}

\* The next targets of the ranking; without any the round gives up.
TakeSlice(number) ==
  LET slice == SubSeq(ranking, counter + 1, Smaller(counter + number, Len(ranking))) IN
  IF slice = <<>>
  THEN Idle /\ UNCHANGED crossed
  ELSE /\ targets' = slice /\ counter' = counter + number
       /\ roundPc' = "send"
       /\ Cross(Groups[roundPos])
       /\ UNCHANGED <<roundPos, ranking, hash>>

\* An old nominator gets its slice, is skipped for want of balance, or the round gives up,
\* as it does when a query throws.
Visit ==
  /\ roundPc = "visit" /\ roundPos \in DOMAIN Groups
  /\ LET n == Groups[roundPos] IN
     \/ NoFault /\ ~Old(n) /\ NextNominator /\ UNCHANGED crossed
     \/ NoFault /\ Old(n) /\ \/ \E number \in Numbers : TakeSlice(number)
                             \/ NextNominator /\ UNCHANGED crossed
                             \/ Idle /\ UNCHANGED crossed
     \/ Fault("read") /\ Idle /\ UNCHANGED crossed
  /\ UNCHANGED <<outsideRound, sent, rows>>

\* nominate and sendStakingTx up to signAndSend.  An error there is caught and answered
\* in place of the block hash; a nominator that is not bonded is left.
Send ==
  LET n == Groups[roundPos] IN
  /\ roundPc = "send"
  /\ \/ /\ NoFault
        /\ sent' = Append(sent, [nom |-> n, targets |-> targets, stage |-> "pool",
                                 heard |-> TRUE, pos |-> 1])
        /\ roundPc' = "sent" /\ UNCHANGED <<roundPos, targets, hash>>
     \/ /\ Fault("send")
        /\ \/ roundPc' = "sent" /\ hash' = "error" /\ UNCHANGED <<roundPos, targets>>
           \/ NextNominator
        /\ UNCHANGED sent
  /\ UNCHANGED <<outsideRound, rows, ranking, counter, crossed>>

\* (Variant: the hash of the block that includes the transaction is taken.)
ReadHashInBlock ==
  /\ roundPc = "sent"
  /\ IF Groups[roundPos] \in Proxied
     THEN /\ roundPc' = "row"
          /\ \/ /\ NoFault
                /\ hash' = IF hash = "" /\ sent[Len(sent)].stage # "pool" THEN "hash" ELSE hash
             \/ Fault("read") /\ hash = "" /\ hash' = "error"
          /\ UNCHANGED <<roundPos, ranking, counter, targets>>
     ELSE NoFault /\ NextNominator
  /\ UNCHANGED <<outsideRound, sent, rows, crossed>>

\* The queries of sendStakingTx after the broadcast; by then the callback may have set
\* finalizedBlockHash.  An error of one of them is answered in its place, too.
ReadHash ==
  /\ roundPc = "sent"
  /\ IF Groups[roundPos] \in Proxied
     THEN /\ roundPc' = "row"
          /\ \/ /\ NoFault
                /\ hash' = IF hash = "" /\ Final(sent[Len(sent)]) THEN "hash" ELSE hash
             \/ Fault("read") /\ hash = "" /\ hash' = "error"
          /\ UNCHANGED <<roundPos, ranking, counter, targets>>
     ELSE NoFault /\ NextNominator
  /\ UNCHANGED <<outsideRound, sent, rows, crossed>>

Row == [nom : Proxied, era : Nat, targets : Seq(Candidates), hash : {"", "hash", "error"}]

\* The row setNomination finds of a nominator and an era: the first one saved.
FirstOf(n, e) ==
  CHOOSE i \in DOMAIN rows : /\ rows[i].nom = n /\ rows[i].era = e
                             /\ \A j \in 1 .. i - 1 : ~(rows[j].nom = n /\ rows[j].era = e)

\* setNomination: a new row; none when the one found has a block hash; and when that has
\* none, an update without a filter: its one argument is the update, and the first row of
\* the collection is overwritten.
SetNomination(row) ==
  rows' = IF ~ \E i \in DOMAIN rows : rows[i].nom = row.nom /\ rows[i].era = row.era
          THEN Append(rows, row)
          ELSE IF rows[FirstOf(row.nom, row.era)].hash # "" THEN rows
          ELSE [rows EXCEPT ![1] = row]

\* setNomination in sendProxyTx, by the era it has just read; its failure goes unseen.
RecordRow ==
  /\ roundPc = "row"
  /\ \/ /\ NoFault
        /\ SetNomination([nom |-> Groups[roundPos], era |-> era, targets |-> targets,
                          hash |-> hash])
     \/ Fault("read") /\ UNCHANGED rows
  /\ NextNominator
  /\ UNCHANGED <<outsideRound, sent, crossed>>

FinishRound ==
  /\ roundPc = "visit" /\ roundPos \notin DOMAIN Groups
  /\ Idle
  /\ UNCHANGED <<outsideRound, sent, rows, faulted, crossed>>

Round == StartRound \/ Visit \/ Send \/ ReadHash \/ RecordRow \/ FinishRound
-----------------------------------------------------------------------------
(* The callback of sendStakingTx.  It goes on also when the extrinsic      *)
(* failed in its block.                                                    *)

outsideCallback == <<chainVars, rows, roundVars, crossed>>

Goto(k, stage) == sent' = [sent EXCEPT ![k].stage = stage]

\* (Variant: the test for old targets is the wrong way round.)
ReadCurrentInverted(k) ==
  /\ sent[k].stage = "final"
  /\ Goto(k, IF current[sent[k].nom] = <<>> THEN "clear" ELSE "era")
  /\ UNCHANGED <<outsideCallback, current, faulted>>

\* getCurrentTargets: old targets are wiped first.
ReadCurrent(k) ==
  /\ sent[k].stage = "final"
  /\ Goto(k, IF current[sent[k].nom] # <<>> THEN "clear" ELSE "era")
  /\ UNCHANGED <<outsideCallback, current, faulted>>

ClearCurrent(k) ==
  /\ sent[k].stage = "clear"
  /\ current' = [current EXCEPT ![sent[k].nom] = <<>>]
  /\ Goto(k, "era")
  /\ UNCHANGED <<outsideCallback, faulted>>

\* Era, decimals and bond.  When one cannot be read nobody catches the error, and the
\* process exits.  The targets are wiped.
ReadEra(k) ==
  /\ sent[k].stage = "era"
  /\ \/ /\ NoFault /\ Goto(k, "push") /\ UNCHANGED <<outsideCallback, current>>
     \/ Fault("read") /\ Die

\* On to the next target of k, while its position is below last.
NextTarget(k, last) ==
  sent' = IF sent[k].pos < last THEN [sent EXCEPT ![k].pos = @ + 1]
          ELSE [sent EXCEPT ![k].stage = "done"]

Push(k) == current' = [current EXCEPT ![sent[k].nom] = Append(@, sent[k].targets[sent[k].pos])]

\* (Variant: the last target is left out.)
PushTargetButLast(k) ==
  /\ sent[k].stage = "push"
  /\ Push(k) /\ NextTarget(k, Len(sent[k].targets) - 1)
  /\ UNCHANGED <<outsideCallback, faulted>>

\* setTarget: the candidate is found, rounds nominate no other.
PushTarget(k) ==
  /\ sent[k].stage = "push"
  /\ Push(k) /\ NextTarget(k, Len(sent[k].targets))
  /\ UNCHANGED <<outsideCallback, faulted>>

Callback(k) == ReadCurrent(k) \/ ClearCurrent(k) \/ ReadEra(k) \/ PushTarget(k)
-----------------------------------------------------------------------------
Next ==
  \/ NewEra \/ Crash \/ Round
  \/ \E k \in DOMAIN sent : IncludeTx(k) \/ LoseTx(k) \/ FinaliseTx(k) \/ Callback(k)

Spec == Init /\ [][Next]_vars

MaxSent == Cardinality(Nominators) * (MaxEra + MaxFaults)

\* Blocks take up transactions and are finalised, callbacks run, rounds end.
Fairness ==
  /\ WF_vars(Round)
  /\ \A k \in 1 .. MaxSent :
       WF_vars(k \in DOMAIN sent /\ (IncludeTx(k) \/ FinaliseTx(k) \/ Callback(k)))

FairSpec == Spec /\ Fairness
-----------------------------------------------------------------------------
RoundStages == {"idle", "visit", "send", "sent", "row"}

\* Every variable holds a value of its kind, and what is sent has targets.
TypeOK ==
  /\ era \in Nat
  /\ active \in [Nominators -> [targets : Seq(Candidates), era : Nat]]
  /\ sent \in Seq(Tx)
  /\ \A k \in DOMAIN sent : sent[k].targets # <<>>
  /\ current \in [Nominators -> Seq(Candidates)]
  /\ rows \in Seq(Row)
  /\ roundPc \in RoundStages /\ roundPos \in Nat \ {0}
  /\ roundPc \in {"send", "sent", "row"} => roundPos \in DOMAIN Groups
  /\ ranking \in Seq(Candidates) /\ counter \in Nat
  /\ targets \in Seq(Candidates) /\ hash \in {"", "hash", "error"}
  /\ faulted \subseteq FaultKinds /\ crossed \subseteq Nat

\* The targets shown for a nominator are the first ones of one of its nominations:
\* callbacks of different eras never mix theirs, whatever fails, is lost or dies between
\* two queries, as long as no round overtakes a callback (clearCurrent and setTarget).
CurrentOfOneNomination ==
  "late" \in faulted \/
  \A n \in Nominators : \/ current[n] = <<>>
                        \/ \E k \in DOMAIN sent :
                             /\ sent[k].nom = n
                             /\ Len(current[n]) <= Len(sent[k].targets)
                             /\ current[n] = SubSeq(sent[k].targets, 1, Len(current[n]))

\* Transaction k nominated these targets, and is final where its block hash is known.
Tells(k, nom, nominated, blockHash) ==
  sent[k].nom = nom /\ sent[k].targets = nominated /\ (blockHash = "hash" => Final(sent[k]))

\* A row of the nominations collection tells of a nomination that was broadcast, by the nominator
\* it names and of all its targets, and one with a block hash of a nomination that is final;
\* but for the rows with an error in place of the hash, which sendProxyTx stores all the same.
\* Also the row that setNomination overwrites, whosever it was, tells of the nomination it got.
RowTold(row) ==
  row.hash # "error" => \E k \in DOMAIN sent : Tells(k, row.nom, row.targets, row.hash)

RowsWereSent == \A i \in DOMAIN rows : RowTold(rows[i])

\* shouldNominate: two nominations of a nominator land in one era only if they crossed: one
\* was decided on while the other still waited in the pool, as after a restart, which starts a
\* round at once, or when finality is late.  All others land in different eras, also when an
\* era begins between sending and landing, a query fails, or the process dies.
OneNominationPerEra ==
  [][\A k \in DOMAIN sent \ crossed :
       LET n == sent[k].nom IN
       sent[k].stage = "pool" /\ sent'[k].stage = "block" => era > active[n].era]_vars

Shown(n) == active[n].targets = <<>> \/ current[n] = active[n].targets

\* What is nominated on chain is shown in the end, in full and in order; unless the
\* process died, a query failed, a round overtook the callback, or the extrinsic failed.
NominatedIsShown ==
  \A n \in Nominators :
    ~Shown(n) ~> Shown(n) \/ faulted \cap {"crash", "read", "late", "failed"} # {}
=============================================================================
