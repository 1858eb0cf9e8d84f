---------------------------- MODULE StakingTxProofs ----------------------------
(***************************************************************************)
(* Proofs about StakingTx, for any nominators, candidates, rankings, eras  *)
(* and faults.                                                             *)
(***************************************************************************)
EXTENDS StakingTx, TLAPS, SequenceTheorems

\* No account is configured twice as a nominator: a round that visits one twice before its
\* first transaction is in a block would send a second.
DistinctGroups == \A i, j \in DOMAIN Groups : Groups[i] = Groups[j] => i = j

\* A transaction this process sent, whose way is not over.
Live(k) == sent[k].heard /\ sent[k].stage \notin {"done", "lost"}

\* The round has still to visit, or to send for, position j of the groups.
AheadAt(j) ==
  \/ roundPc \in {"visit", "send"} /\ j >= roundPos
  \/ roundPc \in {"sent", "row"} /\ j > roundPos

\* No two live transactions are one nominator's, and none is of a nominator that the round has
\* before it.
Apart ==
  /\ \A k, l \in DOMAIN sent : Live(k) /\ Live(l) /\ sent[k].nom = sent[l].nom => k = l
  /\ \A k \in DOMAIN sent : Live(k) =>
       \A j \in DOMAIN Groups : AheadAt(j) => Groups[j] # sent[k].nom

Waits(k) == sent[k].stage = "pool"

\* Two transactions of a nominator that wait have crossed, and so has one that waits while
\* the round has another in hand.
PoolCrossed ==
  /\ \A k, l \in DOMAIN sent :
       Waits(k) /\ Waits(l) /\ sent[k].nom = sent[l].nom /\ k # l => k \in crossed
  /\ roundPc = "send" =>
       \A k \in DOMAIN sent : Waits(k) /\ sent[k].nom = Groups[roundPos] =>
                                k \in crossed /\ Len(sent) + 1 \in crossed

\* What waits or is about to be sent, and has crossed nothing, is for a nominator without
\* nomination this era.
PoolOld ==
  /\ \A k \in DOMAIN sent : Waits(k) /\ k \notin crossed => era > active[sent[k].nom].era
  /\ roundPc = "send" /\ Len(sent) + 1 \notin crossed => era > active[Groups[roundPos]].era

\* A callback that is past the wipe has written the first targets, and no other has.
CallbackOK ==
  \A k \in DOMAIN sent :
    /\ sent[k].stage = "era" => current[sent[k].nom] = <<>>
    /\ sent[k].stage = "push" =>
         current[sent[k].nom] = SubSeq(sent[k].targets, 1, sent[k].pos - 1)

\* The targets shown are the first of one of the nominations.
Shows(n, k) ==
  /\ sent[k].nom = n
  /\ Len(current[n]) <= Len(sent[k].targets)
  /\ current[n] = SubSeq(sent[k].targets, 1, Len(current[n]))
ShownOK == \A n \in Nominators : current[n] = <<>> \/ \E k \in DOMAIN sent : Shows(n, k)

SentTyped ==
  /\ sent \in Seq(Tx)
  /\ \A k \in DOMAIN sent :
       /\ sent[k].targets # <<>> /\ sent[k].pos \in 1 .. Len(sent[k].targets)
       /\ sent[k].stage \in {"push", "done"} \/ sent[k].pos = 1
       /\ sent[k].stage \in {"final", "clear", "era", "push"} => sent[k].heard

RestTyped ==
  /\ era \in Nat
  /\ active \in [Nominators -> [targets : Seq(Candidates), era : Nat]]
  /\ current \in [Nominators -> Seq(Candidates)]
  /\ rows \in Seq(Row)
  /\ faulted \subseteq FaultKinds /\ crossed \subseteq Nat

RoundTyped ==
  /\ roundPc \in RoundStages /\ roundPos \in Nat \ {0}
  /\ roundPc \in {"send", "sent", "row"} => roundPos \in DOMAIN Groups
  /\ roundPc = "row" => Groups[roundPos] \in Proxied
  /\ roundPc = "send" => targets # <<>>
  /\ ranking \in Seq(Candidates) /\ counter \in Nat
  /\ targets \in Seq(Candidates) /\ hash \in {"", "hash", "error"}

Typed == SentTyped /\ RestTyped /\ RoundTyped
PoolInv == PoolCrossed /\ PoolOld
ShownInv == "late" \in faulted \/ (Apart /\ CallbackOK /\ ShownOK)

\* The inductive invariant.
IndInv == Typed /\ PoolInv /\ ShownInv
-----------------------------------------------------------------------------
(* The transactions sent.                                                  *)

LEMMA TypeParts == Typed => TypeOK
BY DEF Typed, SentTyped, RestTyped, RoundTyped, TypeOK

\* A transaction that goes on to another stage, or another position, stays what it is.
LEMMA TxStage ==
  ASSUME NEW tx \in Tx, NEW s \in Stages
  PROVE  /\ [tx EXCEPT !.stage = s] \in Tx /\ [tx EXCEPT !.stage = s].nom = tx.nom
         /\ [tx EXCEPT !.stage = s].targets = tx.targets /\ [tx EXCEPT !.stage = s].pos = tx.pos
         /\ [tx EXCEPT !.stage = s].stage = s /\ [tx EXCEPT !.stage = s].heard = tx.heard
BY DEF Tx

LEMMA TxPos ==
  ASSUME NEW tx \in Tx, NEW p \in Nat
  PROVE  /\ [tx EXCEPT !.pos = p] \in Tx /\ [tx EXCEPT !.pos = p].nom = tx.nom
         /\ [tx EXCEPT !.pos = p].targets = tx.targets /\ [tx EXCEPT !.pos = p].pos = p
         /\ [tx EXCEPT !.pos = p].stage = tx.stage /\ [tx EXCEPT !.pos = p].heard = tx.heard
BY DEF Tx

LEMMA GroupFields ==
  /\ Groups \in Seq(Nominators) /\ Len(Groups) \in Nat /\ DOMAIN Groups = 1 .. Len(Groups)
  /\ \A j \in DOMAIN Groups : Groups[j] \in Nominators /\ j \in Nat \ {0}
<1>1. Groups \in Seq(Nominators)
  BY StakingAssumption
<1> QED BY <1>1

LEMMA TxFields ==
  ASSUME SentTyped, NEW k \in DOMAIN sent
  PROVE  /\ sent[k] \in Tx /\ sent[k].nom \in Nominators /\ sent[k].stage \in Stages
         /\ sent[k].targets \in Seq(Candidates) /\ sent[k].pos \in Nat
         /\ sent[k].pos \in 1 .. Len(sent[k].targets) /\ Len(sent[k].targets) \in Nat
         /\ DOMAIN sent = 1 .. Len(sent) /\ Len(sent) \in Nat
<1>1. sent[k] \in Tx /\ DOMAIN sent = 1 .. Len(sent) /\ Len(sent) \in Nat
  BY DEF SentTyped
<1>2. sent[k].pos \in 1 .. Len(sent[k].targets)
  BY DEF SentTyped
<1> QED BY <1>1, <1>2 DEF Tx

\* Each transaction keeps its nominator and its targets.
Kept ==
  /\ DOMAIN sent' = DOMAIN sent
  /\ \A k \in DOMAIN sent : sent'[k].nom = sent[k].nom /\ sent'[k].targets = sent[k].targets

\* One transaction becomes tx.
LEMMA OneMoves ==
  ASSUME SentTyped, NEW k \in DOMAIN sent, NEW tx \in Tx, tx.nom = sent[k].nom,
         tx.targets = sent[k].targets, tx.pos \in 1 .. Len(tx.targets),
         tx.stage \in {"push", "done"} \/ tx.pos = 1,
         tx.stage \in {"final", "clear", "era", "push"} => tx.heard,
         sent' = [sent EXCEPT ![k] = tx]
  PROVE  /\ SentTyped' /\ Kept
         /\ sent'[k] = tx /\ \A l \in DOMAIN sent \ {k} : sent'[l] = sent[l]
<1>1. sent \in Seq(Tx) /\ DOMAIN sent = 1 .. Len(sent)
  BY DEF SentTyped
<1>2. /\ sent' \in Seq(Tx) /\ Len(sent') = Len(sent)
      /\ \A l \in 1 .. Len(sent) : sent'[l] = IF l = k THEN tx ELSE sent[l]
  BY <1>1, ExceptSeq
<1>3. DOMAIN sent' = DOMAIN sent
  BY <1>1, <1>2
<1>4. sent'[k] = tx /\ \A l \in DOMAIN sent \ {k} : sent'[l] = sent[l]
  BY <1>1, <1>2
<1>5. Kept
  BY <1>3, <1>4 DEF Kept
<1>6. ASSUME NEW l \in DOMAIN sent
      PROVE  /\ sent'[l].targets # <<>> /\ sent'[l].pos \in 1 .. Len(sent'[l].targets)
             /\ sent'[l].stage \in {"push", "done"} \/ sent'[l].pos = 1
             /\ sent'[l].stage \in {"final", "clear", "era", "push"} => sent'[l].heard
  <2>1. CASE l = k
    BY <2>1, <1>4 DEF SentTyped
  <2>2. CASE l # k
    BY <2>2, <1>4 DEF SentTyped
  <2> QED BY <2>1, <2>2
<1> QED BY <1>2, <1>3, <1>4, <1>5, <1>6 DEF SentTyped

\* Only the last stages leave the first position, and none goes back from them.
LEMMA StageMoves ==
  ASSUME SentTyped, NEW k \in DOMAIN sent, NEW s \in Stages, sent' = [sent EXCEPT ![k].stage = s],
         s \in {"push", "done"} \/ sent[k].stage \notin {"push", "done"},
         s \in {"final", "clear", "era", "push"} => sent[k].heard
  PROVE  /\ SentTyped' /\ Kept
         /\ sent'[k].stage = s /\ sent'[k].pos = sent[k].pos /\ sent'[k].heard = sent[k].heard
         /\ \A l \in DOMAIN sent \ {k} : sent'[l] = sent[l]
<1> DEFINE tx == [sent[k] EXCEPT !.stage = s]
<1>1. sent' = [sent EXCEPT ![k] = tx]
  OBVIOUS
<1>2. sent[k] \in Tx
  BY TxFields
<1>3. /\ tx \in Tx /\ tx.nom = sent[k].nom /\ tx.targets = sent[k].targets
      /\ tx.pos = sent[k].pos /\ tx.stage = s /\ tx.heard = sent[k].heard
  BY <1>2, TxStage
<1>4. tx.pos \in 1 .. Len(tx.targets)
  BY <1>3, TxFields
<1>5. /\ tx.stage \in {"push", "done"} \/ tx.pos = 1
      /\ tx.stage \in {"final", "clear", "era", "push"} => tx.heard
  BY <1>3 DEF SentTyped
<1> HIDE DEF tx
<1>6. SentTyped' /\ Kept /\ sent'[k] = tx /\ \A l \in DOMAIN sent \ {k} : sent'[l] = sent[l]
  BY <1>1, <1>3, <1>4, <1>5, OneMoves
<1> QED BY <1>3, <1>6
-----------------------------------------------------------------------------
(* What keeps transactions apart.                                          *)

\* The round has no more positions before it than it had.
AheadShrinks == \A j \in DOMAIN Groups : AheadAt(j)' => AheadAt(j)

LEMMA ApartStays ==
  ASSUME Apart, Kept, AheadShrinks, \A k \in DOMAIN sent : Live(k)' => Live(k)
  PROVE  Apart'
BY DEF Apart, Kept, AheadShrinks

LEMMA NothingAhead ==
  ASSUME roundPc' = "idle"
  PROVE  AheadShrinks
BY DEF AheadShrinks, AheadAt

LEMMA NextAhead ==
  ASSUME RoundTyped, roundPc # "idle", roundPc' = "visit", roundPos' = roundPos + 1
  PROVE  AheadShrinks
<1> SUFFICES ASSUME NEW j \in DOMAIN Groups, AheadAt(j)' PROVE AheadAt(j)
  BY DEF AheadShrinks
<1>1. j \in Nat /\ roundPos \in Nat
  BY GroupFields DEF RoundTyped
<1>2. j >= roundPos + 1
  BY DEF AheadAt
<1>3. j >= roundPos /\ j > roundPos
  BY <1>1, <1>2
<1> QED BY <1>3 DEF RoundTyped, RoundStages, AheadAt

LEMMA SameAhead ==
  ASSUME UNCHANGED <<roundPc, roundPos>>
  PROVE  AheadShrinks
BY DEF AheadShrinks, AheadAt

LEMMA FaultedGrows ==
  ASSUME RestTyped, (\E kind : Fault(kind)) \/ NoFault
  PROVE  faulted' \subseteq FaultKinds /\ faulted \subseteq faulted'
BY DEF RestTyped, Fault, NoFault

\* Targets shown for other nominators, or not touched, stay those of a nomination.
LEMMA ShownStays ==
  ASSUME NEW n \in Nominators, UNCHANGED current, Kept,
         current[n] = <<>> \/ \E k \in DOMAIN sent : Shows(n, k)
  PROVE  current'[n] = <<>> \/ \E k \in DOMAIN sent' : Shows(n, k)'
BY DEF Shows, Kept

LEMMA AllShownStays ==
  ASSUME UNCHANGED current, Kept, ShownOK
  PROVE  ShownOK'
<1> SUFFICES ASSUME NEW n \in Nominators
             PROVE  current'[n] = <<>> \/ \E k \in DOMAIN sent' : Shows(n, k)'
  BY DEF ShownOK
<1> QED BY ShownStays DEF ShownOK

-----------------------------------------------------------------------------
(* Every step keeps the types.                                             *)

\* A step of the round that leaves the rows alone.
LEMMA RestStays ==
  ASSUME RestTyped, UNCHANGED <<chainVars, current, rows, crossed>>, faulted' \subseteq FaultKinds
  PROVE  RestTyped'
BY DEF RestTyped, chainVars

LEMMA IdleTyped ==
  ASSUME Idle
  PROVE  RoundTyped' /\ roundPc' = "idle"
<1>1. <<>> \in Seq(Candidates)
  BY EmptySeq
<1>2. ranking' \in Seq(Candidates) /\ targets' \in Seq(Candidates)
  BY <1>1 DEF Idle
<1>3. roundPc' = "idle" /\ roundPos' = 1 /\ counter' = 0 /\ hash' = ""
  BY DEF Idle
<1>4. roundPos' \in Nat \ {0} /\ counter' \in Nat
  <2>1. 1 \in Nat \ {0} /\ 0 \in Nat
    OBVIOUS
  <2>2. roundPos' = 1 /\ counter' = 0
    BY <1>3
  <2> QED BY <2>1, <2>2, Zenon
<1>5. hash' \in {"", "hash", "error"}
  BY <1>3
<1>6. /\ roundPc' \in RoundStages /\ roundPc' \notin {"send", "sent", "row"}
      /\ roundPc' # "row" /\ roundPc' # "send"
  BY <1>3 DEF RoundStages
<1> QED BY <1>2, <1>3, <1>4, <1>5, <1>6 DEF RoundTyped

LEMMA NextTyped ==
  ASSUME RoundTyped, NextNominator
  PROVE  RoundTyped' /\ roundPc' = "visit" /\ roundPos' = roundPos + 1
<1>1. roundPos' \in Nat \ {0}
  <2>1. roundPos \in Nat /\ roundPos' = roundPos + 1
    BY DEF RoundTyped, NextNominator
  <2> QED BY <2>1
<1>2. targets' \in Seq(Candidates)
  BY EmptySeq DEF NextNominator
<1> QED BY <1>1, <1>2 DEF RoundTyped, RoundStages, NextNominator

\* A step of the chain or of a callback, or none.
LEMMA RoundStays ==
  ASSUME RoundTyped, UNCHANGED roundVars
  PROVE  RoundTyped'
BY DEF RoundTyped, roundVars

LEMMA SentStays ==
  ASSUME SentTyped, UNCHANGED sent
  PROVE  SentTyped' /\ Kept /\ \A k \in DOMAIN sent : sent'[k] = sent[k]
BY DEF SentTyped, Kept

\* The process dies: each transaction stays, its callback is over.
LEMMA DieMoves ==
  ASSUME SentTyped, Die
  PROVE  /\ SentTyped' /\ RoundTyped' /\ Kept /\ roundPc' = "idle"
         /\ \A k \in DOMAIN sent :
              /\ sent'[k].pos = sent[k].pos /\ ~sent'[k].heard
              /\ sent'[k].stage = IF sent[k].stage \in {"pool", "block", "lost"}
                                  THEN sent[k].stage ELSE "done"
<1> DEFINE stage(k) == IF sent[k].stage \in {"pool", "block", "lost"} THEN sent[k].stage ELSE "done"
           tx(k) == [sent[k] EXCEPT !.heard = FALSE, !.stage = stage(k)]
<1>1. sent' = [k \in DOMAIN sent |-> tx(k)]
  BY DEF Die
<1>2. ASSUME NEW k \in DOMAIN sent
      PROVE  /\ tx(k) \in Tx /\ tx(k).nom = sent[k].nom /\ tx(k).targets = sent[k].targets
             /\ tx(k).pos = sent[k].pos /\ tx(k).stage = stage(k) /\ ~tx(k).heard
  <2>1. sent[k] \in Tx
    BY TxFields
  <2>2. stage(k) \in Stages
    BY <2>1 DEF Tx, Stages
  <2> HIDE DEF stage
  <2> QED BY <2>1, <2>2 DEF Tx
<1>3. DOMAIN sent = 1 .. Len(sent) /\ Len(sent) \in Nat
  BY DEF SentTyped
<1>4. sent' \in [1 .. Len(sent) -> Tx]
  <2> HIDE DEF tx
  <2> QED BY <1>1, <1>2, <1>3
<1>5. sent' \in Seq(Tx)
  BY <1>3, <1>4, SeqDef
<1>6. DOMAIN sent' = DOMAIN sent
  BY <1>1
<1>7. \A k \in DOMAIN sent :
        /\ sent'[k].nom = sent[k].nom /\ sent'[k].targets = sent[k].targets
        /\ sent'[k].pos = sent[k].pos /\ sent'[k].stage = stage(k) /\ ~sent'[k].heard
  <2> HIDE DEF tx
  <2> QED BY <1>1, <1>2
<1>8. Kept
  BY <1>6, <1>7 DEF Kept
<1>9. SentTyped'
  <2> SUFFICES ASSUME NEW k \in DOMAIN sent
               PROVE  /\ sent'[k].targets # <<>> /\ sent'[k].pos \in 1 .. Len(sent'[k].targets)
                      /\ sent'[k].stage \in {"push", "done"} \/ sent'[k].pos = 1
                      /\ sent'[k].stage \in {"final", "clear", "era", "push"} => sent'[k].heard
    BY <1>5, <1>6 DEF SentTyped
  <2> QED BY <1>7 DEF SentTyped
<1>10. RoundTyped' /\ roundPc' = "idle"
  BY IdleTyped DEF Die, Idle
<1> QED BY <1>7, <1>8, <1>9, <1>10

LEMMA SentNew ==
  ASSUME SentTyped, NEW tx \in Tx, tx.targets # <<>>, tx.pos = 1, tx.heard,
         sent' = Append(sent, tx)
  PROVE  /\ SentTyped' /\ DOMAIN sent' = DOMAIN sent \cup {Len(sent) + 1}
         /\ Len(sent) + 1 \notin DOMAIN sent
         /\ sent'[Len(sent) + 1] = tx /\ \A k \in DOMAIN sent : sent'[k] = sent[k]
<1>1. sent \in Seq(Tx) /\ DOMAIN sent = 1 .. Len(sent) /\ Len(sent) \in Nat
  BY DEF SentTyped
<1>2. /\ sent' \in Seq(Tx) /\ Len(sent') = Len(sent) + 1
      /\ sent'[Len(sent) + 1] = tx /\ \A k \in 1 .. Len(sent) : sent'[k] = sent[k]
  BY <1>1, AppendProperties
<1>3. DOMAIN sent' = 1 .. Len(sent) + 1
  BY <1>2
<1>4. DOMAIN sent' = DOMAIN sent \cup {Len(sent) + 1} /\ Len(sent) + 1 \notin DOMAIN sent
  BY <1>1, <1>3
<1>5. 1 \in 1 .. Len(tx.targets)
  <2>1. tx.targets \in Seq(Candidates)
    BY DEF Tx
  <2>2. Len(tx.targets) \in Nat \ {0}
    BY <2>1, EmptySeq
  <2> QED BY <2>2
<1>6. ASSUME NEW k \in DOMAIN sent'
      PROVE  /\ sent'[k].targets # <<>> /\ sent'[k].pos \in 1 .. Len(sent'[k].targets)
             /\ sent'[k].stage \in {"push", "done"} \/ sent'[k].pos = 1
             /\ sent'[k].stage \in {"final", "clear", "era", "push"} => sent'[k].heard
  <2>1. CASE k \in DOMAIN sent
    BY <2>1, <1>1, <1>2 DEF SentTyped
  <2>2. CASE k = Len(sent) + 1
    BY <2>2, <1>2, <1>5
  <2> QED BY <2>1, <2>2, <1>4
<1>7. SentTyped'
  BY <1>2, <1>6 DEF SentTyped
<1> QED BY <1>1, <1>2, <1>4, <1>7

\* The slice in hand is not empty.
LEMMA SliceTyped ==
  ASSUME RoundTyped, roundPc = "visit", roundPos \in DOMAIN Groups, NEW number \in Numbers,
         TakeSlice(number)
  PROVE  RoundTyped' /\ \/ roundPc' = "idle"
                        \/ roundPc' = "send" /\ UNCHANGED roundPos
<1> DEFINE last == Smaller(counter + number, Len(ranking))
           slice == SubSeq(ranking, counter + 1, last)
<1>1. CASE slice = <<>>
  BY <1>1, IdleTyped DEF TakeSlice
<1>2. CASE slice # <<>>
  <2>1. /\ targets' = slice /\ counter' = counter + number /\ roundPc' = "send"
        /\ UNCHANGED <<roundPos, ranking, hash>>
    BY <1>2 DEF TakeSlice
  <2>10. number \in Nat
    BY StakingAssumption
  <2>11. counter \in Nat /\ ranking \in Seq(Candidates)
    BY DEF RoundTyped
  <2>2. number \in Nat /\ counter \in Nat /\ ranking \in Seq(Candidates) /\ Len(ranking) \in Nat
    BY <2>10, <2>11
  <2>3. last \in Int /\ last <= Len(ranking)
    BY <2>2 DEF Smaller
  <2>4. slice \in Seq(Candidates)
    <3> HIDE DEF last
    <3>1. \A i \in counter + 1 .. last : ranking[i] \in Candidates
      BY <2>2, <2>3, ElementOfSeq
    <3>2. counter + 1 \in Int
      BY <2>2
    <3> QED BY <2>3, <3>1, <3>2, SubSeqProperties
  <2>5. counter' \in Nat
    BY <2>1, <2>2
  <2> HIDE DEF slice
  <2> QED BY <1>2, <2>1, <2>4, <2>5 DEF RoundTyped, RoundStages
<1> QED BY <1>1, <1>2

LEMMA StartRoundTyped ==
  ASSUME Typed, StartRound
  PROVE  Typed'
<1>1. RestTyped'
  BY RestStays, FaultedGrows DEF Typed, StartRound, outsideRound
<1>2. RoundTyped'
  <2>1. ranking' \in Seq(Candidates)
    BY StakingAssumption DEF StartRound
  <2> QED BY <2>1 DEF Typed, RoundTyped, RoundStages, StartRound
<1> QED BY <1>1, <1>2, SentStays DEF Typed, StartRound

\* What the round may do with the nominator it visits.
LEMMA VisitMoves ==
  ASSUME RoundTyped, Visit
  PROVE  \/ Idle
         \/ NextNominator
         \/ /\ Old(Groups[roundPos])
            /\ \E number \in Numbers : TakeSlice(number)
BY DEF Visit

\* A visit crosses transactions, or leaves them.
LEMMA VisitCrosses ==
  ASSUME RoundTyped, Visit
  PROVE  \/ UNCHANGED crossed /\ roundPc' # "send"
         \/ Cross(Groups[roundPos]) /\ roundPc' = "send" /\ UNCHANGED roundPos
BY DEF Visit, TakeSlice, Idle, NextNominator

LEMMA VisitTyped ==
  ASSUME Typed, Visit
  PROVE  Typed'
<1>0. crossed' \subseteq Nat
  <2>1. crossed \subseteq Nat /\ DOMAIN sent \subseteq Nat /\ Len(sent) + 1 \in Nat
    BY DEF Typed, SentTyped, RestTyped
  <2> QED BY <2>1, VisitCrosses DEF Typed, Cross, WaitingOf
<1>1. RestTyped'
  <2>1. faulted' \subseteq FaultKinds
    BY FaultedGrows DEF Typed, Visit
  <2> QED BY <1>0, <2>1 DEF Typed, RestTyped, Visit, outsideRound, chainVars
<1>2. RoundTyped'
  <2>1. roundPc = "visit" /\ roundPos \in DOMAIN Groups
    BY DEF Visit
  <2> QED BY <2>1, VisitMoves, IdleTyped, NextTyped, SliceTyped DEF Typed
<1> QED BY <1>1, <1>2, SentStays DEF Typed, Visit

\* The transaction the round broadcasts.
NewTx == [nom |-> Groups[roundPos], targets |-> targets, stage |-> "pool", heard |-> TRUE,
          pos |-> 1]

LEMMA NewTxTyped ==
  ASSUME RoundTyped, roundPc = "send"
  PROVE  /\ roundPos \in DOMAIN Groups /\ NewTx \in Tx /\ NewTx.targets # <<>>
         /\ NewTx.nom = Groups[roundPos] /\ NewTx.stage = "pool" /\ NewTx.pos = 1
         /\ NewTx.heard
<1>1. roundPos \in DOMAIN Groups /\ targets \in Seq(Candidates) /\ targets # <<>>
  BY DEF RoundTyped
<1>2. Groups[roundPos] \in Nominators
  BY <1>1, GroupFields
<1> QED BY <1>1, <1>2 DEF NewTx, Tx, Stages

\* Broadcast, or an error in place of it, or a nominator that is left.
LEMMA SendMoves ==
  ASSUME Send
  PROVE  /\ UNCHANGED <<era, active, current, rows, crossed>> /\ roundPc = "send"
         /\ \/ NoFault /\ sent' = Append(sent, NewTx)
            \/ (\E kind : Fault(kind)) /\ UNCHANGED sent
         /\ NextNominator \/ (roundPc' = "sent" /\ UNCHANGED roundPos)
BY DEF Send, outsideRound, chainVars, NewTx

LEMMA SendTyped ==
  ASSUME Typed, Send
  PROVE  Typed'
<1>1. RestTyped'
  BY SendMoves, RestStays, FaultedGrows DEF Typed, chainVars
<1>2. RoundTyped'
  <2>1. CASE NextNominator
    BY <2>1, NextTyped DEF Typed
  <2>2. CASE roundPc' = "sent" /\ UNCHANGED <<roundPos, targets, ranking, counter>>
    <3>1. roundPc = "send" /\ hash' \in {"", "hash", "error"}
      BY DEF Typed, RoundTyped, Send, NextNominator
    <3> QED BY <2>2, <3>1 DEF Typed, RoundTyped, RoundStages
  <2> QED BY <2>1, <2>2 DEF Send
<1>3. SentTyped'
  <2>1. CASE sent' = Append(sent, NewTx)
    <3>1. NewTx \in Tx /\ NewTx.targets # <<>> /\ NewTx.pos = 1 /\ NewTx.heard
      BY SendMoves, NewTxTyped DEF Typed
    <3> QED BY <2>1, <3>1, SentNew DEF Typed
  <2>2. CASE UNCHANGED sent
    BY <2>2, SentStays DEF Typed
  <2> QED BY <2>1, <2>2, SendMoves
<1> QED BY <1>1, <1>2, <1>3 DEF Typed

LEMMA ReadHashTyped ==
  ASSUME Typed, ReadHash
  PROVE  Typed'
<1>1. RestTyped'
  BY RestStays, FaultedGrows DEF Typed, ReadHash, outsideRound
<1>2. RoundTyped'
  <2>1. CASE NextNominator
    BY <2>1, NextTyped DEF Typed
  <2>2. CASE /\ Groups[roundPos] \in Proxied /\ roundPc' = "row"
             /\ UNCHANGED <<roundPos, ranking, counter, targets>>
    <3>1. roundPos \in DOMAIN Groups
      BY DEF Typed, RoundTyped, ReadHash
    <3>2. hash' \in {"", "hash", "error"}
      BY <2>2 DEF Typed, RoundTyped, ReadHash
    <3> QED BY <2>2, <3>1, <3>2 DEF Typed, RoundTyped, RoundStages
  <2> QED BY <2>1, <2>2 DEF ReadHash
<1> QED BY <1>1, <1>2, SentStays DEF Typed, ReadHash

\* setNomination adds the row, or puts it in the place of one, or does nothing.
LEMMA RowsAfter ==
  ASSUME rows \in Seq(Row), NEW row \in Row, SetNomination(row)
  PROVE  /\ rows' \in Seq(Row)
         /\ \A i \in DOMAIN rows' : \/ rows'[i] = row
                                    \/ i \in DOMAIN rows /\ rows'[i] = rows[i]
<1>1. CASE rows' = Append(rows, row)
  BY <1>1, AppendProperties
<1>2. CASE rows' = rows
  BY <1>2
<1>3. CASE rows # <<>> /\ rows' = [rows EXCEPT ![1] = row]
  <2>1. 1 \in DOMAIN rows
    BY <1>3, EmptySeq
  <2> QED BY <1>3, <2>1, ExceptSeq
<1>4. ASSUME \E i \in DOMAIN rows : TRUE PROVE rows # <<>>
  BY <1>4, EmptySeq
<1> QED BY <1>1, <1>2, <1>3, <1>4 DEF SetNomination

\* The row the round has in hand.
NewRow == [nom |-> Groups[roundPos], era |-> era, targets |-> targets, hash |-> hash]

LEMMA NewRowTyped ==
  ASSUME Typed, roundPc = "row"
  PROVE  NewRow \in Row
<1>1. Groups[roundPos] \in Proxied
  BY DEF Typed, RoundTyped
<1>2. era \in Nat /\ targets \in Seq(Candidates) /\ hash \in {"", "hash", "error"}
  BY DEF Typed, RestTyped, RoundTyped
<1> QED BY <1>1, <1>2 DEF NewRow, Row

\* Every row is one there was, or the row in hand.
LEMMA RecordMoves ==
  ASSUME Typed, RecordRow
  PROVE  /\ roundPc = "row" /\ UNCHANGED <<era, active, current, sent, crossed>> /\ NextNominator
         /\ rows' \in Seq(Row)
         /\ \A i \in DOMAIN rows' : \/ rows'[i] = NewRow
                                    \/ i \in DOMAIN rows /\ rows'[i] = rows[i]
<1>1. roundPc = "row" /\ UNCHANGED <<era, active, current, sent, crossed>> /\ NextNominator
  BY DEF RecordRow, outsideRound, chainVars
<1>2. rows \in Seq(Row)
  BY DEF Typed, RestTyped
<1>3. CASE UNCHANGED rows
  BY <1>1, <1>2, <1>3
<1>4. CASE SetNomination(NewRow)
  BY <1>1, <1>2, <1>4, NewRowTyped, RowsAfter
<1> QED BY <1>3, <1>4 DEF RecordRow, NewRow

LEMMA RecordRowTyped ==
  ASSUME Typed, RecordRow
  PROVE  Typed'
<1>1. RoundTyped'
  BY NextTyped, RecordMoves DEF Typed
<1>2. faulted' \subseteq FaultKinds
  BY FaultedGrows DEF Typed, RecordRow
<1>3. RestTyped'
  BY <1>2, RecordMoves DEF Typed, RestTyped
<1> QED BY <1>1, <1>3, SentStays, RecordMoves DEF Typed

LEMMA FinishRoundTyped ==
  ASSUME Typed, FinishRound
  PROVE  Typed'
<1>1. RestTyped'
  BY RestStays DEF Typed, FinishRound, outsideRound, RestTyped
<1> QED BY <1>1, IdleTyped, SentStays DEF Typed, FinishRound

LEMMA NewEraTyped ==
  ASSUME Typed, NewEra
  PROVE  Typed'
<1>1. era' \in Nat
  <2>1. era \in Nat /\ era' = era + 1
    BY DEF Typed, RestTyped, NewEra
  <2> QED BY <2>1
<1>2. UNCHANGED <<active, current, rows, faulted, crossed>>
  BY DEF NewEra, dbVars
<1>3. RestTyped'
  BY <1>1, <1>2 DEF Typed, RestTyped
<1> QED BY <1>3, RoundStays, SentStays DEF Typed, NewEra

\* The transaction is included, with what is nominated then.
LEMMA IncludeMoves ==
  ASSUME Typed, NEW k \in DOMAIN sent, IncludeTx(k)
  PROVE  /\ SentTyped' /\ Kept
         /\ sent[k].stage = "pool" /\ sent'[k].stage = "block"
         /\ sent'[k].heard = sent[k].heard
         /\ \A l \in DOMAIN sent \ {k} : sent'[l] = sent[l]
         /\ UNCHANGED <<era, current, rows, crossed>> /\ UNCHANGED roundVars
         /\ \/ NoFault /\ active' = [active EXCEPT ![sent[k].nom] =
                                       [targets |-> sent[k].targets, era |-> era]]
            \/ (\E kind : Fault(kind)) /\ UNCHANGED active
<1>1. "block" \in Stages /\ "block" \notin {"push", "done", "final", "clear", "era"}
  BY DEF Stages
<1>2. sent[k].stage = "pool" /\ sent' = [sent EXCEPT ![k].stage = "block"]
  BY DEF IncludeTx
<1>3. /\ SentTyped' /\ Kept /\ sent'[k].stage = "block" /\ sent'[k].heard = sent[k].heard
      /\ \A l \in DOMAIN sent \ {k} : sent'[l] = sent[l]
  BY <1>1, <1>2, StageMoves DEF Typed
<1> QED BY <1>2, <1>3 DEF IncludeTx, dbVars

LEMMA IncludeTyped ==
  ASSUME Typed, NEW k \in DOMAIN sent, IncludeTx(k)
  PROVE  Typed'
<1>1. active' \in [Nominators -> [targets : Seq(Candidates), era : Nat]]
  <2>1. sent[k].nom \in Nominators /\ sent[k].targets \in Seq(Candidates)
    BY TxFields DEF Typed
  <2>2. era \in Nat /\ active \in [Nominators -> [targets : Seq(Candidates), era : Nat]]
    BY DEF Typed, RestTyped
  <2>3. [targets |-> sent[k].targets, era |-> era] \in [targets : Seq(Candidates), era : Nat]
    BY <2>1, <2>2
  <2> QED BY <2>1, <2>2, <2>3, IncludeMoves
<1>2. faulted' \subseteq FaultKinds
  BY FaultedGrows, IncludeMoves DEF Typed
<1>3. RestTyped'
  BY <1>1, <1>2, IncludeMoves DEF Typed, RestTyped
<1> QED BY <1>3, IncludeMoves, RoundStays DEF Typed

\* A step of one transaction, or of its callback, to the stage s; what is shown may change.
LEMMA OneStageTyped ==
  ASSUME Typed, NEW k \in DOMAIN sent, NEW s \in Stages,
         s \in {"push", "done"} \/ sent[k].stage \notin {"push", "done"},
         s \in {"final", "clear", "era", "push"} => sent[k].heard,
         sent' = [sent EXCEPT ![k].stage = s],
         UNCHANGED <<chainVars, rows, roundVars, crossed>>,
         current' \in [Nominators -> Seq(Candidates)],
         (\E kind : Fault(kind)) \/ NoFault
  PROVE  Typed'
<1>1. SentTyped'
  BY StageMoves DEF Typed
<1>2. faulted' \subseteq FaultKinds
  BY FaultedGrows DEF Typed
<1>3. RestTyped'
  BY <1>2 DEF Typed, RestTyped, chainVars
<1> QED BY <1>1, <1>3, RoundStays DEF Typed

LEMMA LoseTyped ==
  ASSUME Typed, NEW k \in DOMAIN sent, LoseTx(k)
  PROVE  Typed'
<1>1. "lost" \in Stages /\ sent[k].stage \notin {"push", "done"}
  BY DEF Stages, LoseTx
<1>2. sent' = [sent EXCEPT ![k].stage = "lost"] /\ \E kind : Fault(kind)
  BY DEF LoseTx
<1>3. current' \in [Nominators -> Seq(Candidates)]
      /\ UNCHANGED <<chainVars, rows, roundVars, crossed>>
  BY DEF LoseTx, dbVars, Typed, RestTyped
<1> QED BY <1>1, <1>2, <1>3, OneStageTyped

LEMMA FinaliseTyped ==
  ASSUME Typed, NEW k \in DOMAIN sent, FinaliseTx(k)
  PROVE  Typed'
<1> DEFINE s == IF sent[k].heard THEN "final" ELSE "done"
<1>1. /\ s \in Stages /\ sent[k].stage \notin {"push", "done"}
      /\ s \in {"final", "clear", "era", "push"} => sent[k].heard
  BY DEF Stages, FinaliseTx
<1>2. sent' = [sent EXCEPT ![k].stage = s] /\ NoFault
  BY DEF FinaliseTx, NoFault
<1>3. current' \in [Nominators -> Seq(Candidates)]
      /\ UNCHANGED <<chainVars, rows, roundVars, crossed>>
  BY DEF FinaliseTx, dbVars, Typed, RestTyped
<1> HIDE DEF s
<1> QED BY <1>1, <1>2, <1>3, OneStageTyped

LEMMA DieTyped ==
  ASSUME Typed, Die, \E kind : Fault(kind)
  PROVE  Typed'
<1>1. faulted' \subseteq FaultKinds
  BY FaultedGrows DEF Typed
<1>2. RestTyped'
  BY <1>1, RestStays DEF Typed, Die, dbVars
<1> QED BY <1>2, DieMoves DEF Typed

LEMMA ReadCurrentTyped ==
  ASSUME Typed, NEW k \in DOMAIN sent, ReadCurrent(k)
  PROVE  Typed'
<1> DEFINE s == IF current[sent[k].nom] # <<>> THEN "clear" ELSE "era"
<1>1. s \in Stages /\ sent[k].stage \notin {"push", "done"} /\ sent[k].heard
  BY DEF Stages, ReadCurrent, Typed, SentTyped
<1>2. sent' = [sent EXCEPT ![k].stage = s] /\ NoFault
  BY DEF ReadCurrent, Goto, NoFault
<1>3. current' \in [Nominators -> Seq(Candidates)]
      /\ UNCHANGED <<chainVars, rows, roundVars, crossed>>
  BY DEF ReadCurrent, outsideCallback, Typed, RestTyped
<1> HIDE DEF s
<1> QED BY <1>1, <1>2, <1>3, OneStageTyped

LEMMA ClearTyped ==
  ASSUME Typed, NEW k \in DOMAIN sent, ClearCurrent(k)
  PROVE  Typed'
<1>1. "era" \in Stages /\ sent[k].stage \notin {"push", "done"} /\ sent[k].heard
  BY DEF Stages, ClearCurrent, Typed, SentTyped
<1>2. sent' = [sent EXCEPT ![k].stage = "era"] /\ NoFault
  BY DEF ClearCurrent, Goto, NoFault
<1>3. current' \in [Nominators -> Seq(Candidates)]
  <2>1. <<>> \in Seq(Candidates)
    BY EmptySeq
  <2> QED BY <2>1 DEF ClearCurrent, Typed, RestTyped
<1>4. UNCHANGED <<chainVars, rows, roundVars, crossed>>
  BY DEF ClearCurrent, outsideCallback
<1> QED BY <1>1, <1>2, <1>3, <1>4, OneStageTyped

LEMMA ReadEraMoves ==
  ASSUME Typed, NEW k \in DOMAIN sent, ReadEra(k)
  PROVE  /\ sent[k].stage = "era"
         /\ \/ /\ NoFault /\ sent' = [sent EXCEPT ![k].stage = "push"]
               /\ UNCHANGED <<chainVars, rows, roundVars, crossed>> /\ UNCHANGED current
            \/ Die /\ \E kind : Fault(kind)
BY DEF ReadEra, Goto, outsideCallback

LEMMA ReadEraTyped ==
  ASSUME Typed, NEW k \in DOMAIN sent, ReadEra(k)
  PROVE  Typed'
<1>1. CASE /\ NoFault /\ sent' = [sent EXCEPT ![k].stage = "push"]
           /\ UNCHANGED <<chainVars, rows, roundVars, crossed>> /\ UNCHANGED current
  <2>1. "push" \in Stages /\ "push" \in {"push", "done"} /\ sent[k].heard
    BY ReadEraMoves DEF Stages, Typed, SentTyped
  <2>2. current' \in [Nominators -> Seq(Candidates)]
    BY <1>1 DEF Typed, RestTyped
  <2> QED BY <1>1, <2>1, <2>2, OneStageTyped
<1>2. CASE Die /\ \E kind : Fault(kind)
  BY <1>2, DieTyped
<1> QED BY <1>1, <1>2, ReadEraMoves

\* The target is appended; the callback goes to the next one or ends.
LEMMA PushMoves ==
  ASSUME Typed, NEW k \in DOMAIN sent, PushTarget(k)
  PROVE  /\ SentTyped' /\ Kept /\ sent[k].stage = "push"
         /\ \/ sent'[k].stage = "done"
            \/ sent'[k].stage = "push" /\ sent'[k].pos = sent[k].pos + 1
         /\ sent[k].heard /\ sent'[k].heard
         /\ \A l \in DOMAIN sent \ {k} : sent'[l] = sent[l]
<1>1. sent[k].stage = "push" /\ sent[k].heard
  BY DEF PushTarget, Typed, SentTyped
<1>2. CASE sent[k].pos < Len(sent[k].targets)
  <2> DEFINE tx == [sent[k] EXCEPT !.pos = sent[k].pos + 1]
  <2>1. sent' = [sent EXCEPT ![k] = tx]
    BY <1>2 DEF PushTarget, NextTarget
  <2>2. /\ sent[k] \in Tx /\ sent[k].pos + 1 \in Nat
        /\ sent[k].pos + 1 \in 1 .. Len(sent[k].targets)
    BY <1>2, TxFields DEF Typed
  <2>3. /\ tx \in Tx /\ tx.nom = sent[k].nom /\ tx.targets = sent[k].targets
        /\ tx.pos = sent[k].pos + 1 /\ tx.stage = sent[k].stage /\ tx.heard = sent[k].heard
    BY <2>2, TxPos
  <2> HIDE DEF tx
  <2>4. tx.pos \in 1 .. Len(tx.targets) /\ tx.stage \in {"push", "done"} /\ tx.heard
    BY <2>2, <2>3, <1>1
  <2>5. SentTyped' /\ Kept /\ sent'[k] = tx /\ \A l \in DOMAIN sent \ {k} : sent'[l] = sent[l]
    BY <2>1, <2>3, <2>4, OneMoves DEF Typed
  <2> QED BY <1>1, <2>3, <2>5
<1>3. CASE ~(sent[k].pos < Len(sent[k].targets))
  <2>1. sent' = [sent EXCEPT ![k].stage = "done"]
    BY <1>3 DEF PushTarget, NextTarget
  <2>2. "done" \in Stages /\ "done" \in {"push", "done"}
    BY DEF Stages
  <2>3. /\ SentTyped' /\ Kept /\ sent'[k].stage = "done" /\ sent'[k].heard = sent[k].heard
        /\ \A l \in DOMAIN sent \ {k} : sent'[l] = sent[l]
    BY <2>1, <2>2, StageMoves DEF Typed
  <2> QED BY <1>1, <2>3
<1> QED BY <1>2, <1>3

LEMMA PushTyped ==
  ASSUME Typed, NEW k \in DOMAIN sent, PushTarget(k)
  PROVE  Typed'
<1>1. current' \in [Nominators -> Seq(Candidates)]
  <2>1. /\ sent[k].nom \in Nominators /\ sent[k].targets \in Seq(Candidates)
        /\ sent[k].pos \in 1 .. Len(sent[k].targets)
    BY TxFields DEF Typed
  <2>2. sent[k].targets[sent[k].pos] \in Candidates
    BY <2>1, ElementOfSeq
  <2>3. current \in [Nominators -> Seq(Candidates)]
    BY DEF Typed, RestTyped
  <2>4. Append(current[sent[k].nom], sent[k].targets[sent[k].pos]) \in Seq(Candidates)
    BY <2>1, <2>2, <2>3, AppendProperties
  <2> QED BY <2>3, <2>4 DEF PushTarget, Push
<1>2. UNCHANGED <<chainVars, rows, roundVars, faulted, crossed>>
  BY DEF PushTarget, outsideCallback
<1>3. RestTyped'
  BY <1>1, <1>2 DEF Typed, RestTyped, chainVars
<1> QED BY <1>2, <1>3, PushMoves, RoundStays DEF Typed

LEMMA InitTyped == Init => Typed
<1> SUFFICES ASSUME Init PROVE Typed
  OBVIOUS
<1>1. <<>> \in Seq(Candidates) /\ <<>> \in Seq(Tx) /\ Len(<<>>) = 0
  BY EmptySeq
<1>2. SentTyped
  <2>1. sent = <<>>
    BY DEF Init
  <2>2. sent \in Seq(Tx) /\ Len(sent) = 0
    BY <1>1, <2>1
  <2>3. DOMAIN sent = 1 .. 0
    BY <2>2, LenProperties
  <2> QED BY <2>2, <2>3 DEF SentTyped
<1>3. RestTyped
  <2>1. era \in Nat /\ rows \in Seq(Row) /\ faulted = {} /\ crossed = {}
    BY EmptySeq DEF Init
  <2>2. current \in [Nominators -> Seq(Candidates)]
    BY <1>1 DEF Init
  <2>3. active \in [Nominators -> [targets : Seq(Candidates), era : Nat]]
    <3>1. [targets |-> <<>>, era |-> 0] \in [targets : Seq(Candidates), era : Nat]
      BY <1>1
    <3> QED BY <3>1 DEF Init
  <2> QED BY <2>1, <2>2, <2>3 DEF RestTyped
<1>4. RoundTyped
  <2>1. 1 \in Nat \ {0} /\ 0 \in Nat
    OBVIOUS
  <2>2. /\ ranking \in Seq(Candidates) /\ targets \in Seq(Candidates)
        /\ roundPos \in Nat \ {0} /\ counter \in Nat
    BY <1>1, <2>1, Zenon DEF Init
  <2>3. hash \in {"", "hash", "error"}
    BY DEF Init
  <2>4. /\ roundPc \in RoundStages /\ roundPc \notin {"send", "sent", "row"}
        /\ roundPc # "row" /\ roundPc # "send"
    BY DEF Init, RoundStages
  <2> QED BY <2>2, <2>3, <2>4 DEF RoundTyped
<1> QED BY <1>2, <1>3, <1>4 DEF Typed

\* The cases of a step.
LEMMA Cases ==
  ASSUME Next
  PROVE  \/ NewEra \/ Crash
         \/ StartRound \/ Visit \/ Send \/ ReadHash \/ RecordRow \/ FinishRound
         \/ \E k \in DOMAIN sent : \/ IncludeTx(k) \/ LoseTx(k) \/ FinaliseTx(k)
                                   \/ ReadCurrent(k) \/ ClearCurrent(k) \/ ReadEra(k)
                                   \/ PushTarget(k)
BY DEF Next, Round, Callback

LEMMA NextTypes == Typed /\ [Next]_vars => Typed'
<1> SUFFICES ASSUME Typed, [Next]_vars PROVE Typed'
  OBVIOUS
<1>1. CASE UNCHANGED vars
  <2>1. /\ UNCHANGED <<chainVars, current, rows, crossed>> /\ UNCHANGED sent
        /\ UNCHANGED roundVars /\ UNCHANGED faulted
    BY <1>1 DEF vars, dbVars
  <2>2. RestTyped'
    BY <2>1, RestStays DEF Typed, RestTyped
  <2> QED BY <2>1, <2>2, SentStays, RoundStays DEF Typed
<1>2. CASE Crash
  BY <1>2, DieTyped DEF Crash
<1>3. CASE NewEra \/ StartRound \/ Visit \/ Send \/ ReadHash \/ RecordRow \/ FinishRound
  BY <1>3, NewEraTyped, StartRoundTyped, VisitTyped, SendTyped, ReadHashTyped, RecordRowTyped,
     FinishRoundTyped
<1>4. ASSUME NEW k \in DOMAIN sent,
             \/ IncludeTx(k) \/ LoseTx(k) \/ FinaliseTx(k)
             \/ ReadCurrent(k) \/ ClearCurrent(k) \/ ReadEra(k) \/ PushTarget(k)
      PROVE  Typed'
  BY <1>4, IncludeTyped, LoseTyped, FinaliseTyped, ReadCurrentTyped, ClearTyped, ReadEraTyped,
     PushTyped
<1> QED BY <1>1, <1>2, <1>3, <1>4, Cases

\* Every variable keeps to its kind, what is sent has targets, the stages of a round that send
\* or record have a nominator in hand: whatever the accounts are configured, also one twice.
THEOREM StakingTyped == Spec => []TypeOK
<1>1. Init => Typed
  BY InitTyped
<1>2. Typed /\ [Next]_vars => Typed'
  BY NextTypes
<1>3. Typed => TypeOK
  BY TypeParts
<1> QED BY <1>1, <1>2, <1>3, PTL DEF Spec
-----------------------------------------------------------------------------
(* Every step keeps what waits in the pool crossed, or old.                *)

\* A step that sends nothing, puts nothing in the pool and nominates nothing on chain.
LEMMA QuietPool ==
  ASSUME PoolInv, Kept, UNCHANGED <<era, active, crossed>>, Len(sent') = Len(sent),
         \A k \in DOMAIN sent : Waits(k)' => Waits(k),
         roundPc' = "send" => roundPc = "send" /\ UNCHANGED roundPos
  PROVE  PoolInv'
<1>1. /\ DOMAIN sent' = DOMAIN sent
      /\ \A k \in DOMAIN sent : sent'[k].nom = sent[k].nom
  BY DEF Kept
<1>2. PoolCrossed'
  <2>1. ASSUME NEW k \in DOMAIN sent, NEW l \in DOMAIN sent, Waits(k)', Waits(l)',
               sent[k].nom = sent[l].nom, k # l
        PROVE  k \in crossed
    BY <2>1 DEF PoolInv, PoolCrossed
  <2>2. ASSUME roundPc' = "send", NEW k \in DOMAIN sent, Waits(k)',
               sent[k].nom = Groups[roundPos]
        PROVE  k \in crossed /\ Len(sent) + 1 \in crossed
    BY <2>2 DEF PoolInv, PoolCrossed
  <2> QED BY <1>1, <2>1, <2>2 DEF PoolCrossed
<1>3. PoolOld'
  <2>1. ASSUME NEW k \in DOMAIN sent, Waits(k)', k \notin crossed
        PROVE  era > active[sent[k].nom].era
    BY <2>1 DEF PoolInv, PoolOld
  <2> QED BY <1>1, <2>1 DEF PoolInv, PoolOld
<1> QED BY <1>2, <1>3 DEF PoolInv

LEMMA SameLength ==
  ASSUME SentTyped, SentTyped', Kept
  PROVE  Len(sent') = Len(sent)
<1>1. /\ Len(sent) \in Nat /\ Len(sent') \in Nat /\ 1 .. Len(sent') = 1 .. Len(sent)
  BY DEF SentTyped, Kept
<1> QED BY <1>1

\* A step of the round that sends nothing and has taken no slice.
LEMMA QuietRound ==
  ASSUME PoolInv, UNCHANGED <<era, active, sent, crossed>>,
         roundPc' = "send" => roundPc = "send" /\ UNCHANGED roundPos
  PROVE  PoolInv'
BY QuietPool DEF Kept, Waits

\* A nominator that has its slice is an old one, and has crossed what waits of it.
LEMMA VisitPool ==
  ASSUME Typed, PoolInv, Visit
  PROVE  PoolInv'
<1>1. /\ roundPc = "visit" /\ roundPos \in DOMAIN Groups /\ UNCHANGED <<era, active, sent>>
  BY DEF Visit, outsideRound, chainVars
<1>2. CASE UNCHANGED crossed /\ roundPc' # "send"
  BY <1>1, <1>2, QuietRound
<1>3. CASE Cross(Groups[roundPos]) /\ roundPc' = "send" /\ UNCHANGED roundPos
  <2> DEFINE n == Groups[roundPos]
             last == Len(sent) + 1
  <2>1. last \notin DOMAIN sent
    BY DEF Typed, SentTyped
  <2>2. \A k \in DOMAIN sent : k \in crossed => k \in crossed'
    BY <1>3, <2>1 DEF Cross
  <2>3. era > active[n].era
    <3>1. n \in Nominators
      BY <1>1, GroupFields
    <3>2. era \in Nat /\ active[n].era \in Nat
      BY <3>1 DEF Typed, RestTyped
    <3>3. era - active[n].era >= 1
      BY <1>3, VisitMoves DEF Typed, Old, Idle, NextNominator
    <3> QED BY <3>2, <3>3
  <2>4. ASSUME NEW k \in DOMAIN sent, Waits(k), sent[k].nom = n
        PROVE  k \in crossed' /\ last \in crossed'
    BY <1>3, <2>4 DEF Cross, WaitingOf, Waits
  <2> HIDE DEF last
  <2>5. PoolCrossed'
    <3>1. \A k, l \in DOMAIN sent :
            Waits(k) /\ Waits(l) /\ sent[k].nom = sent[l].nom /\ k # l => k \in crossed'
      BY <2>2 DEF PoolInv, PoolCrossed
    <3> QED BY <1>1, <1>3, <2>4, <3>1 DEF PoolCrossed, Waits, last
  <2>6. PoolOld'
    <3>1. \A k \in DOMAIN sent : Waits(k) /\ k \notin crossed' => era > active[sent[k].nom].era
      BY <2>2 DEF PoolInv, PoolOld
    <3> QED BY <1>1, <1>3, <2>3, <3>1 DEF PoolOld, Waits
  <2> QED BY <2>5, <2>6 DEF PoolInv
<1> QED BY <1>2, <1>3, VisitCrosses DEF Typed

LEMMA SendPool ==
  ASSUME Typed, PoolInv, Send
  PROVE  PoolInv'
<1>1. /\ UNCHANGED <<era, active, crossed>> /\ roundPc = "send" /\ roundPc' # "send"
  BY SendMoves DEF NextNominator
<1>2. CASE sent' = Append(sent, NewTx)
  <2> DEFINE last == Len(sent) + 1
  <2>1. NewTx \in Tx /\ NewTx.targets # <<>> /\ NewTx.pos = 1 /\ NewTx.heard
    BY <1>1, NewTxTyped DEF Typed
  <2>2. /\ DOMAIN sent' = DOMAIN sent \cup {last} /\ sent'[last].nom = Groups[roundPos]
        /\ \A k \in DOMAIN sent : sent'[k] = sent[k]
    <3>1. NewTx.nom = Groups[roundPos]
      BY DEF NewTx
    <3> QED BY <1>2, <2>1, <3>1, SentNew DEF Typed
  <2>3. /\ \A k, l \in DOMAIN sent :
             Waits(k) /\ Waits(l) /\ sent[k].nom = sent[l].nom /\ k # l => k \in crossed
        /\ \A k \in DOMAIN sent : Waits(k) /\ sent[k].nom = Groups[roundPos] =>
                                    k \in crossed /\ last \in crossed
    BY <1>1 DEF PoolInv, PoolCrossed
  <2>4. /\ \A k \in DOMAIN sent : Waits(k) /\ k \notin crossed => era > active[sent[k].nom].era
        /\ last \notin crossed => era > active[Groups[roundPos]].era
    BY <1>1 DEF PoolInv, PoolOld
  <2> HIDE DEF last
  <2>5. PoolCrossed'
    <3>1. ASSUME NEW k \in DOMAIN sent', NEW l \in DOMAIN sent', Waits(k)', Waits(l)',
                 sent'[k].nom = sent'[l].nom, k # l
          PROVE  k \in crossed
      <4>1. CASE k \in DOMAIN sent /\ l \in DOMAIN sent
        BY <2>2, <2>3, <3>1, <4>1 DEF Waits
      <4>2. CASE k = last /\ l \in DOMAIN sent
        BY <2>2, <2>3, <3>1, <4>2 DEF Waits
      <4>3. CASE k \in DOMAIN sent /\ l = last
        BY <2>2, <2>3, <3>1, <4>3 DEF Waits
      <4> QED BY <2>2, <3>1, <4>1, <4>2, <4>3
    <3> QED BY <1>1, <3>1 DEF PoolCrossed
  <2>6. PoolOld'
    <3>1. ASSUME NEW k \in DOMAIN sent', Waits(k)', k \notin crossed
          PROVE  era > active[sent'[k].nom].era
      <4>1. CASE k \in DOMAIN sent
        BY <2>2, <2>4, <3>1, <4>1 DEF Waits
      <4>2. CASE k = last
        BY <2>2, <2>4, <3>1, <4>2
      <4> QED BY <2>2, <4>1, <4>2
    <3> QED BY <1>1, <3>1 DEF PoolOld
  <2> QED BY <2>5, <2>6 DEF PoolInv
<1>3. CASE UNCHANGED sent
  BY <1>1, <1>3, QuietRound
<1> QED BY <1>2, <1>3, SendMoves

LEMMA NewEraPool ==
  ASSUME Typed, PoolInv, NewEra
  PROVE  PoolInv'
<1>1. UNCHANGED <<active, sent, crossed, roundPc, roundPos>> /\ era' = era + 1
  BY DEF NewEra, roundVars
<1>2. \A n \in Nominators : era > active[n].era => era' > active[n].era
  <2> SUFFICES ASSUME NEW n \in Nominators, era > active[n].era PROVE era' > active[n].era
    OBVIOUS
  <2>1. era \in Nat /\ active[n].era \in Nat
    BY DEF Typed, RestTyped
  <2> QED BY <1>1, <2>1
<1>3. \A k \in DOMAIN sent : sent[k].nom \in Nominators
  BY TxFields DEF Typed
<1>4. roundPc = "send" => Groups[roundPos] \in Nominators
  BY GroupFields DEF Typed, RoundTyped
<1>5. PoolOld'
  BY <1>1, <1>2, <1>3, <1>4 DEF PoolInv, PoolOld, Waits
<1>6. PoolCrossed'
  BY <1>1 DEF PoolInv, PoolCrossed, Waits
<1> QED BY <1>5, <1>6 DEF PoolInv

\* What is left of the nominator in the pool, or in the hand of the round, has crossed it.
LEMMA IncludePool ==
  ASSUME Typed, PoolInv, NEW k \in DOMAIN sent, IncludeTx(k)
  PROVE  PoolInv'
<1>1. /\ SentTyped' /\ Kept /\ sent[k].stage = "pool" /\ sent'[k].stage = "block"
      /\ \A l \in DOMAIN sent \ {k} : sent'[l] = sent[l]
      /\ UNCHANGED <<era, crossed, roundPc, roundPos>>
  BY IncludeMoves DEF roundVars
<1>2. \A l \in DOMAIN sent : Waits(l)' => l # k /\ Waits(l)
  BY <1>1 DEF Waits
<1>3. Len(sent') = Len(sent)
  BY <1>1, SameLength DEF Typed
<1>4. CASE UNCHANGED active
  BY <1>1, <1>2, <1>3, <1>4, QuietPool
<1>5. CASE active' = [active EXCEPT ![sent[k].nom] = [targets |-> sent[k].targets, era |-> era]]
  <2>1. \A n \in Nominators : n # sent[k].nom => active'[n] = active[n]
    BY <1>5 DEF Typed, RestTyped
  <2>2. PoolCrossed'
    <3>1. ASSUME NEW l \in DOMAIN sent, NEW m \in DOMAIN sent, Waits(l)', Waits(m)',
                 sent[l].nom = sent[m].nom, l # m
          PROVE  l \in crossed
      BY <1>2, <3>1 DEF PoolInv, PoolCrossed
    <3>2. ASSUME roundPc = "send", NEW l \in DOMAIN sent, Waits(l)',
                 sent[l].nom = Groups[roundPos]
          PROVE  l \in crossed /\ Len(sent) + 1 \in crossed
      BY <1>2, <3>2 DEF PoolInv, PoolCrossed
    <3> QED BY <1>1, <1>3, <3>1, <3>2 DEF PoolCrossed, Kept
  <2>3. ASSUME NEW l \in DOMAIN sent, Waits(l)', l \notin crossed
        PROVE  era > active'[sent[l].nom].era
    <3>1. l # k /\ Waits(l) /\ Waits(k)
      BY <1>1, <1>2, <2>3 DEF Waits
    <3>2. sent[l].nom # sent[k].nom
      BY <2>3, <3>1 DEF PoolInv, PoolCrossed
    <3>3. active'[sent[l].nom] = active[sent[l].nom]
      BY <2>1, <3>2, TxFields DEF Typed
    <3> QED BY <2>3, <3>1, <3>3 DEF PoolInv, PoolOld
  <2>4. ASSUME roundPc = "send", Len(sent) + 1 \notin crossed
        PROVE  era > active'[Groups[roundPos]].era
    <3>1. Groups[roundPos] # sent[k].nom
      BY <1>1, <2>4 DEF PoolInv, PoolCrossed, Waits
    <3>2. Groups[roundPos] \in Nominators
      BY <2>4, GroupFields DEF Typed, RoundTyped
    <3>3. active'[Groups[roundPos]] = active[Groups[roundPos]]
      BY <2>1, <3>1, <3>2
    <3> QED BY <2>4, <3>3 DEF PoolInv, PoolOld
  <2>5. PoolOld'
    BY <1>1, <1>3, <2>3, <2>4 DEF PoolOld, Kept
  <2> QED BY <2>2, <2>5 DEF PoolInv
<1> QED BY <1>4, <1>5, IncludeMoves

LEMMA DiePool ==
  ASSUME Typed, PoolInv, Die
  PROVE  PoolInv'
<1>1. /\ SentTyped' /\ Kept /\ roundPc' = "idle"
      /\ \A k \in DOMAIN sent : sent'[k].stage = IF sent[k].stage \in {"pool", "block", "lost"}
                                                 THEN sent[k].stage ELSE "done"
  BY DieMoves DEF Typed
<1>2. \A k \in DOMAIN sent : Waits(k)' => Waits(k)
  BY <1>1 DEF Waits
<1>3. UNCHANGED <<era, active, crossed>> /\ roundPc' # "send"
  BY <1>1 DEF Die, chainVars
<1> QED BY <1>1, <1>2, <1>3, SameLength, QuietPool DEF Typed

\* What a step of the chain or of a callback does to its transaction.
LEMMA ChainMoves ==
  ASSUME Typed, NEW k \in DOMAIN sent,
         \/ LoseTx(k) \/ FinaliseTx(k) \/ ReadCurrent(k) \/ ClearCurrent(k)
         \/ (ReadEra(k) /\ ~Die) \/ PushTarget(k)
  PROVE  /\ SentTyped' /\ Kept /\ sent'[k].stage # "pool"
         /\ sent'[k].heard => sent[k].heard
         /\ \A l \in DOMAIN sent \ {k} : sent'[l] = sent[l]
         /\ UNCHANGED <<chainVars, roundVars, rows, crossed>>
<1>1. CASE PushTarget(k)
  <2>1. UNCHANGED <<chainVars, roundVars, rows, crossed>>
    BY <1>1 DEF PushTarget, outsideCallback
  <2>2. /\ SentTyped' /\ Kept /\ sent'[k].stage \in {"push", "done"} /\ sent[k].heard
        /\ \A l \in DOMAIN sent \ {k} : sent'[l] = sent[l]
    BY <1>1, PushMoves
  <2> QED BY <2>1, <2>2
<1>2. CASE ~PushTarget(k)
  <2>1. PICK s \in Stages \ {"pool"} :
          /\ sent' = [sent EXCEPT ![k].stage = s]
          /\ s \in {"push", "done"} \/ sent[k].stage \notin {"push", "done"}
          /\ s \in {"final", "clear", "era", "push"} => sent[k].heard
    <3>1. {"lost", "final", "done", "clear", "era", "push"} \subseteq Stages \ {"pool"}
      BY DEF Stages
    <3>2. CASE LoseTx(k) \/ FinaliseTx(k)
      BY <3>1, <3>2 DEF LoseTx, FinaliseTx
    <3>3. CASE ReadCurrent(k) \/ ClearCurrent(k) \/ (ReadEra(k) /\ ~Die)
      <4>1. sent[k].heard /\ sent[k].stage \notin {"push", "done"}
        BY <3>3 DEF ReadCurrent, ClearCurrent, ReadEra, Typed, SentTyped
      <4>2. \E s \in {"clear", "era", "push"} : sent' = [sent EXCEPT ![k].stage = s]
        BY <3>3 DEF ReadCurrent, ClearCurrent, ReadEra, Goto
      <4> QED BY <3>1, <4>1, <4>2
    <3> QED BY <1>2, <3>2, <3>3
  <2>2. /\ SentTyped' /\ Kept /\ sent'[k].stage = s /\ sent'[k].heard = sent[k].heard
        /\ \A l \in DOMAIN sent \ {k} : sent'[l] = sent[l]
    BY <2>1, StageMoves DEF Typed
  <2>3. UNCHANGED <<chainVars, roundVars, rows, crossed>>
    BY <1>2 DEF LoseTx, FinaliseTx, ReadCurrent, ClearCurrent, ReadEra, outsideCallback, dbVars
  <2> QED BY <2>1, <2>2, <2>3
<1> QED BY <1>1, <1>2

LEMMA ChainPool ==
  ASSUME Typed, PoolInv, NEW k \in DOMAIN sent,
         \/ LoseTx(k) \/ FinaliseTx(k) \/ ReadCurrent(k) \/ ClearCurrent(k)
         \/ ReadEra(k) \/ PushTarget(k)
  PROVE  PoolInv'
<1>1. CASE Die
  BY <1>1, DiePool
<1>2. CASE ~Die
  <2>1. /\ SentTyped' /\ Kept /\ sent'[k].stage # "pool"
        /\ \A l \in DOMAIN sent \ {k} : sent'[l] = sent[l]
        /\ UNCHANGED <<chainVars, roundVars, rows, crossed>>
    BY <1>2, ChainMoves
  <2>2. \A l \in DOMAIN sent : Waits(l)' => Waits(l)
    BY <2>1 DEF Waits
  <2> QED BY <2>1, <2>2, SameLength, QuietPool DEF Typed, chainVars, roundVars
<1> QED BY <1>1, <1>2

LEMMA NextPool == Typed /\ PoolInv /\ [Next]_vars => PoolInv'
<1> SUFFICES ASSUME Typed, PoolInv, [Next]_vars PROVE PoolInv'
  OBVIOUS
<1>1. CASE UNCHANGED vars
  <2>1. UNCHANGED <<era, active, sent, crossed, roundPc, roundPos>>
    BY <1>1 DEF vars, chainVars, roundVars
  <2> QED BY <2>1, QuietRound
<1>2. CASE Crash
  BY <1>2, DiePool DEF Crash
<1>3. CASE NewEra \/ Visit \/ Send
  BY <1>3, NewEraPool, VisitPool, SendPool
<1>4. CASE StartRound \/ ReadHash \/ RecordRow \/ FinishRound
  <2>1. UNCHANGED <<era, active, sent, crossed>>
    BY <1>4 DEF StartRound, ReadHash, RecordRow, FinishRound, outsideRound, chainVars
  <2>2. roundPc' # "send"
    BY <1>4 DEF StartRound, ReadHash, RecordRow, FinishRound, NextNominator, Idle
  <2> QED BY <2>1, <2>2, QuietRound
<1>5. ASSUME NEW k \in DOMAIN sent,
             \/ IncludeTx(k) \/ LoseTx(k) \/ FinaliseTx(k)
             \/ ReadCurrent(k) \/ ClearCurrent(k) \/ ReadEra(k) \/ PushTarget(k)
      PROVE  PoolInv'
  BY <1>5, IncludePool, ChainPool
<1> QED BY <1>1, <1>2, <1>3, <1>4, <1>5, Cases

LEMMA InitPool == Init => PoolInv
<1> SUFFICES ASSUME Init PROVE PoolInv
  OBVIOUS
<1>1. sent = <<>> /\ roundPc = "idle"
  BY DEF Init
<1>2. DOMAIN sent = {}
  <2>1. Typed
    BY InitTyped
  <2>2. Len(sent) = 0
    BY <1>1, EmptySeq
  <2> QED BY <2>1, <2>2 DEF Typed, SentTyped
<1> QED BY <1>1, <1>2 DEF PoolInv, PoolOld, PoolCrossed

\* A transaction that lands is of a nominator without nomination in that era, unless it crossed
\* another of its nominator, so that one of them was decided on while the other waited:
\* shouldNominate keeps all others in different eras, whatever is late, lost or fails, whenever
\* the process restarts or an era begins, and however the accounts are configured.
THEOREM NominatedOncePerEra == Spec => OneNominationPerEra
<1>1. Init => Typed /\ PoolInv
  BY InitTyped, InitPool
<1>2. (Typed /\ PoolInv) /\ [Next]_vars => (Typed /\ PoolInv)'
  BY NextTypes, NextPool
<1>3. PoolInv /\ [Next]_vars =>
        [\A k \in DOMAIN sent \ crossed :
           LET n == sent[k].nom IN
           sent[k].stage = "pool" /\ sent'[k].stage = "block" => era > active[n].era]_vars
  BY DEF PoolInv, PoolOld, Waits
<1> QED BY <1>1, <1>2, <1>3, PTL DEF Spec, OneNominationPerEra
-----------------------------------------------------------------------------
(* Every step keeps what is shown, until a round overtakes a callback.     *)

\* The round goes on to the position after the one in hand, or stays with it.
LEMMA PastHand ==
  ASSUME RoundTyped, roundPc \in {"send", "sent", "row"},
         \/ roundPc' = "visit" /\ roundPos' = roundPos + 1
         \/ roundPc' \in {"sent", "row"} /\ UNCHANGED roundPos
  PROVE  /\ AheadShrinks
         /\ \A j \in DOMAIN Groups : AheadAt(j)' => j > roundPos
<1> SUFFICES ASSUME NEW j \in DOMAIN Groups, AheadAt(j)' PROVE AheadAt(j) /\ j > roundPos
  BY DEF AheadShrinks
<1>1. j \in Nat /\ roundPos \in Nat
  BY GroupFields DEF RoundTyped
<1>2. j > roundPos
  <2>1. CASE roundPc' = "visit" /\ roundPos' = roundPos + 1
    <3>1. j >= roundPos + 1
      BY <2>1 DEF AheadAt
    <3> QED BY <1>1, <3>1
  <2>2. CASE roundPc' \in {"sent", "row"} /\ UNCHANGED roundPos
    BY <2>2 DEF AheadAt
  <2> QED BY <2>1, <2>2
<1>3. j >= roundPos
  BY <1>1, <1>2
<1> QED BY <1>2, <1>3 DEF AheadAt

LEMMA VisitAhead ==
  ASSUME Typed, Visit
  PROVE  AheadShrinks
<1>1. roundPc = "visit" /\ roundPos \in DOMAIN Groups
  BY DEF Visit
<1>2. CASE Idle
  BY <1>2, NothingAhead DEF Idle
<1>3. CASE NextNominator
  BY <1>1, <1>3, NextAhead DEF NextNominator, Typed
<1>4. CASE \E number \in Numbers : TakeSlice(number)
  <2>1. roundPc' = "idle" \/ (roundPc' = "send" /\ UNCHANGED roundPos)
    BY <1>1, <1>4, SliceTyped DEF Typed
  <2> QED BY <1>1, <2>1 DEF AheadShrinks, AheadAt
<1> QED BY <1>2, <1>3, <1>4, VisitMoves DEF Typed

\* A transaction joins those that are live when the round has its nominator in hand.
LEMMA ApartNew ==
  ASSUME DistinctGroups, Typed, Apart, Send, sent' = Append(sent, NewTx)
  PROVE  Apart'
<1>1. /\ roundPos \in DOMAIN Groups /\ NewTx \in Tx /\ NewTx.targets # <<>> /\ NewTx.heard
      /\ NewTx.nom = Groups[roundPos] /\ NewTx.stage = "pool" /\ NewTx.pos = 1
      /\ roundPc = "send"
  BY SendMoves, NewTxTyped DEF Typed
<1> DEFINE last == Len(sent) + 1
<1>2. /\ DOMAIN sent' = DOMAIN sent \cup {last} /\ sent'[last] = NewTx
      /\ \A k \in DOMAIN sent : sent'[k] = sent[k]
  BY <1>1, SentNew DEF Typed
<1>3. /\ AheadShrinks
      /\ \A j \in DOMAIN Groups : AheadAt(j)' => j > roundPos
  BY PastHand, SendMoves DEF Typed, NextNominator
<1>4. AheadAt(roundPos)
  <2>1. roundPos >= roundPos
    BY <1>1, GroupFields
  <2> QED BY <1>1, <2>1 DEF AheadAt
<1>5. \A k \in DOMAIN sent : Live(k) => sent[k].nom # Groups[roundPos]
  BY <1>1, <1>4 DEF Apart
<1>6. \A j \in DOMAIN Groups : AheadAt(j)' => Groups[j] # Groups[roundPos]
  <2>1. \A j \in DOMAIN Groups : j > roundPos => j # roundPos
    BY <1>1, GroupFields
  <2> QED BY <1>1, <1>3, <2>1 DEF DistinctGroups
<1> HIDE DEF last
<1>7. ASSUME NEW k \in DOMAIN sent', NEW l \in DOMAIN sent',
             Live(k)', Live(l)', sent'[k].nom = sent'[l].nom
      PROVE  k = l
  <2>1. CASE k \in DOMAIN sent /\ l \in DOMAIN sent
    BY <1>2, <1>7, <2>1 DEF Apart, Live
  <2>2. CASE k = last /\ l = last
    BY <2>2
  <2>3. CASE k = last /\ l \in DOMAIN sent
    BY <1>1, <1>2, <1>5, <1>7, <2>3 DEF Live
  <2>4. CASE k \in DOMAIN sent /\ l = last
    BY <1>1, <1>2, <1>5, <1>7, <2>4 DEF Live
  <2> QED BY <1>2, <2>1, <2>2, <2>3, <2>4
<1>8. ASSUME NEW k \in DOMAIN sent', Live(k)',
             NEW j \in DOMAIN Groups, AheadAt(j)'
      PROVE  Groups[j] # sent'[k].nom
  <2>1. CASE k \in DOMAIN sent
    BY <1>2, <1>3, <1>8, <2>1 DEF Apart, AheadShrinks, Live
  <2>2. CASE k = last
    BY <1>1, <1>2, <1>6, <1>8, <2>2
  <2> QED BY <1>2, <2>1, <2>2
<1> QED BY <1>7, <1>8 DEF Apart

\* The rest of the round, once the nominator in hand is served.
LEMMA RestOfRound ==
  ASSUME Typed, ReadHash \/ RecordRow \/ FinishRound
  PROVE  /\ AheadShrinks /\ roundPc' # "send" /\ UNCHANGED <<era, active, sent, current>>
<1>1. CASE ReadHash
  <2>1. \/ roundPc' = "visit" /\ roundPos' = roundPos + 1
        \/ roundPc' = "row" /\ UNCHANGED roundPos
    BY <1>1 DEF ReadHash, NextNominator
  <2>2. roundPc = "sent"
    BY <1>1 DEF ReadHash
  <2>3. AheadShrinks
    BY <2>1, <2>2, PastHand DEF Typed
  <2> QED BY <1>1, <2>1, <2>3 DEF ReadHash, outsideRound, chainVars
<1>2. CASE RecordRow
  <2>1. roundPc = "row" /\ roundPc' = "visit" /\ roundPos' = roundPos + 1
    BY <1>2 DEF RecordRow, NextNominator
  <2>2. AheadShrinks
    BY <2>1, PastHand DEF Typed
  <2> QED BY <1>2, <2>1, <2>2 DEF RecordRow, outsideRound, chainVars
<1>3. CASE FinishRound
  <2>1. roundPc' = "idle"
    BY <1>3 DEF FinishRound, Idle
  <2> QED BY <1>3, <2>1, NothingAhead DEF FinishRound, outsideRound, chainVars
<1> QED BY <1>1, <1>2, <1>3

\* No account twice, and no round that came before the callbacks of the last were over.
OnTime == Apart /\ CallbackOK /\ ShownOK

\* A step that leaves what is shown alone, and takes no transaction past the reading of the
\* current targets.
LEMMA ShownKept ==
  ASSUME SentTyped, OnTime, Kept, AheadShrinks, UNCHANGED current,
         \A k \in DOMAIN sent : sent'[k].pos = sent[k].pos,
         \A k \in DOMAIN sent : Live(k)' => Live(k),
         \A k \in DOMAIN sent : sent'[k].stage \in {"era", "push"} => sent'[k].stage = sent[k].stage
  PROVE  OnTime'
<1>1. Apart'
  BY ApartStays DEF OnTime
<1>2. CallbackOK'
  <2>1. \A k \in DOMAIN sent :
          /\ sent'[k].nom = sent[k].nom /\ sent'[k].targets = sent[k].targets
          /\ sent'[k].pos = sent[k].pos /\ current' = current
          /\ sent'[k].stage = "era" => sent[k].stage = "era"
          /\ sent'[k].stage = "push" => sent[k].stage = "push"
    BY DEF Kept
  <2>2. DOMAIN sent' = DOMAIN sent
    BY DEF Kept
  <2> QED BY <2>1, <2>2 DEF OnTime, CallbackOK
<1>3. ShownOK'
  BY AllShownStays DEF OnTime
<1> QED BY <1>1, <1>2, <1>3 DEF OnTime

\* A step of the round that broadcasts nothing, or a new era.
LEMMA QuietShown ==
  ASSUME Typed, OnTime, AheadShrinks, UNCHANGED <<sent, current>>
  PROVE  OnTime'
<1>1. Kept /\ \A k \in DOMAIN sent : sent'[k] = sent[k]
  BY SentStays DEF Typed
<1>2. \A k \in DOMAIN sent : Live(k)' => Live(k)
  BY <1>1 DEF Live
<1> QED BY <1>1, <1>2, ShownKept DEF Typed

\* With every callback over, a new round has nobody's transaction before it.
LEMMA StartRoundShown ==
  ASSUME Typed, OnTime, StartRound
  PROVE  "late" \in faulted' \/ OnTime'
<1>1. CASE Settled
  <2>1. UNCHANGED <<sent, current>> /\ \A k \in DOMAIN sent : ~Live(k)
    BY <1>1 DEF StartRound, Settled, Live, outsideRound
  <2>2. Kept
    BY <2>1, SentStays DEF Typed
  <2>3. \A k \in DOMAIN sent' : ~Live(k)'
    BY <2>1 DEF Live
  <2>4. Apart'
    BY <2>3 DEF Apart
  <2>5. CallbackOK'
    BY <2>1 DEF OnTime, CallbackOK
  <2>6. ShownOK'
    BY <2>1, <2>2, AllShownStays DEF OnTime
  <2> QED BY <2>4, <2>5, <2>6 DEF OnTime
<1>2. CASE Fault("late")
  BY <1>2 DEF Fault
<1> QED BY <1>1, <1>2 DEF StartRound

LEMMA SendShown ==
  ASSUME DistinctGroups, Typed, OnTime, Send
  PROVE  OnTime'
<1>1. roundPc = "send" /\ UNCHANGED current
  BY SendMoves
<1>2. CASE sent' = Append(sent, NewTx)
  <2>1. Apart'
    BY <1>2, ApartNew DEF OnTime
  <2>2. /\ NewTx \in Tx /\ NewTx.targets # <<>> /\ NewTx.stage = "pool" /\ NewTx.pos = 1
        /\ NewTx.heard
    BY <1>1, NewTxTyped DEF Typed
  <2>3. /\ DOMAIN sent' = DOMAIN sent \cup {Len(sent) + 1} /\ sent'[Len(sent) + 1] = NewTx
        /\ \A k \in DOMAIN sent : sent'[k] = sent[k]
    BY <1>2, <2>2, SentNew DEF Typed
  <2>4. CallbackOK'
    <3> SUFFICES ASSUME NEW k \in DOMAIN sent', sent'[k].stage \in {"era", "push"}
                 PROVE  /\ sent'[k].stage = "era" => current'[sent'[k].nom] = <<>>
                        /\ sent'[k].stage = "push" =>
                             current'[sent'[k].nom] = SubSeq(sent'[k].targets, 1, sent'[k].pos - 1)
      BY DEF CallbackOK
    <3>1. k \in DOMAIN sent
      BY <2>2, <2>3
    <3>2. sent'[k] = sent[k]
      BY <2>3, <3>1
    <3> QED BY <1>1, <3>1, <3>2 DEF OnTime, CallbackOK
  <2>5. ShownOK'
    <3> SUFFICES ASSUME NEW n \in Nominators
                 PROVE  current'[n] = <<>> \/ \E k \in DOMAIN sent' : Shows(n, k)'
      BY DEF ShownOK
    <3>1. current[n] = <<>> \/ \E k \in DOMAIN sent : Shows(n, k)
      BY DEF OnTime, ShownOK
    <3> QED BY <1>1, <2>3, <3>1 DEF Shows
  <2> QED BY <2>1, <2>4, <2>5 DEF OnTime
<1>3. CASE UNCHANGED sent
  <2>1. AheadShrinks
    BY PastHand, SendMoves DEF Typed, NextNominator
  <2> QED BY <1>1, <1>3, <2>1, QuietShown
<1> QED BY <1>2, <1>3, SendMoves

LEMMA DieShown ==
  ASSUME Typed, OnTime, Die
  PROVE  OnTime'
<1>1. /\ Kept /\ roundPc' = "idle"
      /\ \A k \in DOMAIN sent :
           /\ sent'[k].pos = sent[k].pos /\ ~sent'[k].heard
           /\ sent'[k].stage = IF sent[k].stage \in {"pool", "block", "lost"}
                               THEN sent[k].stage ELSE "done"
  BY DieMoves DEF Typed
<1>2. \A k \in DOMAIN sent : ~Live(k)'
  BY <1>1 DEF Live
<1>3. \A k \in DOMAIN sent : sent'[k].stage \notin {"era", "push"}
  BY <1>1
<1>4. UNCHANGED current
  BY DEF Die, dbVars
<1> QED BY <1>1, <1>2, <1>3, <1>4, NothingAhead, ShownKept DEF Typed

\* A step of a transaction on its way, or of its callback before the targets are wiped.
LEMMA OneStageShown ==
  ASSUME Typed, OnTime, NEW k \in DOMAIN sent, sent[k].stage \notin {"done", "lost"},
         Kept, sent'[k].pos = sent[k].pos, sent'[k].heard = sent[k].heard,
         \A l \in DOMAIN sent \ {k} : sent'[l] = sent[l],
         sent'[k].stage \notin {"era", "push"},
         UNCHANGED <<current, roundPc, roundPos>>
  PROVE  OnTime'
<1>1. \A l \in DOMAIN sent : sent'[l].pos = sent[l].pos
  OBVIOUS
<1>2. \A l \in DOMAIN sent : Live(l)' => Live(l)
  BY DEF Live
<1>3. \A l \in DOMAIN sent : sent'[l].stage \in {"era", "push"} => sent'[l].stage = sent[l].stage
  OBVIOUS
<1> QED BY <1>1, <1>2, <1>3, SameAhead, ShownKept DEF Typed

\* A step of a callback: what it leaves of its nominator's targets is in order, and no other
\* callback has this nominator.
LEMMA OneCallback ==
  ASSUME Typed, OnTime, NEW k \in DOMAIN sent,
         sent[k].stage \in {"final", "clear", "era", "push"}, Kept,
         \A l \in DOMAIN sent \ {k} : sent'[l] = sent[l],
         \A n \in Nominators : n # sent[k].nom => current'[n] = current[n],
         UNCHANGED <<roundPc, roundPos>>,
         sent'[k].stage = "era" => current'[sent[k].nom] = <<>>,
         sent'[k].stage = "push" =>
           current'[sent[k].nom] = SubSeq(sent[k].targets, 1, sent'[k].pos - 1),
         \/ current'[sent[k].nom] = <<>>
         \/ current'[sent[k].nom] = current[sent[k].nom]
         \/ /\ Len(current'[sent[k].nom]) <= Len(sent[k].targets)
            /\ current'[sent[k].nom] = SubSeq(sent[k].targets, 1, Len(current'[sent[k].nom]))
  PROVE  OnTime'
<1>0. Live(k)
  BY DEF Live, Typed, SentTyped
<1>1. Apart'
  <2>1. \A l \in DOMAIN sent : Live(l)' => Live(l)
    BY <1>0 DEF Live
  <2> QED BY <2>1, SameAhead, ApartStays DEF OnTime
<1>2. ASSUME NEW l \in DOMAIN sent, l # k, sent[l].stage \in {"era", "push"}
      PROVE  sent[l].nom # sent[k].nom
  <2>1. Live(l)
    BY <1>2 DEF Live, Typed, SentTyped
  <2> QED BY <1>0, <1>2, <2>1 DEF OnTime, Apart
<1>3. CallbackOK'
  <2> SUFFICES ASSUME NEW l \in DOMAIN sent, sent'[l].stage \in {"era", "push"}
               PROVE  /\ sent'[l].stage = "era" => current'[sent'[l].nom] = <<>>
                      /\ sent'[l].stage = "push" =>
                           current'[sent'[l].nom] = SubSeq(sent'[l].targets, 1, sent'[l].pos - 1)
    BY DEF CallbackOK, Kept
  <2>1. CASE l = k
    BY <2>1 DEF Kept
  <2>2. CASE l # k
    <3>1. sent'[l] = sent[l]
      BY <2>2
    <3>2. sent[l].nom # sent[k].nom /\ sent[l].nom \in Nominators
      BY <1>2, <2>2, <3>1, TxFields DEF Typed
    <3>3. current'[sent[l].nom] = current[sent[l].nom]
      BY <3>2
    <3> QED BY <3>1, <3>3 DEF OnTime, CallbackOK
  <2> QED BY <2>1, <2>2
<1>4. ASSUME NEW n \in Nominators
      PROVE  current'[n] = <<>> \/ \E l \in DOMAIN sent' : Shows(n, l)'
  <2>1. current[n] = <<>> \/ \E l \in DOMAIN sent : Shows(n, l)
    BY DEF OnTime, ShownOK
  <2>2. CASE current'[n] = current[n]
    BY <2>1, <2>2 DEF Shows, Kept
  <2>3. CASE /\ n = sent[k].nom /\ Len(current'[n]) <= Len(sent[k].targets)
             /\ current'[n] = SubSeq(sent[k].targets, 1, Len(current'[n]))
    BY <2>3 DEF Shows, Kept
  <2> QED BY <2>2, <2>3
<1>5. ShownOK'
  BY <1>4 DEF ShownOK
<1> QED BY <1>1, <1>3, <1>5 DEF OnTime

LEMMA ReadCurrentShown ==
  ASSUME Typed, OnTime, NEW k \in DOMAIN sent, ReadCurrent(k)
  PROVE  OnTime'
<1> DEFINE s == IF current[sent[k].nom] # <<>> THEN "clear" ELSE "era"
<1>1. s \in Stages /\ sent[k].stage = "final" /\ sent[k].heard
  BY DEF Stages, ReadCurrent, Typed, SentTyped
<1>2. sent' = [sent EXCEPT ![k].stage = s]
  BY DEF ReadCurrent, Goto
<1>3. s = "era" => current[sent[k].nom] = <<>>
  OBVIOUS
<1>4. s # "push"
  OBVIOUS
<1>5. UNCHANGED <<current, roundPc, roundPos>>
  BY DEF ReadCurrent, outsideCallback, roundVars
<1> HIDE DEF s
<1>6. Kept /\ sent'[k].stage = s /\ \A l \in DOMAIN sent \ {k} : sent'[l] = sent[l]
  BY <1>1, <1>2, StageMoves DEF Typed
<1> QED BY <1>1, <1>3, <1>4, <1>5, <1>6, OneCallback

LEMMA ClearShown ==
  ASSUME Typed, OnTime, NEW k \in DOMAIN sent, ClearCurrent(k)
  PROVE  OnTime'
<1>1. "era" \in Stages /\ sent[k].stage = "clear" /\ sent[k].heard
  BY DEF Stages, ClearCurrent, Typed, SentTyped
<1>2. sent' = [sent EXCEPT ![k].stage = "era"]
  BY DEF ClearCurrent, Goto
<1>3. /\ current'[sent[k].nom] = <<>>
      /\ \A n \in Nominators : n # sent[k].nom => current'[n] = current[n]
  BY TxFields DEF ClearCurrent, Typed, RestTyped
<1>4. UNCHANGED <<roundPc, roundPos>>
  BY DEF ClearCurrent, outsideCallback, roundVars
<1>5. Kept /\ sent'[k].stage = "era" /\ \A l \in DOMAIN sent \ {k} : sent'[l] = sent[l]
  BY <1>1, <1>2, StageMoves DEF Typed
<1> QED BY <1>1, <1>3, <1>4, <1>5, OneCallback

LEMMA ReadEraShown ==
  ASSUME Typed, OnTime, NEW k \in DOMAIN sent, ReadEra(k)
  PROVE  OnTime'
<1>1. CASE Die
  BY <1>1, DieShown
<1>2. CASE /\ sent' = [sent EXCEPT ![k].stage = "push"]
           /\ UNCHANGED <<chainVars, rows, roundVars, crossed>> /\ UNCHANGED current
  <2>1. "push" \in Stages /\ sent[k].stage = "era" /\ sent[k].heard
    BY ReadEraMoves DEF Stages, Typed, SentTyped
  <2>2. /\ Kept /\ sent'[k].stage = "push" /\ sent'[k].pos = sent[k].pos
        /\ \A l \in DOMAIN sent \ {k} : sent'[l] = sent[l]
    BY <1>2, <2>1, StageMoves DEF Typed
  <2>3. sent[k].pos = 1
    BY <2>1 DEF Typed, SentTyped
  <2>4. SubSeq(sent[k].targets, 1, 1 - 1) = <<>>
    BY SubSeqEmpty
  <2>5. current'[sent[k].nom] = SubSeq(sent[k].targets, 1, sent'[k].pos - 1)
    <3>1. current'[sent[k].nom] = <<>>
      BY <1>2, <2>1 DEF OnTime, CallbackOK
    <3> QED BY <2>2, <2>3, <2>4, <3>1
  <2>6. UNCHANGED <<roundPc, roundPos>>
    BY <1>2 DEF roundVars
  <2> QED BY <1>2, <2>1, <2>2, <2>5, <2>6, OneCallback
<1> QED BY <1>1, <1>2, ReadEraMoves

\* The next target makes the first ones one longer.
LEMMA LongerPrefix ==
  ASSUME NEW t \in Seq(Candidates), NEW p \in 1 .. Len(t)
  PROVE  /\ Append(SubSeq(t, 1, p - 1), t[p]) = SubSeq(t, 1, p)
         /\ Len(SubSeq(t, 1, p)) = p
<1>1. Len(t) \in Nat /\ p \in Int /\ p - 1 \in Int /\ 1 <= p
  OBVIOUS
<1>2. \A i \in 1 .. p : t[i] \in Candidates
  BY <1>1, ElementOfSeq
<1>3. SubSeq(t, 1, p - 1) \in Seq(Candidates) /\ SubSeq(t, 1, p) \in Seq(Candidates)
  BY <1>1, <1>2, SubSeqProperties
<1>4. Append(SubSeq(t, 1, p - 1), t[p]) = SubSeq(t, 1, p - 1) \o <<t[p]>>
  BY <1>1, <1>2, <1>3, AppendIsConcat
<1>5. SubSeq(t, 1, p) = SubSeq(t, 1, p - 1) \o <<t[p]>>
  <2>1. 1 \in 1 .. Len(t) /\ p \in 1 .. Len(t)
    BY <1>1
  <2> QED BY <2>1, SubSeqRecursiveSecond
<1>6. Len(SubSeq(t, 1, p)) = p
  BY <1>1, <1>2, SubSeqProperties
<1> QED BY <1>4, <1>5, <1>6

LEMMA PushShown ==
  ASSUME Typed, OnTime, NEW k \in DOMAIN sent, PushTarget(k)
  PROVE  OnTime'
<1> DEFINE n == sent[k].nom
           t == sent[k].targets
           p == sent[k].pos
<1>1. /\ Kept /\ sent[k].stage = "push"
      /\ \/ sent'[k].stage = "done"
         \/ sent'[k].stage = "push" /\ sent'[k].pos = p + 1
      /\ \A l \in DOMAIN sent \ {k} : sent'[l] = sent[l]
  BY PushMoves
<1>3. n \in Nominators /\ t \in Seq(Candidates) /\ p \in 1 .. Len(t) /\ p \in Nat
  BY TxFields DEF Typed
<1>4. current[n] = SubSeq(t, 1, p - 1)
  BY <1>1 DEF OnTime, CallbackOK
<1>5. /\ current'[n] = Append(current[n], t[p])
      /\ \A m \in Nominators : m # n => current'[m] = current[m]
  BY <1>3 DEF PushTarget, Push, Typed, RestTyped
<1>6. current'[n] = SubSeq(t, 1, p) /\ Len(current'[n]) = p
  BY <1>3, <1>4, <1>5, LongerPrefix
<1>7. (p + 1) - 1 = p /\ p <= Len(t)
  BY <1>3
<1>8. sent'[k].stage = "push" => current'[n] = SubSeq(t, 1, sent'[k].pos - 1)
  BY <1>1, <1>6, <1>7
<1>9. UNCHANGED <<roundPc, roundPos>>
  BY DEF PushTarget, outsideCallback, roundVars
<1>10. Len(current'[n]) <= Len(t) /\ current'[n] = SubSeq(t, 1, Len(current'[n]))
  BY <1>6, <1>7
<1>11. sent'[k].stage # "era"
  BY <1>1
<1>12. \A m \in Nominators : m # n => current'[m] = current[m]
  BY <1>5
<1> QED BY <1>1, <1>8, <1>9, <1>10, <1>11, <1>12, OneCallback

LEMMA NextShown ==
  ASSUME DistinctGroups, Typed, ShownInv, [Next]_vars
  PROVE  ShownInv'
<1>1. faulted \subseteq faulted'
  <2>1. CASE UNCHANGED vars
    BY <2>1 DEF vars
  <2>2. CASE Next
    BY <2>2 DEF Next, NewEra, Crash, Fault, NoFault, Round, StartRound, Visit, Send, ReadHash,
                RecordRow, FinishRound, IncludeTx, LoseTx, FinaliseTx, Callback, ReadCurrent,
                ClearCurrent, ReadEra, PushTarget
  <2> QED BY <2>1, <2>2
<1>2. CASE "late" \in faulted
  BY <1>1, <1>2 DEF ShownInv
<1>3. CASE OnTime
  <2>1. CASE UNCHANGED vars
    <3>1. UNCHANGED <<sent, current, roundPc, roundPos>>
      BY <2>1 DEF vars, dbVars, roundVars
    <3> QED BY <1>3, <3>1, SameAhead, QuietShown DEF ShownInv, OnTime
  <2>2. CASE Crash
    BY <1>3, <2>2, DieShown DEF Crash, ShownInv, OnTime
  <2>3. CASE NewEra
    <3>1. UNCHANGED <<sent, current, roundPc, roundPos>>
      BY <2>3 DEF NewEra, dbVars, roundVars
    <3> QED BY <1>3, <3>1, SameAhead, QuietShown DEF ShownInv, OnTime
  <2>4. CASE StartRound
    BY <1>3, <2>4, StartRoundShown DEF ShownInv, OnTime
  <2>5. CASE Visit
    <3>1. UNCHANGED <<sent, current>>
      BY <2>5 DEF Visit, outsideRound
    <3> QED BY <1>3, <2>5, <3>1, VisitAhead, QuietShown DEF ShownInv, OnTime
  <2>6. CASE Send
    BY <1>3, <2>6, SendShown DEF ShownInv, OnTime
  <2>7. CASE ReadHash \/ RecordRow \/ FinishRound
    BY <1>3, <2>7, RestOfRound, QuietShown DEF ShownInv, OnTime
  <2>8. ASSUME NEW k \in DOMAIN sent, IncludeTx(k) \/ LoseTx(k) \/ FinaliseTx(k)
        PROVE  OnTime'
    <3>1. sent[k].stage \notin {"done", "lost"}
      BY <2>8 DEF IncludeTx, LoseTx, FinaliseTx
    <3>2. UNCHANGED <<current, roundPc, roundPos>>
      BY <2>8 DEF IncludeTx, LoseTx, FinaliseTx, dbVars, roundVars
    <3>3. PICK s \in Stages \ {"era", "push"} : /\ sent' = [sent EXCEPT ![k].stage = s]
                                                /\ s \in {"final", "clear"} => sent[k].heard
      <4>1. {"block", "lost", "final", "done"} \subseteq Stages \ {"era", "push"}
        BY DEF Stages
      <4>2. CASE IncludeTx(k) \/ LoseTx(k)
        BY <4>1, <4>2 DEF IncludeTx, LoseTx
      <4>3. CASE FinaliseTx(k)
        BY <4>1, <4>3 DEF FinaliseTx
      <4> QED BY <2>8, <4>2, <4>3
    <3>4. sent[k].stage \notin {"push", "done"}
      BY <2>8 DEF IncludeTx, LoseTx, FinaliseTx
    <3>5. /\ Kept /\ sent'[k].pos = sent[k].pos /\ sent'[k].stage = s
          /\ sent'[k].heard = sent[k].heard
          /\ \A l \in DOMAIN sent \ {k} : sent'[l] = sent[l]
      BY <3>3, <3>4, StageMoves DEF Typed
    <3> QED BY <1>3, <3>1, <3>2, <3>3, <3>5, OneStageShown
  <2>9. ASSUME NEW k \in DOMAIN sent,
               ReadCurrent(k) \/ ClearCurrent(k) \/ ReadEra(k) \/ PushTarget(k)
        PROVE  OnTime'
    BY <1>3, <2>9, ReadCurrentShown, ClearShown, ReadEraShown, PushShown
  <2> QED BY <2>1, <2>2, <2>3, <2>4, <2>5, <2>6, <2>7, <2>8, <2>9, Cases DEF ShownInv, OnTime
<1> QED BY <1>2, <1>3 DEF ShownInv, OnTime

LEMMA InitShown == Init => ShownInv
<1> SUFFICES ASSUME Init PROVE ShownInv
  OBVIOUS
<1>1. sent = <<>> /\ current = [n \in Nominators |-> <<>>]
  BY DEF Init
<1>2. DOMAIN sent = {}
  <2>1. Typed
    BY InitTyped
  <2>2. Len(sent) = 0
    BY <1>1, EmptySeq
  <2> QED BY <2>1, <2>2 DEF Typed, SentTyped
<1> QED BY <1>1, <1>2 DEF ShownInv, Apart, CallbackOK, ShownOK

LEMMA IndInvHolds == ASSUME DistinctGroups PROVE Spec => []IndInv
<1>1. Init => IndInv
  BY InitTyped, InitPool, InitShown DEF IndInv
<1>2. IndInv /\ [Next]_vars => IndInv'
  BY NextTypes, NextPool, NextShown DEF IndInv
<1> QED BY <1>1, <1>2, PTL DEF Spec

\* Where no account is configured twice, the targets shown for a nominator are the first ones
\* of one of its nominations, through every interleaving of the callbacks' queries with rounds,
\* crashes, failed queries and lost transactions, until a round starts before the callbacks of
\* the last are over.
THEOREM ShownIsOneNomination == ASSUME DistinctGroups PROVE Spec => []CurrentOfOneNomination
<1>1. IndInv => CurrentOfOneNomination
  BY DEF IndInv, ShownInv, ShownOK, Shows, CurrentOfOneNomination
<1> QED BY <1>1, IndInvHolds, PTL
-----------------------------------------------------------------------------
(* Rows of the database tell of transactions.                              *)

\* What the round has in hand, once it has sent and until the row is written, was sent last;
\* before that it knows no hash.
InHand ==
  /\ roundPc \notin {"sent", "row"} => hash = ""
  /\ roundPc \in {"sent", "row"} /\ hash # "error" =>
       \E k \in DOMAIN sent : /\ \A l \in DOMAIN sent : l <= k
                              /\ Tells(k, Groups[roundPos], targets, hash)
RowsInv == InHand /\ RowsWereSent

\* Transactions keep what they are, and stay final.
StayFinal == Kept /\ \A k \in DOMAIN sent : Final(sent[k]) => Final(sent'[k])

LEMMA TellsStays ==
  ASSUME StayFinal, NEW k \in DOMAIN sent, NEW n, NEW t, NEW h, Tells(k, n, t, h)
  PROVE  sent'[k].nom = n /\ sent'[k].targets = t /\ (h = "hash" => Final(sent'[k]))
BY DEF StayFinal, Kept, Tells

\* A row that told of a transaction goes on to.
LEMMA ToldStays ==
  ASSUME StayFinal, NEW row, RowTold(row)
  PROVE  row.hash # "error" => \E k \in DOMAIN sent' : Tells(k, row.nom, row.targets, row.hash)'
<1> SUFFICES ASSUME row.hash # "error"
             PROVE  \E k \in DOMAIN sent' : Tells(k, row.nom, row.targets, row.hash)'
  OBVIOUS
<1>1. PICK k \in DOMAIN sent : Tells(k, row.nom, row.targets, row.hash)
  BY DEF RowTold
<1>2. k \in DOMAIN sent'
  BY DEF StayFinal, Kept
<1>3. /\ sent'[k].nom = row.nom /\ sent'[k].targets = row.targets
      /\ row.hash = "hash" => Final(sent'[k])
  BY <1>1, TellsStays
<1>4. Tells(k, row.nom, row.targets, row.hash)'
  BY <1>3 DEF Tells, Final
<1> QED BY <1>2, <1>4

LEMMA RowsStay ==
  ASSUME StayFinal, RowsWereSent, UNCHANGED rows
  PROVE  RowsWereSent'
<1> SUFFICES ASSUME NEW i \in DOMAIN rows PROVE RowTold(rows[i])'
  BY DEF RowsWereSent
<1>1. RowTold(rows[i])
  BY DEF RowsWereSent
<1>2. rows[i].hash # "error" =>
        \E k \in DOMAIN sent' : Tells(k, rows[i].nom, rows[i].targets, rows[i].hash)'
  BY <1>1, ToldStays
<1> QED BY <1>2 DEF RowTold, Tells

\* The round does not move.
LEMMA HandStays ==
  ASSUME StayFinal, InHand, UNCHANGED roundVars
  PROVE  InHand'
<1>0. UNCHANGED <<roundPc, roundPos, targets, hash>>
  BY DEF roundVars
<1>1. CASE roundPc \in {"sent", "row"} /\ hash # "error"
  <2>1. PICK k \in DOMAIN sent : /\ \A l \in DOMAIN sent : l <= k
                                 /\ Tells(k, Groups[roundPos], targets, hash)
    BY <1>1 DEF InHand
  <2>2. k \in DOMAIN sent' /\ \A l \in DOMAIN sent' : l <= k
    BY <2>1 DEF StayFinal, Kept
  <2>3. Tells(k, Groups[roundPos], targets, hash)'
    BY <1>0, <2>1, TellsStays DEF Tells, Final
  <2> QED BY <1>0, <1>1, <2>2, <2>3 DEF InHand
<1>2. CASE ~(roundPc \in {"sent", "row"} /\ hash # "error")
  BY <1>0, <1>2 DEF InHand
<1> QED BY <1>1, <1>2

LEMMA SameStaysFinal ==
  ASSUME SentTyped, UNCHANGED sent
  PROVE  StayFinal
BY SentStays DEF StayFinal

\* The round has nothing in hand.
LEMMA HandEmpty ==
  ASSUME roundPc' \notin {"sent", "row"}, hash' = ""
  PROVE  InHand'
BY DEF InHand

LEMMA SendRows ==
  ASSUME Typed, RowsInv, Send
  PROVE  RowsInv'
<1>1. roundPc = "send" /\ UNCHANGED rows /\ hash = ""
  BY SendMoves DEF RowsInv, InHand
<1>2. CASE sent' = Append(sent, NewTx) /\ roundPc' = "sent" /\ UNCHANGED <<roundPos, targets, hash>>
  <2>0. PICK m \in Nat : m = Len(sent) + 1
    BY DEF Typed, SentTyped
  <2>1. NewTx \in Tx /\ NewTx.targets # <<>> /\ NewTx.pos = 1 /\ NewTx.heard
    BY <1>1, NewTxTyped DEF Typed
  <2>2. /\ DOMAIN sent' = DOMAIN sent \cup {m} /\ sent'[m] = NewTx
        /\ \A k \in DOMAIN sent : sent'[k] = sent[k]
    BY <1>2, <2>0, <2>1, SentNew DEF Typed
  <2>3. \A l \in DOMAIN sent' : l <= m
    <3>1. DOMAIN sent = 1 .. Len(sent) /\ Len(sent) \in Nat
      BY DEF Typed, SentTyped
    <3> QED BY <2>0, <2>2, <3>1
  <2>4. Tells(m, Groups[roundPos], targets, hash)'
    <3>1. sent'[m].nom = Groups[roundPos] /\ sent'[m].targets = targets
      BY <2>2 DEF NewTx
    <3>2. roundPos' = roundPos /\ targets' = targets /\ hash' = ""
      BY <1>1, <1>2
    <3> QED BY <3>1, <3>2 DEF Tells, Final
  <2>5. InHand'
    BY <1>2, <2>2, <2>3, <2>4 DEF InHand
  <2>6. RowsWereSent'
    <3> SUFFICES ASSUME NEW i \in DOMAIN rows, rows[i].hash # "error"
                 PROVE  \E k \in DOMAIN sent' : Tells(k, rows[i].nom, rows[i].targets, rows[i].hash)'
      BY <1>1 DEF RowsWereSent, RowTold, Tells
    <3>1. PICK k \in DOMAIN sent : Tells(k, rows[i].nom, rows[i].targets, rows[i].hash)
      BY DEF RowsInv, RowsWereSent, RowTold
    <3>2. Tells(k, rows[i].nom, rows[i].targets, rows[i].hash)'
      BY <1>1, <2>2, <3>1 DEF Tells
    <3> QED BY <2>2, <3>2
  <2> QED BY <2>5, <2>6 DEF RowsInv
<1>3. CASE UNCHANGED sent /\ roundPc' = "sent" /\ hash' = "error"
  <2>1. InHand'
    BY <1>3 DEF InHand
  <2> QED BY <1>1, <1>3, <2>1, SameStaysFinal, RowsStay DEF RowsInv, Typed
<1>4. CASE UNCHANGED sent /\ NextNominator
  <2>1. InHand'
    BY <1>4, HandEmpty DEF NextNominator
  <2> QED BY <1>1, <1>4, <2>1, SameStaysFinal, RowsStay DEF RowsInv, Typed
<1> QED BY <1>2, <1>3, <1>4 DEF Send, NewTx

LEMMA ReadHashRows ==
  ASSUME Typed, RowsInv, ReadHash
  PROVE  RowsInv'
<1>1. UNCHANGED <<sent, rows>> /\ roundPc = "sent" /\ StayFinal
  BY SameStaysFinal DEF ReadHash, Typed
<1>2. RowsWereSent'
  BY <1>1, RowsStay DEF RowsInv
<1>3. CASE NextNominator
  <2>1. InHand'
    BY <1>3, HandEmpty DEF NextNominator
  <2> QED BY <1>2, <2>1 DEF RowsInv
<1>4. CASE /\ roundPc' = "row" /\ UNCHANGED <<roundPos, targets>>
           /\ \/ hash' = IF hash = "" /\ Final(sent[Len(sent)]) THEN "hash" ELSE hash
              \/ hash' = "error"
  <2>1. CASE hash' = "error"
    BY <1>2, <1>4, <2>1 DEF RowsInv, InHand
  <2>2. CASE hash' # "error"
    <3>1. hash # "error" /\ hash' = IF hash = "" /\ Final(sent[Len(sent)]) THEN "hash" ELSE hash
      BY <1>4, <2>2
    <3>2. PICK k \in DOMAIN sent : /\ \A l \in DOMAIN sent : l <= k
                                   /\ Tells(k, Groups[roundPos], targets, hash)
      BY <1>1, <3>1 DEF RowsInv, InHand
    <3>3. k = Len(sent)
      <4>1. DOMAIN sent = 1 .. Len(sent) /\ Len(sent) \in Nat
        BY DEF Typed, SentTyped
      <4>2. Len(sent) \in DOMAIN sent
        BY <3>2, <4>1
      <4> QED BY <3>2, <4>1, <4>2
    <3>4. Tells(k, Groups[roundPos], targets, hash)'
      BY <1>1, <1>4, <3>1, <3>2, <3>3 DEF Tells
    <3>5. InHand'
      BY <1>1, <1>4, <3>2, <3>4 DEF InHand
    <3> QED BY <1>2, <3>5 DEF RowsInv
  <2> QED BY <2>1, <2>2
<1> QED BY <1>3, <1>4 DEF ReadHash

LEMMA RecordRowRows ==
  ASSUME Typed, RowsInv, RecordRow
  PROVE  RowsInv'
<1>1. InHand'
  BY RecordMoves, HandEmpty DEF NextNominator
<1>2. RowTold(NewRow)
  BY RecordMoves DEF RowTold, NewRow, RowsInv, InHand
<1>3. ASSUME NEW i \in DOMAIN rows'
      PROVE  RowTold(rows'[i])
  BY <1>2, <1>3, RecordMoves DEF RowsInv, RowsWereSent
<1>4. UNCHANGED sent
  BY RecordMoves
<1>5. RowsWereSent'
  BY <1>3, <1>4 DEF RowsWereSent, RowTold, Tells
<1> QED BY <1>1, <1>5 DEF RowsInv

\* A transaction goes on, or its callback does.
LEMMA ChainRows ==
  ASSUME Typed, RowsInv, NEW k \in DOMAIN sent,
         \/ IncludeTx(k) \/ LoseTx(k) \/ FinaliseTx(k)
         \/ ReadCurrent(k) \/ ClearCurrent(k) \/ ReadEra(k) \/ PushTarget(k)
  PROVE  RowsInv' \/ Die
<1>1. CASE ReadEra(k) /\ Die
  BY <1>1
<1>2. CASE ~(ReadEra(k) /\ Die)
  <2>1. UNCHANGED rows /\ UNCHANGED roundVars
    BY <1>2 DEF IncludeTx, LoseTx, FinaliseTx, ReadCurrent, ClearCurrent, ReadEra, PushTarget,
                dbVars, outsideCallback
  <2>2. StayFinal
    <3>1. CASE PushTarget(k)
      BY <3>1, PushMoves DEF StayFinal, Final
    <3>2. CASE ~PushTarget(k)
      <4>1. PICK s \in Stages : /\ sent' = [sent EXCEPT ![k].stage = s]
                                /\ sent[k].stage \notin {"push", "done"}
                                /\ s \in {"final", "clear", "era", "push"} => sent[k].heard
                                /\ Final(sent[k]) => s \in {"final", "clear", "era", "push", "done"}
        <5>1. {"block", "lost", "final", "done", "clear", "era", "push"} \subseteq Stages
          BY DEF Stages
        <5>2. CASE IncludeTx(k) \/ LoseTx(k) \/ FinaliseTx(k)
          BY <5>1, <5>2 DEF IncludeTx, LoseTx, FinaliseTx, Final
        <5>3. CASE ReadCurrent(k) \/ ClearCurrent(k) \/ ReadEra(k)
          <6>1. sent[k].heard /\ sent[k].stage \notin {"push", "done"}
            BY <5>3 DEF ReadCurrent, ClearCurrent, ReadEra, Typed, SentTyped
          <6>2. \E s \in {"clear", "era", "push"} : sent' = [sent EXCEPT ![k].stage = s]
            BY <1>2, <5>3 DEF ReadCurrent, ClearCurrent, ReadEra, Goto
          <6> QED BY <5>1, <6>1, <6>2
        <5> QED BY <3>2, <5>2, <5>3
      <4>2. /\ Kept /\ sent'[k].stage = s /\ \A l \in DOMAIN sent \ {k} : sent'[l] = sent[l]
        BY <4>1, StageMoves DEF Typed
      <4> QED BY <4>1, <4>2 DEF StayFinal, Final
    <3> QED BY <3>1, <3>2
  <2> QED BY <2>1, <2>2, HandStays, RowsStay DEF RowsInv
<1> QED BY <1>1, <1>2

LEMMA DieRows ==
  ASSUME Typed, RowsInv, Die
  PROVE  RowsInv'
<1>1. roundPc' = "idle" /\ hash' = "" /\ UNCHANGED rows
  BY DEF Die, dbVars
<1>2. StayFinal
  BY DieMoves DEF StayFinal, Final, Typed
<1>3. InHand'
  BY <1>1, HandEmpty
<1> QED BY <1>1, <1>2, <1>3, RowsStay DEF RowsInv

LEMMA NextRows == Typed /\ RowsInv /\ [Next]_vars => RowsInv'
<1> SUFFICES ASSUME Typed, RowsInv, [Next]_vars PROVE RowsInv'
  OBVIOUS
<1>1. CASE UNCHANGED vars \/ NewEra
  <2>1. UNCHANGED <<sent, rows>> /\ UNCHANGED roundVars
    BY <1>1 DEF vars, dbVars, NewEra
  <2> QED BY <2>1, SameStaysFinal, HandStays, RowsStay DEF RowsInv, Typed
<1>2. CASE StartRound \/ Visit \/ FinishRound
  <2>1. UNCHANGED <<sent, rows>> /\ hash = ""
    BY <1>2 DEF StartRound, Visit, FinishRound, outsideRound, RowsInv, InHand
  <2>2. roundPc' \notin {"sent", "row"} /\ hash' = ""
    BY <1>2, <2>1 DEF StartRound, Visit, FinishRound, Idle, NextNominator, TakeSlice
  <2> QED BY <2>1, <2>2, SameStaysFinal, HandEmpty, RowsStay DEF RowsInv, Typed
<1>3. CASE Crash
  BY <1>3, DieRows DEF Crash
<1>4. ASSUME NEW k \in DOMAIN sent,
             \/ IncludeTx(k) \/ LoseTx(k) \/ FinaliseTx(k)
             \/ ReadCurrent(k) \/ ClearCurrent(k) \/ ReadEra(k) \/ PushTarget(k)
      PROVE  RowsInv'
  BY <1>4, ChainRows, DieRows
<1> QED BY <1>1, <1>2, <1>3, <1>4, SendRows, ReadHashRows, RecordRowRows, Cases

\* What the database keeps of the nominations was broadcast, and is final where it has a block
\* hash, for any configuration of the accounts, faults and crashes.
THEOREM RecordedWasSent == Spec => []RowsWereSent
<1>1. Init => Typed /\ RowsInv
  <2> SUFFICES ASSUME Init PROVE Typed /\ RowsInv
    OBVIOUS
  <2>1. rows = <<>> /\ roundPc = "idle" /\ hash = ""
    BY DEF Init
  <2>2. DOMAIN rows = {}
    <3>1. rows \in Seq(Row) /\ Len(rows) = 0
      BY <2>1, EmptySeq
    <3> QED BY <3>1
  <2> QED BY <2>1, <2>2, InitTyped DEF RowsInv, InHand, RowsWereSent
<1>2. Typed /\ RowsInv /\ [Next]_vars => (Typed /\ RowsInv)'
  BY NextTypes, NextRows
<1>3. RowsInv => RowsWereSent
  BY DEF RowsInv
<1> QED BY <1>1, <1>2, <1>3, PTL DEF Spec
=============================================================================
