------------------------ MODULE ProxyNominationProofs ------------------------
(***************************************************************************)
(* Proofs about ProxyNomination, for any nominators, groups, slates, delay *)
(* and bounds.                                                             *)
(***************************************************************************)
EXTENDS ProxyNomination, TLAPS

\* The group a round or a job works on is a nominator.
LEMMA GroupIsNominator ==
  ASSUME NEW i \in DOMAIN Groups
  PROVE  Groups[i] \in Nominators
BY ConstantsAssumption

\* setNomination keeps each row as it is or replaces it by the row it is given.
LEMMA RecordedRows ==
  ASSUME NEW n, NEW e, NEW s, nominations \in Seq(Nomination),
         NEW i \in DOMAIN Recorded(n, e, s)
  PROVE  \/ i \in DOMAIN nominations /\ Recorded(n, e, s)[i] = nominations[i]
         \/ Recorded(n, e, s)[i] = [nom |-> n, era |-> e, slate |-> s]
<1> DEFINE row == [nom |-> n, era |-> e, slate |-> s]
<1> HIDE DEF row
<1>1. CASE \E j \in DOMAIN nominations : nominations[j].nom = n /\ nominations[j].era = e
  <2>1. Recorded(n, e, s) = [nominations EXCEPT ![1] = row]
    BY <1>1 DEF Recorded, row
  <2> QED BY <2>1 DEF row
<1>2. CASE ~ \E j \in DOMAIN nominations : nominations[j].nom = n /\ nominations[j].era = e
  <2>1. Recorded(n, e, s) = Append(nominations, row)
    BY <1>2 DEF Recorded, row
  <2> QED BY <2>1 DEF row
<1> QED BY <1>1, <1>2

\* Rows stay rows.
LEMMA RecordedType ==
  ASSUME NEW n \in Nominators, NEW e \in Nat, NEW s \in Slates, nominations \in Seq(Nomination)
  PROVE  Recorded(n, e, s) \in Seq(Nomination)
<1> DEFINE row == [nom |-> n, era |-> e, slate |-> s]
<1>1. row \in Nomination
  BY DEF Nomination
<1> HIDE DEF row
<1>2. CASE \E j \in DOMAIN nominations : nominations[j].nom = n /\ nominations[j].era = e
  <2>1. Recorded(n, e, s) = [nominations EXCEPT ![1] = row]
    BY <1>2 DEF Recorded, row
  <2>2. 1 \in DOMAIN nominations
    BY <1>2
  <2>3. [nominations EXCEPT ![1] = row] \in Seq(Nomination)
    BY <1>1, <2>2
  <2> QED BY <2>1, <2>3
<1>3. CASE ~ \E j \in DOMAIN nominations : nominations[j].nom = n /\ nominations[j].era = e
  <2>1. Recorded(n, e, s) = Append(nominations, row)
    BY <1>3 DEF Recorded, row
  <2> QED BY <1>1, <2>1
<1> QED BY <1>2, <1>3

\* The initial state is well typed.
LEMMA TypeInit == Init => TypeOK
<1> SUFFICES ASSUME Init PROVE TypeOK
  OBVIOUS
<1>1. ChainTypeOK
  BY DEF Init, ChainTypeOK
<1>2. StoreTypeOK
  BY DEF Init, StoreTypeOK
<1>3. RoundTypeOK /\ CancelTypeOK
  BY DEF Init, RoundTypeOK, CancelTypeOK, RoundStages, CancelStages
<1>4. ExecTypeOK
  BY DEF Init, ExecTypeOK, ExecStages, InHand
<1> QED BY <1>1, <1>2, <1>3, <1>4 DEF TypeOK

\* A chain step keeps every variable well typed.
LEMMA TypeChain ==
  ASSUME TypeOK,
         NewBlock \/ ChangeCommission \/ \E tx \in pool : IncludeTx(tx) \/ LoseTx(tx)
  PROVE  TypeOK'
<1> USE DEF TypeOK, ChainTypeOK, StoreTypeOK, RoundTypeOK, ExecTypeOK, CancelTypeOK,
            chainVars, dbVars, roundVars, execVars, cancelVars
<1>1. CASE NewBlock
  BY <1>1, ConstantsAssumption DEF NewBlock
<1>2. CASE ChangeCommission
  BY <1>2, ConstantsAssumption DEF ChangeCommission
<1>3. ASSUME NEW tx \in pool, IncludeTx(tx)
      PROVE  TypeOK'
  <2>1. tx \in Tx /\ tx.nom \in Nominators /\ tx.slate \in Slates
    BY <1>3 DEF Tx
  <2>2. [slate |-> tx.slate, height |-> block + 1] \in Announcement
    BY <2>1 DEF Announcement
  <2>3. CASE IncludeAnnounce(tx)
    BY <1>3, <2>1, <2>2, <2>3 DEF IncludeTx, IncludeAnnounce
  <2>4. CASE IncludeExecute(tx)
    <3>1. /\ announcements' = [announcements EXCEPT ![tx.nom] = @ \ Matured(tx)]
             \/ announcements' = announcements
          /\ active' = [active EXCEPT ![tx.nom] = [slate |-> tx.slate, era |-> era]]
             \/ active' = active
          /\ execSent' = execSent \/ execSent' = FALSE
          /\ faults' \in Nat
      BY <2>4 DEF IncludeExecute, Fault, NoFault
    <3>2. ChainTypeOK'
      <4>1. announcements' \in [Nominators -> SUBSET Announcement]
        BY <2>1, <3>1 DEF ChainTypeOK
      <4>2. active' \in [Nominators -> [slate : Slates \cup {None}, era : Nat]]
        BY <2>1, <3>1
      <4> QED BY <1>3, <4>1, <4>2 DEF IncludeTx
    <3>3. StoreTypeOK' /\ RoundTypeOK' /\ CancelTypeOK'
      BY <1>3, <3>1 DEF IncludeTx
    <3>4. ExecTypeOK'
      BY <1>3, <3>1 DEF IncludeTx
    <3> QED BY <3>2, <3>3, <3>4
  <2>5. CASE IncludeRemove(tx)
    BY <1>3, <2>1, <2>5 DEF IncludeTx, IncludeRemove
  <2> QED BY <1>3, <2>3, <2>4, <2>5 DEF IncludeTx
<1>4. ASSUME NEW tx \in pool, LoseTx(tx)
      PROVE  TypeOK'
  <2>1. execSent' = execSent \/ execSent' = FALSE
    BY <1>4 DEF LoseTx
  <2>2. ExecTypeOK'
    BY <1>4, <2>1 DEF LoseTx
  <2>3. ChainTypeOK' /\ StoreTypeOK' /\ RoundTypeOK' /\ CancelTypeOK'
    BY <1>4 DEF LoseTx, Fault
  <2> QED BY <2>2, <2>3
<1> QED BY <1>1, <1>2, <1>3, <1>4

\* Start-up and crash keep every variable well typed.
LEMMA TypeProcess ==
  ASSUME TypeOK, Begin \/ BeginFails \/ Crash
  PROVE  TypeOK'
<1> USE DEF TypeOK, ChainTypeOK, StoreTypeOK, RoundTypeOK, ExecTypeOK, CancelTypeOK,
            chainVars, dbVars, roundVars, execVars, cancelVars
<1>1. CASE Begin
  BY <1>1 DEF Begin
<1>2. CASE BeginFails
  BY <1>2 DEF BeginFails, Fault, RoundStages
<1>3. CASE Crash
  <2>1. ChainTypeOK' /\ StoreTypeOK'
    BY <1>3 DEF Crash, Fault
  <2>2. RoundTypeOK' /\ CancelTypeOK'
    BY <1>3 DEF Crash, RoundStages, CancelStages
  <2>3. ExecTypeOK'
    BY <1>3 DEF Crash, ExecStages, InHand
  <2> QED BY <2>1, <2>2, <2>3
<1> QED BY <1>1, <1>2, <1>3

\* A step of a round keeps every variable well typed.
LEMMA TypeRound ==
  ASSUME TypeOK, Round
  PROVE  TypeOK'
<1> USE DEF TypeOK, chainVars, execVars, cancelVars
<1>1. ChainTypeOK' /\ ExecTypeOK' /\ CancelTypeOK'
  <2>1. pool' \subseteq Tx
    <3>1. CASE AnnounceTx
      <4>1. Groups[roundPos] \in Nominators /\ roundSlate \in Slates
        BY <3>1, GroupIsNominator DEF AnnounceTx, RoundTypeOK
      <4>2. TxOf("announce", Groups[roundPos], roundSlate) \in Tx
        BY <4>1 DEF TxOf, Tx, TxKinds
      <4> QED BY <3>1, <4>2 DEF AnnounceTx, ChainTypeOK
    <3>2. CASE ~AnnounceTx
      BY <3>2 DEF Round, StartRound, SkipRound, CheckDelayed, CheckEra, ReadNumber, InsertDelayedTx,
                  FinishRound, ChainTypeOK
    <3> QED BY <3>1, <3>2
  <2>2. UNCHANGED outsideRound
    BY DEF Round, StartRound, SkipRound, CheckDelayed, CheckEra, ReadNumber, InsertDelayedTx,
           AnnounceTx, FinishRound, outsideRound
  <2> QED BY <2>1, <2>2 DEF outsideRound, ChainTypeOK, ExecTypeOK, CancelTypeOK
<1>2. StoreTypeOK' /\ RoundTypeOK'
  <2> USE DEF StoreTypeOK, RoundTypeOK, RoundStages, Idle, NextGroup, NoFault, Fault,
              outsideRound
  <2>1. CASE StartRound
    BY <2>1 DEF StartRound
  <2>2. CASE SkipRound
    BY <2>2 DEF SkipRound
  <2>3. CASE CheckDelayed
    BY <2>3 DEF CheckDelayed
  <2>4. CASE CheckEra
    BY <2>4 DEF CheckEra
  <2>5. CASE ReadNumber
    BY <2>5 DEF ReadNumber, ChainTypeOK
  <2>6. CASE InsertDelayedTx
    <3>1. [nom |-> Groups[roundPos], number |-> roundNumber, slate |-> roundSlate] \in Record
      BY <2>6, GroupIsNominator DEF InsertDelayedTx, Record
    <3> QED BY <2>6, <3>1 DEF InsertDelayedTx
  <2>7. CASE AnnounceTx
    BY <2>7 DEF AnnounceTx
  <2>8. CASE FinishRound
    BY <2>8 DEF FinishRound
  <2> QED BY <2>1, <2>2, <2>3, <2>4, <2>5, <2>6, <2>7, <2>8 DEF Round
<1> QED BY <1>1, <1>2

\* A step of the execution job keeps every variable well typed.
LEMMA TypeExecution ==
  ASSUME TypeOK, Execution
  PROVE  TypeOK'
<1> USE DEF TypeOK, chainVars, roundVars, cancelVars
<1>1. UNCHANGED outsideExec
  BY DEF Execution, StartExecution, ReadDelayed, CheckCommission, CancelAnnounced, SendExecution,
         SetNomination, DeleteDelayedTx, FinishExecution
<1>2. RoundTypeOK' /\ CancelTypeOK'
  BY <1>1 DEF outsideExec, RoundTypeOK, CancelTypeOK
<1>3. StoreTypeOK'
  <2> USE <1>1 DEF outsideExec, StoreTypeOK, Fault, NoFault
  <2>1. CASE SetNomination
    <3>1. execPc = "sent" /\ execCur \in Record /\ execEra \in Nat
      BY <2>1 DEF SetNomination, ExecTypeOK, InHand
    <3>2. Recorded(execCur.nom, execEra, execCur.slate) \in Seq(Nomination)
      BY <3>1, RecordedType DEF Record
    <3>3. nominations' \in Seq(Nomination)
      BY <2>1, <3>2 DEF SetNomination
    <3> QED BY <2>1, <3>3 DEF SetNomination
  <2>2. CASE SendExecution
    BY <2>2 DEF SendExecution, ExecTypeOK, InHand
  <2>3. CASE ~SetNomination /\ ~SendExecution
    BY <2>3 DEF Execution, StartExecution, ReadDelayed, CheckCommission, CancelAnnounced,
                DeleteDelayedTx, FinishExecution
  <2> QED BY <2>1, <2>2, <2>3
<1>4. ChainTypeOK'
  <2> USE <1>1 DEF outsideExec, ChainTypeOK
  <2>1. execCur \in Record => \A kind \in TxKinds : TxOf(kind, execCur.nom, execCur.slate) \in Tx
    BY DEF TxOf, Tx, Record
  <2>2. CASE CancelAnnounced
    <3>1. execCur \in Record
      BY <2>2 DEF CancelAnnounced, ExecTypeOK, InHand
    <3>2. \A a \in announcements[execCur.nom] :
            a.slate = execCur.slate => TxOf("remove", execCur.nom, a.slate) \in Tx
      BY <2>1, <3>1 DEF TxKinds
    <3> QED BY <2>2, <3>2 DEF CancelAnnounced
  <2>3. CASE SendExecution
    <3>1. execCur \in Record
      BY <2>3 DEF SendExecution, ExecTypeOK, InHand
    <3> QED BY <2>1, <2>3, <3>1 DEF SendExecution, TxKinds
  <2>4. CASE ~CancelAnnounced /\ ~SendExecution
    BY <2>4 DEF Execution, StartExecution, ReadDelayed, CheckCommission, SetNomination,
                DeleteDelayedTx, FinishExecution
  <2> QED BY <2>2, <2>3, <2>4
<1>5. ExecTypeOK'
  <2> USE DEF ExecTypeOK, ExecStages, InHand, NextRecord
  <2>1. CASE StartExecution \/ ReadDelayed
    BY <2>1 DEF StartExecution, ReadDelayed, ChainTypeOK, StoreTypeOK
  <2>2. ASSUME NEW r \in execTodo, CheckCommission(r)
        PROVE  ExecTypeOK'
    BY <2>2 DEF CheckCommission
  <2>3. CASE CancelAnnounced
    BY <2>3 DEF CancelAnnounced
  <2>4. CASE SendExecution
    BY <2>4 DEF SendExecution
  <2>5. CASE SetNomination
    BY <2>5 DEF SetNomination
  <2>6. CASE DeleteDelayedTx
    BY <2>6 DEF DeleteDelayedTx
  <2>7. CASE FinishExecution
    BY <2>7 DEF FinishExecution
  <2> QED BY <2>1, <2>2, <2>3, <2>4, <2>5, <2>6, <2>7 DEF Execution
<1> QED BY <1>2, <1>3, <1>4, <1>5

\* A step of the cancel job keeps every variable well typed.
LEMMA TypeCancel ==
  ASSUME TypeOK, Cancel
  PROVE  TypeOK'
<1> USE DEF TypeOK, chainVars, dbVars, roundVars, execVars, NoFault, Fault
<1>1. UNCHANGED outsideCancel
  BY DEF Cancel, StartCancel, ReadAnnouncements, CancelOne, NextCancelGroup, FinishCancel
<1>2. faults' \in Nat
  BY DEF Cancel, StartCancel, ReadAnnouncements, CancelOne, NextCancelGroup, FinishCancel,
         StoreTypeOK
<1>3. StoreTypeOK' /\ RoundTypeOK' /\ ExecTypeOK'
  BY <1>1, <1>2 DEF outsideCancel, StoreTypeOK, RoundTypeOK, ExecTypeOK
<1>4. pool' \subseteq Tx
  <2>1. ASSUME NEW a \in cancelTodo, CancelOne(a)
        PROVE  pool' \subseteq Tx
    <3>1. Groups[cancelPos] \in Nominators /\ a.slate \in Slates
      BY <2>1, GroupIsNominator DEF CancelOne, CancelTypeOK, Announcement
    <3>2. TxOf("remove", Groups[cancelPos], a.slate) \in Tx
      BY <3>1 DEF TxOf, Tx, TxKinds
    <3> QED BY <2>1, <3>2 DEF CancelOne, ChainTypeOK
  <2>2. CASE ~\E a \in cancelTodo : CancelOne(a)
    BY <2>2 DEF Cancel, StartCancel, ReadAnnouncements, NextCancelGroup, FinishCancel,
                ChainTypeOK
  <2> QED BY <2>1, <2>2
<1>5. ChainTypeOK'
  BY <1>1, <1>4 DEF outsideCancel, ChainTypeOK
<1>6. CancelTypeOK'
  <2> USE DEF CancelTypeOK, CancelStages
  <2>1. CASE StartCancel
    BY <2>1 DEF StartCancel, ChainTypeOK
  <2>2. CASE ReadAnnouncements
    <3>1. announcements[Groups[cancelPos]] \subseteq Announcement
      BY <2>2, GroupIsNominator DEF ReadAnnouncements, ChainTypeOK
    <3> QED BY <2>2, <3>1 DEF ReadAnnouncements
  <2>3. ASSUME NEW a \in cancelTodo, CancelOne(a)
        PROVE  CancelTypeOK'
    BY <2>3 DEF CancelOne
  <2>4. CASE NextCancelGroup
    BY <2>4 DEF NextCancelGroup
  <2>5. CASE FinishCancel
    BY <2>5 DEF FinishCancel
  <2> QED BY <2>1, <2>2, <2>3, <2>4, <2>5 DEF Cancel
<1> QED BY <1>3, <1>5, <1>6

\* A step that changes nothing keeps every variable well typed.
LEMMA TypeStutter ==
  ASSUME TypeOK, UNCHANGED vars
  PROVE  TypeOK'
BY DEF TypeOK, ChainTypeOK, StoreTypeOK, RoundTypeOK, ExecTypeOK, CancelTypeOK, vars,
       chainVars, dbVars, roundVars, execVars, cancelVars

\* The program never puts a value of the wrong kind into the database, the pool or the
\* state of a round or a job, and no stage runs without the group or record it needs.
THEOREM TypeCorrect == Spec => []TypeOK
<1>1. TypeOK /\ [Next]_vars => TypeOK'
  BY TypeChain, TypeProcess, TypeRound, TypeExecution, TypeCancel, TypeStutter DEF Next
<1> QED BY <1>1, TypeInit, PTL DEF Spec
-----------------------------------------------------------------------------
(* One record per nominator, and the execution job's snapshot.             *)

\* The round that found its nominator without a record keeps it so until it saves one.
RoundClear == roundPc \in {"era", "number", "insert"} => PendingOf(Groups[roundPos]) = {}

\* The record in hand is no longer among those to look at.
HandApart == execPc \in InHand => execCur \notin execTodo

\* The inductive invariant behind OnePendingPerNominator and SnapshotCurrent: each needs
\* the other, for a delete by number and controller spares the rest of the snapshot only
\* if no two records share them.
IndInv == TypeOK /\ OnePendingPerNominator /\ SnapshotCurrent /\ RoundClear /\ HandApart

\* Nothing has been announced or read at the start.
LEMMA IndInit == Init => IndInv
BY TypeInit DEF Init, IndInv, OnePendingPerNominator, SnapshotCurrent, RoundClear,
                HandApart, InHand

\* Steps that leave the database, the round and the execution job alone, or end what the
\* process was doing.
LEMMA IndFrame ==
  ASSUME IndInv, TypeOK',
         delayed' = delayed,
         UNCHANGED <<roundPc, roundPos>> \/ roundPc' = "idle",
         UNCHANGED <<execPc, execTodo, execCur>> \/ (execPc' = "idle" /\ execTodo' = {})
  PROVE  IndInv'
BY DEF IndInv, OnePendingPerNominator, SnapshotCurrent, RoundClear, HandApart, InHand,
       PendingOf

\* A round saves a record only for a nominator that has none.
LEMMA IndRound ==
  ASSUME IndInv, TypeOK', Round
  PROVE  IndInv'
<1>1. SnapshotCurrent' /\ HandApart'
  <2>1. delayed \subseteq delayed' /\ UNCHANGED execVars
    BY DEF Round, StartRound, SkipRound, CheckDelayed, CheckEra, ReadNumber, InsertDelayedTx,
           AnnounceTx, FinishRound, outsideRound
  <2> QED BY <2>1 DEF IndInv, SnapshotCurrent, HandApart, execVars
<1>2. OnePendingPerNominator'
  <2>1. CASE InsertDelayedTx
    <3>1. PendingOf(Groups[roundPos]) = {}
      BY <2>1 DEF IndInv, RoundClear, InsertDelayedTx
    <3>2. delayed' \subseteq
            delayed \cup {[nom |-> Groups[roundPos], number |-> roundNumber, slate |-> roundSlate]}
      BY <2>1 DEF InsertDelayedTx
    <3> QED BY <3>1, <3>2 DEF IndInv, OnePendingPerNominator, PendingOf
  <2>2. CASE ~InsertDelayedTx
    <3>1. delayed' = delayed
      BY <2>2 DEF Round, StartRound, SkipRound, CheckDelayed, CheckEra, ReadNumber, AnnounceTx,
                  FinishRound
    <3> QED BY <3>1 DEF IndInv, OnePendingPerNominator
  <2> QED BY <2>1, <2>2
<1>3. RoundClear'
  <2> USE DEF RoundClear, PendingOf
  <2>1. CASE CheckDelayed
    BY <2>1 DEF CheckDelayed, NextGroup
  <2>2. CASE CheckEra
    BY <2>2 DEF CheckEra, NextGroup, Idle, IndInv
  <2>3. CASE \/ StartRound \/ SkipRound \/ ReadNumber \/ InsertDelayedTx \/ AnnounceTx
             \/ FinishRound
    BY <2>3 DEF IndInv, StartRound, SkipRound, ReadNumber, InsertDelayedTx, AnnounceTx, FinishRound, NextGroup,
                Idle
  <2> QED BY <2>1, <2>2, <2>3 DEF Round
<1> QED BY <1>1, <1>2, <1>3 DEF IndInv

\* The execution job deletes the record in hand and no other.
LEMMA DeletesOnlyHand ==
  ASSUME IndInv, execPc \in InHand,
         NEW r \in delayed, r.nom = execCur.nom
  PROVE  r = execCur
BY DEF IndInv, SnapshotCurrent, OnePendingPerNominator

\* The execution job only deletes, and keeps to the records of its snapshot.
LEMMA IndExecution ==
  ASSUME IndInv, TypeOK', Execution
  PROVE  IndInv'
<1>1. delayed' \subseteq delayed /\ UNCHANGED roundVars
  BY DEF Execution, StartExecution, ReadDelayed, CheckCommission, CancelAnnounced, SendExecution,
         SetNomination, DeleteDelayedTx, FinishExecution, outsideExec
<1>2. OnePendingPerNominator' /\ RoundClear'
  BY <1>1 DEF IndInv, OnePendingPerNominator, RoundClear, PendingOf, roundVars
<1>3. SnapshotCurrent' /\ HandApart'
  <2> USE DEF SnapshotCurrent, HandApart, InHand, NextRecord
  <2>1. CASE StartExecution \/ ReadDelayed
    BY <2>1 DEF StartExecution, ReadDelayed, IndInv
  <2>2. ASSUME NEW r \in execTodo, CheckCommission(r)
        PROVE  SnapshotCurrent' /\ HandApart'
    BY <2>2 DEF CheckCommission, IndInv
  <2>3. CASE CancelAnnounced \/ SendExecution \/ SetNomination
    BY <2>3 DEF CancelAnnounced, SendExecution, SetNomination, IndInv
  <2>4. CASE DeleteDelayedTx
    <3>1. \A r \in delayed : r # execCur => r \in delayed'
      BY <2>4, DeletesOnlyHand DEF DeleteDelayedTx
    <3>2. execTodo' = execTodo /\ execCur \notin execTodo /\ execPc' = "pick"
      BY <2>4 DEF DeleteDelayedTx, IndInv
    <3> QED BY <3>1, <3>2 DEF IndInv
  <2>5. CASE FinishExecution
    BY <2>5 DEF FinishExecution
  <2> QED BY <2>1, <2>2, <2>3, <2>4, <2>5 DEF Execution
<1> QED BY <1>2, <1>3 DEF IndInv

\* Every step preserves the inductive invariant.
LEMMA IndNext == IndInv /\ [Next]_vars => IndInv'
<1> SUFFICES ASSUME IndInv, [Next]_vars PROVE IndInv'
  OBVIOUS
<1>1. TypeOK'
  BY TypeChain, TypeProcess, TypeRound, TypeExecution, TypeCancel, TypeStutter DEF Next, IndInv
<1>2. CASE ~Round /\ ~Execution
  <2>1. \/ NewBlock \/ ChangeCommission \/ \E tx \in pool : IncludeTx(tx) \/ LoseTx(tx)
        \/ Begin \/ BeginFails \/ Crash \/ Cancel \/ UNCHANGED vars
    BY <1>2 DEF Next
  <2>2. delayed' = delayed
    BY <2>1 DEF NewBlock, ChangeCommission, IncludeTx, LoseTx, Begin, BeginFails, Crash,
         Cancel, StartCancel, ReadAnnouncements, CancelOne, NextCancelGroup, FinishCancel,
         outsideCancel, vars, dbVars
  <2>3. UNCHANGED <<roundPc, roundPos>> \/ roundPc' = "idle"
    BY <2>1 DEF NewBlock, ChangeCommission, IncludeTx, LoseTx, Begin, BeginFails, Crash,
         Cancel, StartCancel, ReadAnnouncements, CancelOne, NextCancelGroup, FinishCancel,
         outsideCancel, vars, roundVars
  <2>4. UNCHANGED <<execPc, execTodo, execCur>> \/ (execPc' = "idle" /\ execTodo' = {})
    BY <2>1 DEF NewBlock, ChangeCommission, IncludeTx, LoseTx, Begin, BeginFails, Crash,
         Cancel, StartCancel, ReadAnnouncements, CancelOne, NextCancelGroup, FinishCancel,
         outsideCancel, vars, execVars
  <2> QED BY <1>1, <2>2, <2>3, <2>4, IndFrame
<1> QED BY <1>1, <1>2, IndRound, IndExecution

\* The inductive invariant holds of every reachable state.
THEOREM Inductive == Spec => []IndInv
BY IndInit, IndNext, PTL DEF Spec

\* shouldNominate's look at the database, several awaits before addDelayedTx writes it,
\* still keeps a nominator from having two delayed nominations: no other code adds one.
THEOREM OnePending == Spec => []OnePendingPerNominator
<1>1. IndInv => OnePendingPerNominator
  BY DEF IndInv
<1> QED BY <1>1, Inductive, PTL

\* The list of records the execution job read at its start stays true throughout, though
\* rounds add records and the job itself deletes them while it goes through the list.
THEOREM SnapshotStaysCurrent == Spec => []SnapshotCurrent
<1>1. IndInv => SnapshotCurrent
  BY DEF IndInv
<1> QED BY <1>1, Inductive, PTL
-----------------------------------------------------------------------------
(* What has been broadcast.                                                *)

\* The job's clock is behind the chain's, and a record is sent only when it is due.
ClockBehind ==
  /\ execLatest <= block
  /\ execPc = "send" => Due(execCur)
  /\ \A r \in broadcast : r.number + Delay <= block

\* What was broadcast for a nominator is older than the record a round is about to save.
NumberFresh == roundPc = "insert" =>
  /\ roundNumber <= block
  /\ \A r \in broadcast : r.nom = Groups[roundPos] => r.number < roundNumber

\* What the job has passed the send of was broadcast.
SentBroadcast == execPc \in {"sent", "recorded"} => execCur \in broadcast

\* As long as nothing failed, a broadcast record still in the database is the one the
\* job is about to delete.
CleanWhileFaultless ==
  faults = 0 =>
    /\ \A r \in broadcast \cap delayed : execPc \in {"sent", "recorded"} /\ r = execCur
    /\ execPc = "sent" => execSent

SendInv == IndInv /\ ClockBehind /\ NumberFresh /\ SentBroadcast /\ CleanWhileFaultless

\* Nothing has been broadcast at the start.
LEMMA SendInit == Init => SendInv
BY IndInit DEF Init, SendInv, ClockBehind, NumberFresh, SentBroadcast, CleanWhileFaultless

\* Steps outside the round and the execution job, other than what the chain tells
\* sendStakingTx.
LEMMA SendFrame ==
  ASSUME SendInv, IndInv', block' >= block, faults' = faults \/ faults' = faults + 1,
         UNCHANGED <<delayed, broadcast>>, UNCHANGED roundVars \/ roundPc' = "idle",
         \/ UNCHANGED execVars
         \/ UNCHANGED <<execPc, execLatest, execCur>> /\ faults' = faults + 1
         \/ execPc' = "idle" /\ execLatest' = 0 /\ faults' = faults + 1
  PROVE  SendInv'
<1>1. /\ block \in Nat /\ block' \in Nat /\ faults \in Nat
      /\ broadcast \subseteq Record /\ execLatest \in Nat /\ roundNumber \in Nat
  BY DEF SendInv, IndInv, TypeOK, ChainTypeOK, StoreTypeOK, RoundTypeOK, ExecTypeOK
<1>2. ClockBehind'
  BY <1>1, ConstantsAssumption DEF SendInv, ClockBehind, Due, execVars, Record
<1>3. SentBroadcast'
  BY DEF SendInv, SentBroadcast, execVars
<1>4. CleanWhileFaultless'
  BY <1>1 DEF SendInv, CleanWhileFaultless, execVars
<1>5. NumberFresh'
  BY <1>1 DEF SendInv, NumberFresh, roundVars
<1> QED BY <1>2, <1>3, <1>4, <1>5 DEF SendInv

\* A round saves a record younger than any that was broadcast.
LEMMA SendRound ==
  ASSUME SendInv, IndInv', Round
  PROVE  SendInv'
<1>1. /\ UNCHANGED <<block, broadcast>> /\ UNCHANGED execVars
      /\ faults' = faults \/ faults' = faults + 1
  BY DEF Round, StartRound, SkipRound, CheckDelayed, CheckEra, ReadNumber, InsertDelayedTx,
         AnnounceTx, FinishRound, outsideRound, chainVars, NoFault, Fault
<1>2. ClockBehind' /\ SentBroadcast'
  BY <1>1 DEF SendInv, ClockBehind, SentBroadcast, Due, execVars
<1>3. broadcast \cap delayed' \subseteq delayed
  <2>1. CASE InsertDelayedTx
    <3> DEFINE r == [nom |-> Groups[roundPos], number |-> roundNumber, slate |-> roundSlate]
    <3>1. roundNumber \in Nat
      BY DEF SendInv, IndInv, TypeOK, RoundTypeOK
    <3>2. r \notin broadcast
      BY <2>1, <3>1 DEF SendInv, NumberFresh, InsertDelayedTx
    <3>3. delayed' \subseteq delayed \cup {r}
      BY <2>1 DEF InsertDelayedTx
    <3> QED BY <3>2, <3>3
  <2>2. CASE ~InsertDelayedTx
    BY <2>2 DEF Round, StartRound, SkipRound, CheckDelayed, CheckEra, ReadNumber, AnnounceTx,
                FinishRound
  <2> QED BY <2>1, <2>2
<1>4. CleanWhileFaultless'
  <2>1. faults \in Nat
    BY DEF SendInv, IndInv, TypeOK, StoreTypeOK
  <2> QED BY <1>1, <1>3, <2>1 DEF SendInv, CleanWhileFaultless, execVars
<1>5. NumberFresh'
  <2>1. CASE ReadNumber
    <3>1. /\ block \in Nat /\ broadcast \subseteq Record
          /\ \A r \in broadcast : r.number \in Nat /\ r.number + Delay <= block
      BY DEF SendInv, ClockBehind, IndInv, TypeOK, ChainTypeOK, StoreTypeOK, Record
    <3>2. roundPc' = "insert" => roundNumber' = block
      BY <2>1 DEF ReadNumber, NextGroup
    <3>3. \A r \in broadcast : r.number < block
      BY <3>1, ConstantsAssumption
    <3> QED BY <1>1, <3>1, <3>2, <3>3 DEF NumberFresh
  <2>2. CASE ~ReadNumber
    <3>1. roundPc' # "insert"
      BY <2>2 DEF Round, StartRound, SkipRound, CheckDelayed, CheckEra, InsertDelayedTx,
                  AnnounceTx, FinishRound, NextGroup, Idle
    <3> QED BY <3>1 DEF NumberFresh
  <2> QED BY <2>1, <2>2
<1> QED BY <1>2, <1>4, <1>5 DEF SendInv

\* The execution job deletes what it broadcast, unless a call fails.
LEMMA SendExecutionJob ==
  ASSUME SendInv, IndInv', Execution
  PROVE  SendInv'
<1>1. /\ block \in Nat /\ faults \in Nat /\ execLatest \in Nat
      /\ broadcast \subseteq Record /\ delayed \subseteq Record
      /\ execPc \in InHand => execCur \in Record
  BY DEF SendInv, IndInv, TypeOK, ChainTypeOK, StoreTypeOK, ExecTypeOK
<1>2. UNCHANGED block
  BY DEF Execution, StartExecution, ReadDelayed, CheckCommission, CancelAnnounced, SendExecution,
         SetNomination, DeleteDelayedTx, FinishExecution, outsideExec, chainVars
<1>3. NumberFresh'
  <2>1. UNCHANGED roundVars
    BY DEF Execution, StartExecution, ReadDelayed, CheckCommission, CancelAnnounced,
           SendExecution, SetNomination, DeleteDelayedTx, FinishExecution, outsideExec
  <2>2. CASE SendExecution /\ roundPc = "insert"
    <3>1. execCur \in delayed /\ PendingOf(Groups[roundPos]) = {}
      BY <2>2 DEF SendExecution, SendInv, IndInv, SnapshotCurrent, RoundClear, InHand
    <3>2. execCur.nom # Groups[roundPos]
      BY <3>1 DEF PendingOf
    <3> QED BY <1>2, <2>1, <2>2, <3>2 DEF SendExecution, SendInv, NumberFresh, roundVars
  <2>3. CASE ~SendExecution
    <3>1. UNCHANGED broadcast
      BY <2>3 DEF Execution, StartExecution, ReadDelayed, CheckCommission, CancelAnnounced,
                  SetNomination, DeleteDelayedTx, FinishExecution
    <3> QED BY <1>2, <2>1, <3>1 DEF SendInv, NumberFresh, roundVars
  <2> QED BY <2>1, <2>2, <2>3 DEF NumberFresh, roundVars
<1> USE <1>3 DEF SendInv, ClockBehind, SentBroadcast, CleanWhileFaultless, Due, NextRecord,
            NoFault, Fault
<1>4. CASE StartExecution \/ ReadDelayed
  BY <1>1, <1>2, <1>4 DEF StartExecution, ReadDelayed
<1>5. ASSUME NEW r \in execTodo, CheckCommission(r)
      PROVE  SendInv'
  BY <1>1, <1>2, <1>5 DEF CheckCommission
<1>6. CASE CancelAnnounced
  BY <1>1, <1>2, <1>6 DEF CancelAnnounced
<1>7. CASE SendExecution
  <2>1. execCur \in Record /\ execCur.number \in Nat /\ execCur.number + Delay <= block
    BY <1>1, <1>7, ConstantsAssumption DEF SendExecution, InHand, Record
  <2> QED BY <1>1, <1>2, <1>7, <2>1 DEF SendExecution
<1>8. CASE SetNomination
  BY <1>1, <1>2, <1>8 DEF SetNomination
<1>9. CASE DeleteDelayedTx
  <2>1. CASE faults' = 0
    <3>1. delayed' = {r \in delayed : ~(r.nom = execCur.nom /\ r.number = execCur.number)}
      BY <1>1, <1>9, <2>1 DEF DeleteDelayedTx
    <3> QED BY <1>1, <1>2, <1>9, <2>1, <3>1 DEF DeleteDelayedTx
  <2>2. CASE faults' # 0
    BY <1>1, <1>2, <1>9, <2>2 DEF DeleteDelayedTx
  <2> QED BY <2>1, <2>2
<1>10. CASE FinishExecution
  BY <1>1, <1>2, <1>10 DEF FinishExecution
<1> QED BY <1>4, <1>5, <1>6, <1>7, <1>8, <1>9, <1>10 DEF Execution

\* Every step preserves what is known of the broadcasts.
LEMMA SendNext == SendInv /\ [Next]_vars => SendInv'
<1> SUFFICES ASSUME SendInv, [Next]_vars PROVE SendInv'
  OBVIOUS
<1>1. IndInv'
  BY IndNext DEF SendInv
<1>2. CASE ~Round /\ ~Execution
  <2> DEFINE frame ==
        \/ UNCHANGED execVars
        \/ UNCHANGED <<execPc, execLatest, execCur>> /\ faults' = faults + 1
        \/ execPc' = "idle" /\ execLatest' = 0 /\ faults' = faults + 1
  <2>1. \/ NewBlock \/ ChangeCommission \/ \E tx \in pool : IncludeTx(tx) \/ LoseTx(tx)
        \/ Begin \/ BeginFails \/ Crash \/ Cancel \/ UNCHANGED vars
    BY <1>2 DEF Next
  <2>2. /\ UNCHANGED <<delayed, broadcast>>
        /\ block' = block \/ block' = block + 1
        /\ faults' = faults \/ faults' = faults + 1
    BY <2>1 DEF NewBlock, ChangeCommission, IncludeTx, IncludeAnnounce, IncludeExecute,
         IncludeRemove, LoseTx, Begin, BeginFails, Crash, Cancel, StartCancel,
         ReadAnnouncements, CancelOne, NextCancelGroup, FinishCancel, outsideCancel, vars,
         chainVars, dbVars, Fault, NoFault
  <2>3. UNCHANGED roundVars \/ roundPc' = "idle"
    BY <2>1 DEF NewBlock, ChangeCommission, IncludeTx, LoseTx, Begin, BeginFails, Crash,
         Cancel, StartCancel, ReadAnnouncements, CancelOne, NextCancelGroup, FinishCancel,
         outsideCancel, vars
  <2>4. block' >= block
    BY <2>2 DEF SendInv, IndInv, TypeOK, ChainTypeOK
  <2>5. frame
    <3>1. CASE \E tx \in pool : IncludeTx(tx)
      BY <3>1 DEF IncludeTx, IncludeAnnounce, IncludeExecute, IncludeRemove, Fault, NoFault,
                  execVars
    <3>2. CASE \E tx \in pool : LoseTx(tx)
      BY <3>2 DEF LoseTx, Fault, execVars
    <3>3. CASE Crash
      BY <3>3 DEF Crash, Fault
    <3>4. CASE \/ NewBlock \/ ChangeCommission \/ Begin \/ BeginFails \/ Cancel
               \/ UNCHANGED vars
      BY <3>4 DEF NewBlock, ChangeCommission, Begin, BeginFails, Cancel, StartCancel,
           ReadAnnouncements, CancelOne, NextCancelGroup, FinishCancel, outsideCancel, vars
    <3> QED BY <2>1, <3>1, <3>2, <3>3, <3>4
  <2> QED BY <1>1, <2>2, <2>3, <2>4, <2>5, SendFrame
<1> QED BY <1>1, <1>2, SendRound, SendExecutionJob

\* What the broadcasts are known to satisfy holds of every reachable state.
THEOREM SendInvariant == Spec => []SendInv
BY SendInit, SendNext, PTL DEF Spec

\* A second broadcast of the same record needs a fault before it: the delete that follows
\* each broadcast, and the clock, exclude any other way to it.
THEOREM ResendNeedsFault == Spec => ResendsOnlyAfterFault
<1>1. SendInv /\ [Next]_vars =>
        [execPc = "send" /\ execPc' = "sent" /\ execCur \in broadcast => faults > 0]_vars
  <2> SUFFICES ASSUME SendInv, execPc = "send", execCur \in broadcast
               PROVE  faults > 0
    OBVIOUS
  <2>1. execCur \in delayed /\ faults \in Nat
    BY DEF SendInv, IndInv, SnapshotCurrent, InHand, TypeOK, StoreTypeOK
  <2>2. faults # 0
    BY <2>1 DEF SendInv, CleanWhileFaultless
  <2> QED BY <2>1, <2>2
<1> QED BY <1>1, SendInvariant, PTL DEF Spec, ResendsOnlyAfterFault
-----------------------------------------------------------------------------
(* What is recorded was broadcast.                                         *)

\* The era the job has read is not ahead of the chain's.
RecordInv == RecordedWasSent /\ execEra <= era

LEMMA BroadcastGrows == [Next]_vars => broadcast \subseteq broadcast'
BY DEF Next, NewBlock, ChangeCommission, IncludeTx, LoseTx, Begin, BeginFails, Crash,
       Round, StartRound, SkipRound, CheckDelayed, CheckEra, ReadNumber, InsertDelayedTx, AnnounceTx,
       FinishRound, outsideRound, Execution, StartExecution, ReadDelayed, CheckCommission,
       CancelAnnounced, SendExecution, SetNomination, DeleteDelayedTx, FinishExecution, Cancel,
       StartCancel, ReadAnnouncements, CancelOne, NextCancelGroup, FinishCancel, outsideCancel, vars

\* Neither the block nor the era goes back.
LEMMA ChainAdvances == TypeOK /\ [Next]_vars => block' >= block /\ era' >= era
<1> SUFFICES ASSUME TypeOK, [Next]_vars PROVE block' >= block /\ era' >= era
  OBVIOUS
<1>1. block \in Nat /\ era \in Nat
  BY DEF TypeOK, ChainTypeOK
<1>2. CASE NewBlock
  BY <1>1, <1>2 DEF NewBlock
<1>3. CASE ~NewBlock
  <2>1. UNCHANGED <<block, era>>
    BY <1>3 DEF Next, ChangeCommission, IncludeTx, LoseTx, Begin, BeginFails, Crash, chainVars,
       Round, StartRound, SkipRound, CheckDelayed, CheckEra, ReadNumber, InsertDelayedTx, AnnounceTx,
       FinishRound, outsideRound, Execution, StartExecution, ReadDelayed, CheckCommission,
       CancelAnnounced, SendExecution, SetNomination, DeleteDelayedTx, FinishExecution, outsideExec,
       Cancel, StartCancel, ReadAnnouncements, CancelOne, NextCancelGroup, FinishCancel,
       outsideCancel, vars
  <2> QED BY <1>1, <2>1
<1> QED BY <1>2, <1>3

LEMMA OnlyExecutionRecords == [Next]_vars /\ ~Execution =>
        /\ UNCHANGED nominations
        /\ UNCHANGED execEra \/ execEra' = 0
BY DEF Next, NewBlock, ChangeCommission, IncludeTx, LoseTx, Begin, BeginFails, Crash, dbVars,
       Round, StartRound, SkipRound, CheckDelayed, CheckEra, ReadNumber, InsertDelayedTx, AnnounceTx,
       FinishRound, outsideRound, Cancel, StartCancel, ReadAnnouncements, CancelOne,
       NextCancelGroup, FinishCancel, outsideCancel, vars, execVars

\* A step of the execution job leaves the nominations as they are or records what it sent.
LEMMA ExecutionRecords == Execution =>
        /\ UNCHANGED era
        /\ UNCHANGED execEra \/ execEra' = 0 \/ execEra' = era
        /\ \/ UNCHANGED nominations
           \/ /\ execPc = "sent"
              /\ nominations' = Recorded(execCur.nom, execEra, execCur.slate)
BY DEF Execution, StartExecution, ReadDelayed, CheckCommission, CancelAnnounced, SendExecution,
       SetNomination, DeleteDelayedTx, FinishExecution, outsideExec, chainVars

LEMMA RecordKept == SendInv /\ SendInv' /\ RecordInv /\ [Next]_vars => RecordInv'
<1> SUFFICES ASSUME SendInv, SendInv', RecordInv, [Next]_vars PROVE RecordInv'
  OBVIOUS
<1>0. /\ block \in Nat /\ era \in Nat /\ block' \in Nat /\ era' \in Nat /\ execEra \in Nat
      /\ broadcast \subseteq Record /\ nominations \in Seq(Nomination)
  BY DEF SendInv, IndInv, TypeOK, ChainTypeOK, StoreTypeOK, ExecTypeOK
<1>1. block' >= block /\ era' >= era /\ broadcast \subseteq broadcast'
  BY ChainAdvances, BroadcastGrows DEF SendInv, IndInv
<1>2. execEra' <= era'
  BY <1>0, <1>1, OnlyExecutionRecords, ExecutionRecords DEF RecordInv
<1>3. ASSUME NEW i \in DOMAIN nominations
      PROVE  /\ nominations[i].era <= era'
             /\ \E r \in broadcast' : /\ r.nom = nominations[i].nom /\ r.slate = nominations[i].slate
                                      /\ r.number + Delay <= block'
  <2> DEFINE x == nominations[i]
  <2>1. x \in Nomination
    BY <1>0, <1>3
  <2>2. x.era \in Nat /\ x.era <= era
    BY <2>1, <1>3 DEF RecordInv, RecordedWasSent, WasSent, Nomination
  <2>3. PICK r \in broadcast : r.nom = x.nom /\ r.slate = x.slate /\ r.number + Delay <= block
    BY <1>3 DEF RecordInv, RecordedWasSent, WasSent
  <2>4. r.number + Delay <= block'
    <3>1. r.number \in Nat /\ Delay \in Nat
      BY <1>0, ConstantsAssumption DEF Record
    <3> QED BY <1>0, <1>1, <2>3, <3>1
  <2> HIDE DEF x
  <2>5. x.era <= era' /\ \E q \in broadcast' : q.nom = x.nom /\ q.slate = x.slate /\ q.number + Delay <= block'
    BY <1>0, <1>1, <2>2, <2>3, <2>4
  <2> QED BY <2>5 DEF x
<1>4. ASSUME execPc = "sent",
             NEW x, x = [nom |-> execCur.nom, era |-> execEra, slate |-> execCur.slate]
      PROVE  /\ x.era <= era'
             /\ \E r \in broadcast' : r.nom = x.nom /\ r.slate = x.slate /\ r.number + Delay <= block'
  <2>1. x.era <= era'
    BY <1>0, <1>1, <1>4 DEF RecordInv
  <2>2. execCur \in broadcast
    BY <1>4 DEF SendInv, SentBroadcast
  <2>3. execCur.number + Delay <= block /\ execCur \in Record
    BY <1>0, <2>2 DEF SendInv, ClockBehind
  <2>4. execCur.number + Delay <= block'
    <3>1. execCur.number \in Nat /\ Delay \in Nat
      BY <2>3, ConstantsAssumption DEF Record
    <3> QED BY <1>0, <1>1, <2>3, <3>1
  <2> QED BY <1>1, <1>4, <2>1, <2>2, <2>4
<1>5. RecordedWasSent'
  <2> SUFFICES ASSUME NEW i \in DOMAIN nominations' PROVE WasSent(nominations[i])'
    BY DEF RecordedWasSent
  <2>1. CASE UNCHANGED nominations
    BY <1>3, <2>1 DEF WasSent
  <2>2. CASE /\ execPc = "sent"
             /\ nominations' = Recorded(execCur.nom, execEra, execCur.slate)
    <3> DEFINE x == [nom |-> execCur.nom, era |-> execEra, slate |-> execCur.slate]
    <3>1. \/ i \in DOMAIN nominations /\ nominations'[i] = nominations[i]
          \/ nominations'[i] = x
      BY <1>0, <2>2, RecordedRows
    <3> QED BY <1>3, <1>4, <2>2, <3>1 DEF WasSent
  <2> QED BY <2>1, <2>2, OnlyExecutionRecords, ExecutionRecords
<1> QED BY <1>2, <1>5 DEF RecordInv

\* A row of the nominations collection always tells of a call that was broadcast, after its
\* delay and in no later era: also after crashes, lost transactions and failed calls between
\* the broadcast and the row.
THEOREM RowTellsOfBroadcast == Spec => []RecordedWasSent
<1>1. Init => RecordInv
  BY DEF Init, RecordInv, RecordedWasSent, WasSent
<1>2. RecordInv => RecordedWasSent
  BY DEF RecordInv
<1> QED BY <1>1, <1>2, RecordKept, SendInvariant, PTL DEF Spec
-----------------------------------------------------------------------------
(* ProxyNomination implements NominationPromise.                           *)

\* With one row, the scheduled call is that row.
LEMMA ScheduledIsRow ==
  ASSUME NEW n, NEW r, PendingOf(n) = {r}
  PROVE  ScheduledCall(n) = [slate |-> r.slate, since |-> r.number]
BY DEF ScheduledCall

\* One row is what a nominator has, once it has any.
LEMMA PendingIsSingleton ==
  ASSUME IndInv, NEW n, NEW r \in PendingOf(n)
  PROVE  PendingOf(n) = {r}
BY DEF IndInv, OnePendingPerNominator, PendingOf

\* At the start nothing is scheduled.
LEMMA PromiseInit == Init => Promise!Init
<1> SUFFICES ASSUME Init PROVE Promise!Init
  OBVIOUS
<1>1. \A n \in Nominators : PendingOf(n) = {} /\ ScheduledCall(n) = None
  BY DEF Init, PendingOf, ScheduledCall
<1> QED BY <1>1 DEF Init, Promise!Init

\* The row a nominator has determines what is scheduled and sent for it.
LEMMA PromiseFrame ==
  ASSUME UNCHANGED <<delayed, broadcast>>
  PROVE  /\ [n \in Nominators |-> ScheduledCall(n)]' = [n \in Nominators |-> ScheduledCall(n)]
         /\ {n \in Nominators : PendingOf(n) \cap broadcast # {}}'
              = {n \in Nominators : PendingOf(n) \cap broadcast # {}}
BY DEF ScheduledCall, PendingOf

\* addDelayedTx schedules.
LEMMA InsertSchedules ==
  ASSUME SendInv, InsertDelayedTx
  PROVE  [Promise!Next]_(Promise!promiseVars)
<1>1. /\ Groups[roundPos] \in Nominators /\ roundSlate \in Slates
      /\ roundNumber \in Nat /\ block \in Nat
  BY GroupIsNominator DEF InsertDelayedTx, SendInv, IndInv, TypeOK, RoundTypeOK, ChainTypeOK
\* fixed values, for what is said of them in the next state
<1> PICK n \in Nominators, s \in Slates, b \in Nat :
           n = Groups[roundPos] /\ s = roundSlate /\ b = roundNumber
  BY <1>1
<1> DEFINE r == [nom |-> n, number |-> b, slate |-> s]
<1>2. UNCHANGED <<block, broadcast>>
  BY DEF InsertDelayedTx, outsideRound, chainVars
<1>3. CASE delayed' = delayed
  BY <1>2, <1>3, PromiseFrame DEF Promise!promiseVars
<1>4. CASE delayed' = delayed \cup {r}
  <2>1. PendingOf(n) = {} /\ PendingOf(n)' = {r}
    BY <1>4 DEF SendInv, IndInv, RoundClear, InsertDelayedTx, PendingOf
  <2>2. \A m \in Nominators : m # n => PendingOf(m)' = PendingOf(m)
    BY <1>4 DEF PendingOf
  <2>3. ScheduledCall(n) = None /\ ScheduledCall(n)' = [slate |-> s, since |-> b]
    <3>1. (CHOOSE q \in {r} : TRUE) = r
      OBVIOUS
    <3>2. ScheduledCall(n)' = [slate |-> r.slate, since |-> r.number]
      BY <2>1, <3>1 DEF ScheduledCall
    <3> QED BY <2>1, <3>2 DEF ScheduledCall
  <2>4. \A m \in Nominators : m # n => ScheduledCall(m)' = ScheduledCall(m)
    BY <2>2 DEF ScheduledCall
  <2>5. r \notin broadcast
    BY DEF SendInv, NumberFresh, InsertDelayedTx
  <2>6. b \in 0 .. block
    BY <1>1 DEF SendInv, NumberFresh, InsertDelayedTx
  <2>7. {m \in Nominators : PendingOf(m) \cap broadcast # {}}'
          = {m \in Nominators : PendingOf(m) \cap broadcast # {}}
    BY <1>2, <2>1, <2>2, <2>5
  <2>8. [m \in Nominators |-> ScheduledCall(m)]'
          = [[m \in Nominators |-> ScheduledCall(m)]
               EXCEPT ![n] = [slate |-> s, since |-> b]]
    BY <2>3, <2>4
  <2>9. Promise!Schedule(n, s, b)
    BY <2>6, <1>2, <2>3, <2>7, <2>8 DEF Promise!Schedule
  <2> QED BY <2>9, <2>6 DEF Promise!Next
<1> QED BY <1>3, <1>4 DEF InsertDelayedTx

\* The broadcast of the execution job sends what is scheduled, after the delay.
LEMMA BroadcastSends ==
  ASSUME SendInv, SendExecution
  PROVE  [Promise!Next]_(Promise!promiseVars)
<1>1. /\ execCur \in delayed /\ execCur \in Record
      /\ execCur.nom \in Nominators /\ execCur.number \in Nat /\ execCur.slate \in Slates
      /\ block \in Nat /\ execLatest \in Nat /\ Delay \in Nat
  BY ConstantsAssumption DEF SendExecution, SendInv, IndInv, SnapshotCurrent, TypeOK,
       ExecTypeOK, ChainTypeOK, InHand, Record
<1>2. execCur.number + Delay <= block
  BY <1>1 DEF SendExecution, SendInv, ClockBehind, Due
<1>3. UNCHANGED <<block, delayed>>
  BY DEF SendExecution, outsideExec, chainVars
<1>4. CASE UNCHANGED broadcast
  BY <1>3, <1>4, PromiseFrame DEF Promise!promiseVars
<1>5. CASE broadcast' = broadcast \cup {execCur}
  <2> DEFINE n == execCur.nom
  <2>1. PendingOf(n) = {execCur}
    BY <1>1, PendingIsSingleton DEF SendInv, PendingOf
  <2>2. ScheduledCall(n) = [slate |-> execCur.slate, since |-> execCur.number]
    BY <2>1, ScheduledIsRow
  <2>3. \A m \in Nominators : m # n => execCur \notin PendingOf(m)
    BY DEF PendingOf
  <2>4. \A m : PendingOf(m)' = PendingOf(m) /\ ScheduledCall(m)' = ScheduledCall(m)
    BY <1>3 DEF PendingOf, ScheduledCall
  <2>5. {m \in Nominators : PendingOf(m) \cap broadcast # {}}'
          = {m \in Nominators : PendingOf(m) \cap broadcast # {}} \cup {n}
    BY <1>1, <1>5, <2>1, <2>3, <2>4
  <2>6. ScheduledCall(n) # None
    BY <1>1, <2>2, ConstantsAssumption
  <2>7. Promise!Send(n)
    BY <1>1, <1>2, <1>3, <2>2, <2>4, <2>5, <2>6 DEF Promise!Send
  <2> QED BY <1>1, <2>7 DEF Promise!Next
<1> QED BY <1>4, <1>5 DEF SendExecution

\* The delete after a broadcast settles.
LEMMA DeleteSettles ==
  ASSUME SendInv, DeleteDelayedTx
  PROVE  [Promise!Next]_(Promise!promiseVars)
<1>1. execCur \in delayed /\ execCur.nom \in Nominators /\ execCur \in broadcast
  BY DEF DeleteDelayedTx, SendInv, SentBroadcast, IndInv, SnapshotCurrent, TypeOK,
         ExecTypeOK, InHand, Record
\* fixed values, for what is said of them in the next state
<1>2. PICK r \in delayed, n \in Nominators : r = execCur /\ n = r.nom /\ r \in broadcast
  BY <1>1
<1>3. UNCHANGED <<block, broadcast>>
  BY DEF DeleteDelayedTx, outsideExec, chainVars
<1>4. CASE UNCHANGED delayed
  BY <1>3, <1>4, PromiseFrame DEF Promise!promiseVars
<1>5. CASE delayed' = {q \in delayed : ~(q.nom = execCur.nom /\ q.number = execCur.number)}
  <2>1. PendingOf(n) = {r}
    BY <1>2, PendingIsSingleton DEF SendInv, PendingOf
  <2>2. PendingOf(n)' = {}
    BY <1>2, <1>5, <2>1 DEF PendingOf
  <2>3. \A m : m # n => PendingOf(m)' = PendingOf(m)
    BY <1>2, <1>5 DEF PendingOf
  <2>4. ScheduledCall(n)' = None /\ \A m : m # n => ScheduledCall(m)' = ScheduledCall(m)
    BY <2>2, <2>3 DEF ScheduledCall
  <2>5. n \in {m \in Nominators : PendingOf(m) \cap broadcast # {}}
    BY <1>2, <2>1
  <2>6. {m \in Nominators : PendingOf(m) \cap broadcast # {}}'
          = {m \in Nominators : PendingOf(m) \cap broadcast # {}} \ {n}
    BY <1>3, <2>2, <2>3
  <2>7. [m \in Nominators |-> ScheduledCall(m)]'
          = [[m \in Nominators |-> ScheduledCall(m)] EXCEPT ![n] = None]
    BY <1>2, <2>4
  <2>8. Promise!Settle(n)
    BY <1>3, <2>5, <2>6, <2>7 DEF Promise!Settle
  <2> QED BY <1>2, <2>8 DEF Promise!Next
<1> QED BY <1>4, <1>5 DEF DeleteDelayedTx

\* Every step is a step of the promise, or changes nothing it speaks of.
LEMMA PromiseNext == SendInv /\ [Next]_vars => [Promise!Next]_(Promise!promiseVars)
<1> SUFFICES ASSUME SendInv, [Next]_vars PROVE [Promise!Next]_(Promise!promiseVars)
  OBVIOUS
<1>1. CASE NewBlock
  <2>1. UNCHANGED <<delayed, broadcast>>
    BY <1>1 DEF NewBlock, dbVars
  <2> QED BY <1>1, <2>1, PromiseFrame DEF NewBlock, Promise!Next, Promise!Tick
<1>2. CASE ~NewBlock /\ ~InsertDelayedTx /\ ~SendExecution /\ ~DeleteDelayedTx
  <2>1. UNCHANGED <<block, delayed, broadcast>>
    BY <1>2 DEF Next, vars, chainVars, dbVars, ChangeCommission, IncludeTx, IncludeAnnounce,
         IncludeExecute, IncludeRemove, LoseTx, Begin, BeginFails, Crash,
         Round, outsideRound, StartRound, SkipRound, CheckDelayed, CheckEra, ReadNumber, AnnounceTx,
         FinishRound, Execution, outsideExec, StartExecution, ReadDelayed, CheckCommission,
         CancelAnnounced, SetNomination, FinishExecution, Cancel, outsideCancel,
         StartCancel, ReadAnnouncements, CancelOne, NextCancelGroup, FinishCancel
  <2> QED BY <2>1, PromiseFrame DEF Promise!promiseVars
<1> QED BY <1>1, <1>2, InsertSchedules, BroadcastSends, DeleteSettles

\* For any nominators, delay, faults and interleaving of the round with the two jobs, the
\* program keeps the promise: nothing scheduled is dropped unsent, and nothing is sent
\* before its delay or scheduled twice.
THEOREM KeepsPromise == Spec => ImplementsPromise
BY PromiseInit, PromiseNext, SendInvariant, PTL DEF Spec, ImplementsPromise, Promise!Spec
=============================================================================
