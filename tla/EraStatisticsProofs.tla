-------------------------- MODULE EraStatisticsProofs --------------------------
(***************************************************************************)
(* Proofs about EraStatistics, for any chain, any number of candidates and *)
(* eras and any number of failures and crashes.                            *)
(***************************************************************************)
EXTENDS EraStatistics, TLAPS, SequenceTheorems, FiniteSetTheorems

\* The variables of the era points job.
PointsTyped ==
  /\ pc \in {"idle", "era", "endless", "rows"} /\ start \in Eras /\ era \in start - MaxEras - 1 .. start
  /\ data \in Seq(Validators) /\ unsaved \in Seq(Validators)
  /\ pc # "rows" => data = <<>> /\ unsaved = <<>>

\* The variables of the inclusion job.
InclusionTyped ==
  /\ running \in BOOLEAN /\ since \in Eras /\ todo \in Seq(Cands)
  /\ ~running => todo = <<>>

ChainTyped == active \in Eras /\ layout \in Layouts

StoredTyped ==
  /\ rows \subseteq Eras \X Validators /\ lost \subseteq Eras \X Validators
  /\ DOMAIN totals \subseteq Eras
  /\ counted \in [Cands -> 0 .. MaxEra + 1]

FaultsTyped == faults \in 0 .. MaxFaults

\* While it stores an era, the job has its final points in hand, and a row that is neither
\* stored nor lost is still to be written.
InHandInv ==
  /\ pc \in {"rows", "endless"} => InReach
  /\ pc = "rows" =>
       /\ era \in Eras /\ data = Earned[era]
       /\ \A v \in Range(data) : <<era, v>> \in rows \cup lost \/ v \in Range(unsaved)

\* The inductive invariant.
Typed  == ChainTyped /\ StoredTyped /\ PointsTyped /\ InclusionTyped /\ FaultsTyped
IndInv == Typed /\ InHandInv /\ TotalMeansRows
-----------------------------------------------------------------------------
(* Numbers, sequences and functions.                                       *)

LEMMA ErasAreNumbers ==
  /\ MaxEra \in Nat /\ MaxEras \in Nat /\ MaxFaults \in Nat /\ FirstActive \in Eras /\ 0 \in Eras
  /\ Eras \subseteq Int /\ \A e \in Int : e \in Eras <=> 0 <= e /\ e <= MaxEra
BY EraAssumption DEF Eras

LEMMA HeadTail ==
  ASSUME NEW S, NEW s \in Seq(S), s # <<>>
  PROVE  /\ Head(s) \in S /\ Tail(s) \in Seq(S)
         /\ \A v \in Range(s) : v = Head(s) \/ v \in Range(Tail(s))
<1>1. /\ Len(s) \in Nat /\ DOMAIN s = 1 .. Len(s) /\ Head(s) \in S /\ Tail(s) \in Seq(S)
      /\ Head(s) = s[1] /\ Len(Tail(s)) = Len(s) - 1 /\ DOMAIN Tail(s) = 1 .. Len(s) - 1
      /\ \A k \in 1 .. Len(s) - 1 : Tail(s)[k] = s[k + 1]
  BY HeadTailProperties, LenProperties
<1>2. ASSUME NEW v \in Range(s), v # Head(s)
      PROVE  v \in Range(Tail(s))
  <2>1. PICK k \in 1 .. Len(s) : v = s[k]
    BY <1>1 DEF Range
  <2>2. k - 1 \in 1 .. Len(s) - 1 /\ (k - 1) + 1 = k
    BY <1>1, <1>2, <2>1
  <2>3. Tail(s)[k - 1] = v
    BY <1>1, <2>1, <2>2
  <2> QED BY <1>1, <2>2, <2>3 DEF Range
<1> QED BY <1>1, <1>2

\* A run counts no more eras than there are.
LEMMA CountedInReach ==
  ASSUME NEW S \in SUBSET Eras
  PROVE  Cardinality(S) \in 0 .. MaxEra + 1
<1>1. MaxEra \in Nat /\ 0 \in Int /\ MaxEra \in Int
  BY ErasAreNumbers
<1>2. IsFiniteSet(0 .. MaxEra) /\ Cardinality(0 .. MaxEra) = MaxEra + 1
  BY <1>1, FS_Interval
<1>3. IsFiniteSet(Eras) /\ Cardinality(Eras) = MaxEra + 1
  BY <1>2 DEF Eras
<1>4. IsFiniteSet(S) /\ Cardinality(S) <= MaxEra + 1 /\ Cardinality(S) \in Nat
  BY <1>3, FS_Subset, FS_CardinalityType
<1> QED BY <1>1, <1>4

LEMMA SetTotal ==
  ASSUME NEW vs
  PROVE  /\ DOMAIN WithTotal(vs) = DOMAIN totals \cup {era} /\ WithTotal(vs)[era] = vs
         /\ \A e \in DOMAIN totals \ {era} : WithTotal(vs)[e] = totals[e]
BY DEF WithTotal

\* A block of the era after gives the points an era ended with.
LEMMA FinalPoints ==
  ASSUME era \in Eras
  PROVE  PointsAt(AskedAt) = {Earned[era]} /\ Earned[era] \in Seq(Validators)
<1>1. era \in Int /\ era + 1 > era
  BY ErasAreNumbers
<1>2. Earned[era] \in Seq(Validators)
  BY EraAssumption
<1> QED BY <1>1, <1>2 DEF PointsAt, AskedAt

LEMMA NoneInHand ==
  /\ <<>> \in Seq(Validators) /\ <<>> \in Seq(Cands)
  /\ Range(<<>>) = {} /\ DOMAIN <<>> = {}
<1>1. <<>> \in Seq(Validators) /\ <<>> \in Seq(Cands) /\ Len(<<>>) = 0
  BY EmptySeq
<1>2. DOMAIN <<>> = {}
  BY <1>1, LenProperties
<1> QED BY <1>1, <1>2 DEF Range
-----------------------------------------------------------------------------
(* The steps of the era points job.                                        *)

\* The bounds between which an era may be.
LEMMA PointsNumbers ==
  ASSUME PointsTyped
  PROVE  /\ start \in Int /\ 0 <= start /\ start <= MaxEra /\ era \in Int
         /\ start - MaxEras - 1 <= era /\ era <= start
<1>1. start \in Int /\ 0 <= start /\ start <= MaxEra /\ MaxEras \in Nat
  BY ErasAreNumbers DEF PointsTyped
<1>2. era \in start - MaxEras - 1 .. start
  BY DEF PointsTyped
<1> QED BY <1>1, <1>2

\* On to the era before, which is out of reach at most by one.
LEMMA NextEraTyped ==
  ASSUME PointsTyped, pc \in {"era", "endless", "rows"}, InReach, NextEra, UNCHANGED start
  PROVE  PointsTyped' /\ pc' = "era"
<1>1. era' = era - 1 /\ pc' = "era" /\ data' = <<>> /\ unsaved' = <<>>
  BY DEF NextEra, Goto
<1>2. era >= start - MaxEras
  BY DEF InReach
<1>3. start \in Int /\ MaxEras \in Nat
  BY PointsNumbers, ErasAreNumbers
<1>4. era' \in start' - MaxEras - 1 .. start'
  BY <1>1, <1>2, <1>3, PointsNumbers
<1> QED BY <1>1, <1>4, NoneInHand DEF PointsTyped

LEMMA PointsOutside ==
  ASSUME ChainTyped, InclusionTyped, UNCHANGED outsidePoints
  PROVE  ChainTyped' /\ InclusionTyped' /\ UNCHANGED counted
BY DEF outsidePoints, chain, inclusionJob, ChainTyped, InclusionTyped

LEMMA FaultsStay ==
  ASSUME FaultsTyped, NoFault \/ Fault
  PROVE  FaultsTyped'
<1>1. faults \in 0 .. MaxFaults /\ MaxFaults \in Nat
  BY ErasAreNumbers DEF FaultsTyped
<1>2. faults' = faults \/ (faults < MaxFaults /\ faults' = faults + 1)
  BY DEF NoFault, Fault
<1> QED BY <1>1, <1>2 DEF FaultsTyped

LEMMA StartStep ==
  ASSUME IndInv, StartPoints
  PROVE  IndInv'
<1>1. /\ pc = "idle" /\ pc' = "era" /\ start' = active /\ era' = start' - 1
      /\ UNCHANGED <<rows, totals, data, unsaved, lost, faults>>
  BY DEF StartPoints, Goto
<1>2. active \in Int /\ 0 <= active /\ active \in Eras /\ MaxEras \in Nat
  BY ErasAreNumbers DEF IndInv, Typed, ChainTyped
<1>3. era' \in start' - MaxEras - 1 .. start'
  BY <1>1, <1>2
<1>4. PointsTyped'
  BY <1>1, <1>2, <1>3 DEF IndInv, Typed, PointsTyped
<1>5. Typed'
  BY <1>1, <1>4, PointsOutside DEF StartPoints, IndInv, Typed, StoredTyped, FaultsTyped
<1>6. InHandInv' /\ TotalMeansRows'
  BY <1>1 DEF InHandInv, IndInv, TotalMeansRows
<1> QED BY <1>5, <1>6 DEF IndInv

LEMMA PassStep ==
  ASSUME IndInv, PassEra
  PROVE  IndInv'
<1>1. /\ pc = "era" /\ pc' = "era" /\ era' = era - 1 /\ InReach
      /\ UNCHANGED <<rows, totals, start, data, unsaved, lost, faults>>
  BY DEF PassEra
<1>2. era' \in start' - MaxEras - 1 .. start'
  BY <1>1, PointsNumbers, ErasAreNumbers DEF InReach, IndInv, Typed
<1>3. PointsTyped'
  BY <1>1, <1>2 DEF IndInv, Typed, PointsTyped
<1>4. Typed'
  BY <1>1, <1>3, PointsOutside DEF PassEra, IndInv, Typed, StoredTyped, FaultsTyped
<1>5. InHandInv' /\ TotalMeansRows'
  BY <1>1 DEF InHandInv, IndInv, TotalMeansRows
<1> QED BY <1>4, <1>5 DEF IndInv

LEMMA AskStep ==
  ASSUME IndInv, AskEra
  PROVE  IndInv'
<1>1. /\ pc = "era" /\ InReach /\ UNCHANGED <<rows, totals, start, lost>>
      /\ NoFault \/ Fault
  BY DEF AskEra
<1>2. \/ /\ era >= 0 /\ data' \in PointsAt(AskedAt) /\ unsaved' = data' /\ pc' = "rows"
         /\ UNCHANGED era
      \/ pc' = "endless" /\ UNCHANGED <<era, data, unsaved>>
      \/ NextEra
  BY DEF AskEra, Goto
<1>3. TotalMeansRows'
  BY <1>1 DEF IndInv, TotalMeansRows
<1>4. ASSUME PointsTyped', InHandInv'
      PROVE  IndInv'
  BY <1>1, <1>3, <1>4, PointsOutside, FaultsStay DEF AskEra, IndInv, Typed, StoredTyped
<1>5. CASE NextEra
  BY <1>1, <1>4, <1>5, NextEraTyped DEF IndInv, Typed, InHandInv
<1>6. CASE era >= 0 /\ data' \in PointsAt(AskedAt) /\ unsaved' = data' /\ pc' = "rows" /\ UNCHANGED era
  <2>1. era \in Eras
    BY <1>6, PointsNumbers, ErasAreNumbers DEF IndInv, Typed
  <2>2. data' = Earned[era] /\ data' \in Seq(Validators)
    BY <1>6, <2>1, FinalPoints
  <2>3. PointsTyped'
    BY <1>1, <1>6, <2>2 DEF IndInv, Typed, PointsTyped
  <2>4. InHandInv'
    BY <1>1, <1>6, <2>1, <2>2 DEF InHandInv, InReach
  <2> QED BY <1>4, <2>3, <2>4
<1>7. CASE pc' = "endless" /\ UNCHANGED <<era, data, unsaved>>
  <2>1. PointsTyped' /\ InHandInv'
    BY <1>1, <1>7 DEF IndInv, Typed, PointsTyped, InHandInv, InReach
  <2> QED BY <1>4, <2>1
<1> QED BY <1>2, <1>5, <1>6, <1>7

LEMMA SearchStep ==
  ASSUME IndInv, SearchFails
  PROVE  IndInv'
<1>1. pc = "endless" /\ Fault /\ NextEra /\ UNCHANGED <<rows, totals, start, lost>> /\ InReach
  BY DEF SearchFails, IndInv, InHandInv
<1>2. PointsTyped' /\ pc' = "era"
  BY <1>1, NextEraTyped DEF IndInv, Typed
<1>3. Typed'
  BY <1>1, <1>2, PointsOutside, FaultsStay DEF SearchFails, IndInv, Typed, StoredTyped
<1>4. InHandInv' /\ TotalMeansRows'
  BY <1>1, <1>2 DEF InHandInv, IndInv, TotalMeansRows
<1> QED BY <1>3, <1>4 DEF IndInv

LEMMA RowStep ==
  ASSUME IndInv, SaveRow
  PROVE  IndInv'
<1>1. /\ pc = "rows" /\ pc' = "rows" /\ unsaved # <<>> /\ unsaved' = Tail(unsaved)
      /\ UNCHANGED <<totals, start, era, data>>
      /\ NoFault \/ Fault
  BY DEF SaveRow
<1>2. \/ rows' = rows \cup {<<era, Head(unsaved)>>} /\ UNCHANGED lost
      \/ lost' = lost \cup {<<era, Head(unsaved)>>} /\ UNCHANGED rows
  BY DEF SaveRow
<1>3. /\ unsaved \in Seq(Validators) /\ Head(unsaved) \in Validators
      /\ Tail(unsaved) \in Seq(Validators)
      /\ \A v \in Range(unsaved) : v = Head(unsaved) \/ v \in Range(Tail(unsaved))
  <2>1. unsaved \in Seq(Validators)
    BY DEF IndInv, Typed, PointsTyped
  <2> QED BY <1>1, <2>1, HeadTail
<1>4. era \in Eras /\ InReach /\ data = Earned[era]
  BY <1>1 DEF IndInv, InHandInv
<1>5. PointsTyped'
  BY <1>1, <1>3 DEF IndInv, Typed, PointsTyped
<1>6. StoredTyped'
  <2>1. <<era, Head(unsaved)>> \in Eras \X Validators
    BY <1>3, <1>4
  <2> QED BY <1>1, <1>2, <2>1, PointsOutside DEF SaveRow, IndInv, Typed, StoredTyped
<1>7. Typed'
  BY <1>1, <1>5, <1>6, PointsOutside, FaultsStay DEF SaveRow, IndInv, Typed
<1>8. (rows \cup lost) \cup {<<era, Head(unsaved)>>} = (rows \cup lost)'
  BY <1>2
<1>9. InHandInv'
  <2>1. ASSUME NEW v \in Range(data), v \notin Range(unsaved')
        PROVE  <<era, v>> \in (rows \cup lost)'
    <3>1. <<era, v>> \in rows \cup lost \/ v \in Range(unsaved)
      BY <1>1, <2>1 DEF IndInv, InHandInv
    <3> QED BY <1>1, <1>3, <1>8, <2>1, <3>1
  <2> QED BY <1>1, <1>4, <2>1 DEF InHandInv, InReach
<1>10. TotalMeansRows'
  BY <1>1, <1>8 DEF IndInv, TotalMeansRows
<1> QED BY <1>7, <1>9, <1>10 DEF IndInv

LEMMA TotalStep ==
  ASSUME IndInv, SaveTotal
  PROVE  IndInv'
<1>1. /\ pc = "rows" /\ unsaved = <<>> /\ NextEra /\ UNCHANGED <<rows, start, lost>>
      /\ NoFault \/ Fault
      /\ totals' = WithTotal(Range(data)) \/ totals' = totals
  BY DEF SaveTotal
<1>2. /\ era \in Eras /\ InReach /\ data = Earned[era]
      /\ \A v \in Range(data) : <<era, v>> \in rows \cup lost
  BY <1>1, NoneInHand DEF IndInv, InHandInv
<1>3. PointsTyped' /\ pc' = "era"
  BY <1>1, <1>2, NextEraTyped DEF IndInv, Typed
<1>4. CASE totals' = totals
  <2>1. Typed'
    BY <1>1, <1>3, <1>4, PointsOutside, FaultsStay DEF SaveTotal, IndInv, Typed, StoredTyped
  <2>2. InHandInv' /\ TotalMeansRows'
    BY <1>1, <1>3, <1>4 DEF IndInv, InHandInv, TotalMeansRows
  <2> QED BY <2>1, <2>2 DEF IndInv
<1>5. CASE totals' = WithTotal(Range(data))
  <2>1. /\ DOMAIN totals' = DOMAIN totals \cup {era} /\ totals'[era] = Range(Earned[era])
        /\ \A e \in DOMAIN totals \ {era} : totals'[e] = totals[e]
    BY <1>2, <1>5, SetTotal
  <2>2. Typed'
    BY <1>1, <1>2, <1>3, <2>1, PointsOutside, FaultsStay DEF SaveTotal, IndInv, Typed, StoredTyped
  <2>3. TotalMeansRows'
    <3>1. ASSUME NEW e \in DOMAIN totals'
          PROVE  totals'[e] = Range(Earned[e]) /\ \A v \in totals'[e] : <<e, v>> \in rows \cup lost
      <4>1. CASE e = era
        BY <1>2, <2>1, <4>1
      <4>2. CASE e # era
        BY <2>1, <3>1, <4>2 DEF IndInv, TotalMeansRows
      <4> QED BY <4>1, <4>2
    <3> QED BY <1>1, <3>1 DEF TotalMeansRows
  <2>4. InHandInv'
    BY <1>3 DEF InHandInv
  <2> QED BY <2>2, <2>3, <2>4 DEF IndInv
<1> QED BY <1>1, <1>4, <1>5

LEMMA FinishStep ==
  ASSUME IndInv, FinishPoints
  PROVE  IndInv'
<1>1. /\ pc = "era" /\ pc' = "idle" /\ start' = 0 /\ era' = 0
      /\ UNCHANGED <<rows, totals, data, unsaved, lost, faults>>
  BY DEF FinishPoints, Goto
<1>2. 0 \in Eras /\ MaxEras \in Nat
  BY ErasAreNumbers
<1>3. era' \in start' - MaxEras - 1 .. start'
  BY <1>1, <1>2
<1>4. PointsTyped'
  BY <1>1, <1>2, <1>3 DEF IndInv, Typed, PointsTyped
<1>5. Typed'
  BY <1>1, <1>4, PointsOutside DEF FinishPoints, IndInv, Typed, StoredTyped, FaultsTyped
<1>6. InHandInv' /\ TotalMeansRows'
  BY <1>1 DEF InHandInv, IndInv, TotalMeansRows
<1> QED BY <1>5, <1>6 DEF IndInv
-----------------------------------------------------------------------------
(* The steps beside it.                                                    *)

LEMMA PointsStay ==
  ASSUME PointsTyped, InHandInv, TotalMeansRows, UNCHANGED <<rows, totals, pointsJob, lost>>
  PROVE  PointsTyped' /\ InHandInv' /\ TotalMeansRows'
BY DEF pointsJob, PointsTyped, InHandInv, InReach, TotalMeansRows

LEMMA InclusionStep ==
  ASSUME IndInv, InclusionJob
  PROVE  IndInv'
<1>1. UNCHANGED outsideInclusion
  BY DEF InclusionJob, StartInclusion, Include, FinishInclusion
<1>2. ChainTyped' /\ PointsTyped' /\ InHandInv' /\ TotalMeansRows'
  BY <1>1, PointsStay DEF outsideInclusion, chain, IndInv, Typed, ChainTyped
<1>3. ASSUME InclusionTyped', counted' \in [Cands -> 0 .. MaxEra + 1], FaultsTyped'
      PROVE  IndInv'
  BY <1>1, <1>2, <1>3 DEF outsideInclusion, IndInv, Typed, StoredTyped
<1>4. CASE StartInclusion
  <2>1. Candidates \in Seq(Cands)
    BY EraAssumption
  <2>2. InclusionTyped'
    BY <1>4, <2>1 DEF StartInclusion, IndInv, Typed, ChainTyped, InclusionTyped
  <2> QED BY <1>3, <1>4, <2>2 DEF StartInclusion, IndInv, Typed, StoredTyped, FaultsTyped
<1>5. CASE Include
  <2>1. todo \in Seq(Cands) /\ todo # <<>>
    BY <1>5 DEF Include, IndInv, Typed, InclusionTyped
  <2>2. Head(todo) \in Cands /\ Tail(todo) \in Seq(Cands)
    BY <2>1, HeadTail
  <2>3. InclusionTyped'
    BY <1>5, <2>1, <2>2, NoneInHand DEF Include, IndInv, Typed, InclusionTyped
  <2>4. counted' \in [Cands -> 0 .. MaxEra + 1]
    <3> DEFINE n == Cardinality({e \in Eras : InHistory(e) /\ <<e, Head(todo)>> \in rows})
    <3>1. n \in 0 .. MaxEra + 1
      BY CountedInReach
    <3>2. counted' = [counted EXCEPT ![Head(todo)] = n] \/ counted' = counted
      BY <1>5 DEF Include
    <3> HIDE DEF n
    <3> QED BY <3>1, <3>2 DEF IndInv, Typed, StoredTyped
  <2>5. NoFault \/ Fault
    BY <1>5 DEF Include
  <2> QED BY <1>3, <2>3, <2>4, <2>5, FaultsStay DEF IndInv, Typed
<1>6. CASE FinishInclusion
  <2>1. InclusionTyped'
    BY <1>6, ErasAreNumbers DEF FinishInclusion, IndInv, Typed, InclusionTyped
  <2> QED BY <1>3, <1>6, <2>1 DEF FinishInclusion, IndInv, Typed, StoredTyped, FaultsTyped
<1> QED BY <1>4, <1>5, <1>6 DEF InclusionJob

LEMMA NewEraStep ==
  ASSUME IndInv, NewEra
  PROVE  IndInv'
<1>1. active' \in Eras
  BY ErasAreNumbers DEF NewEra, IndInv, Typed, ChainTyped
<1>2. UNCHANGED <<layout, rows, totals, counted, pointsJob, running, since, todo, lost, faults>>
  BY DEF NewEra, stored, inclusionJob
<1>3. PointsTyped' /\ InHandInv' /\ TotalMeansRows'
  BY <1>2, PointsStay DEF IndInv, Typed
<1> QED BY <1>1, <1>2, <1>3 DEF IndInv, Typed, ChainTyped, StoredTyped, InclusionTyped, FaultsTyped

LEMMA CrashStep ==
  ASSUME IndInv, Crash
  PROVE  IndInv'
<1>1. /\ pc' = "idle" /\ start' = 0 /\ era' = 0 /\ data' = <<>> /\ unsaved' = <<>>
      /\ running' = FALSE /\ since' = 0 /\ todo' = <<>>
      /\ UNCHANGED <<active, layout, rows, totals, counted, lost>> /\ Fault
  BY DEF Crash, chain, stored
<1>2. 0 \in Eras /\ MaxEras \in Nat
  BY ErasAreNumbers
<1>3. era' \in start' - MaxEras - 1 .. start'
  BY <1>1, <1>2
<1>4. PointsTyped' /\ InclusionTyped'
  BY <1>1, <1>2, <1>3, NoneInHand DEF PointsTyped, InclusionTyped
<1>5. Typed'
  BY <1>1, <1>4, FaultsStay DEF IndInv, Typed, ChainTyped, StoredTyped
<1>6. InHandInv' /\ TotalMeansRows'
  BY <1>1 DEF InHandInv, IndInv, TotalMeansRows
<1> QED BY <1>5, <1>6 DEF IndInv

LEMMA NoStep ==
  ASSUME IndInv, UNCHANGED vars
  PROVE  IndInv'
<1>1. /\ UNCHANGED <<active, layout, rows, totals, counted, pointsJob, running, since, todo>>
      /\ UNCHANGED <<lost, faults>>
  BY DEF vars, chain, stored, inclusionJob
<1>2. PointsTyped' /\ InHandInv' /\ TotalMeansRows'
  BY <1>1, PointsStay DEF IndInv, Typed
<1> QED BY <1>1, <1>2 DEF IndInv, Typed, ChainTyped, StoredTyped, InclusionTyped, FaultsTyped
-----------------------------------------------------------------------------
(* The theorems.                                                           *)

LEMMA InitInv == Init => IndInv
<1> SUFFICES ASSUME Init PROVE IndInv
  OBVIOUS
<1>1. 0 \in Eras /\ MaxEras \in Nat /\ MaxFaults \in Nat /\ FirstActive \in Eras /\ MaxEra \in Nat
  BY ErasAreNumbers
<1>2. era \in start - MaxEras - 1 .. start
  BY <1>1 DEF Init
<1>3. PointsTyped /\ InclusionTyped
  BY <1>1, <1>2, NoneInHand DEF Init, PointsTyped, InclusionTyped
<1>4. counted \in [Cands -> 0 .. MaxEra + 1]
  <2>1. 0 \in 0 .. MaxEra + 1
    BY <1>1
  <2> QED BY <2>1 DEF Init
<1>5. DOMAIN totals = {}
  BY NoneInHand DEF Init
<1>6. FaultsTyped /\ ChainTyped
  BY <1>1 DEF Init, FaultsTyped, ChainTyped
<1>7. Typed
  BY <1>3, <1>4, <1>5, <1>6 DEF Init, Typed, StoredTyped
<1>8. InHandInv /\ TotalMeansRows
  BY <1>5 DEF Init, InHandInv, TotalMeansRows
<1> QED BY <1>7, <1>8 DEF IndInv

LEMMA NextInv == IndInv /\ [Next]_vars => IndInv'
<1> SUFFICES ASSUME IndInv, [Next]_vars PROVE IndInv'
  OBVIOUS
<1>1. CASE PointsJob
  BY <1>1, StartStep, PassStep, AskStep, SearchStep, RowStep, TotalStep, FinishStep DEF PointsJob
<1>2. CASE InclusionJob \/ NewEra \/ Crash
  BY <1>2, InclusionStep, NewEraStep, CrashStep
<1>3. CASE UNCHANGED vars
  BY <1>3, NoStep
<1> QED BY <1>1, <1>2, <1>3 DEF Next

\* Every variable keeps to its kind, however the eras go and whatever fails: the job never goes
\* further back than one era past its reach, and a count of eras is never more than there are.
THEOREM EraStatisticsTyped == Spec => []TypeOK
<1>1. IndInv => TypeOK
  BY DEF IndInv, Typed, ChainTyped, StoredTyped, PointsTyped, InclusionTyped, FaultsTyped, TypeOK
<1> QED BY <1>1, InitInv, NextInv, PTL DEF Spec

\* An era whose total is there, to which nobody comes back, has its final points and the row of
\* every validator but those that could not be written: for any chain and any candidates,
\* however often the job died or a query failed.
THEOREM TotalComesLast == Spec => []TotalMeansRows
<1>1. IndInv => TotalMeansRows
  BY DEF IndInv
<1> QED BY <1>1, InitInv, NextInv, PTL DEF Spec
-----------------------------------------------------------------------------
(* The job implements the ledger.                                          *)

\* The job is back in eras that are over, and writes no row of a validator without points.
LedgerInv ==
  /\ start <= active /\ (pc # "idle" => era < start)
  /\ pc = "rows" => Range(unsaved) \subseteq Range(Earned[era])
  /\ \A e \in Eras : \A v \in Validators : <<e, v>> \in rows \cup lost => v \in Range(Earned[e])

\* What is written down of an era.
Written == [e \in Eras |-> {v \in Validators : <<e, v>> \in rows \cup lost}]

LEMMA EarnedByValidators ==
  ASSUME NEW e \in Eras
  PROVE  Range(Earned[e]) \subseteq Validators
BY DEF Validators

LEMMA RangeOfHeadTail ==
  ASSUME NEW S, NEW s \in Seq(S), s # <<>>
  PROVE  Head(s) \in Range(s) /\ Range(Tail(s)) \subseteq Range(s)
<1>1. /\ Len(s) \in Nat /\ DOMAIN s = 1 .. Len(s) /\ Len(s) >= 1
      /\ Head(s) = s[1] /\ DOMAIN Tail(s) = 1 .. Len(s) - 1
      /\ \A k \in 1 .. Len(s) - 1 : Tail(s)[k] = s[k + 1]
  BY HeadTailProperties, LenProperties, EmptySeq
<1>2. Head(s) \in Range(s)
  BY <1>1 DEF Range
<1>3. \A k \in 1 .. Len(s) - 1 : k + 1 \in 1 .. Len(s)
  BY <1>1
<1> QED BY <1>1, <1>2, <1>3 DEF Range

LEMMA LedgerInvInit == Init => LedgerInv
<1> SUFFICES ASSUME Init PROVE LedgerInv
  OBVIOUS
<1>1. 0 <= active
  BY ErasAreNumbers DEF Init
<1> QED BY <1>1 DEF Init, LedgerInv

\* Numbers of the steps that follow.
LEMMA LedgerNumbers ==
  ASSUME IndInv
  PROVE  start \in Int /\ era \in Int /\ active \in Int /\ 0 <= active
BY PointsNumbers, ErasAreNumbers DEF IndInv, Typed, ChainTyped

LEMMA LedgerInvNext == IndInv /\ LedgerInv /\ [Next]_vars => LedgerInv'
<1> SUFFICES ASSUME IndInv, LedgerInv, [Next]_vars PROVE LedgerInv'
  OBVIOUS
<1>1. start \in Int /\ era \in Int /\ active \in Int /\ 0 <= active
  BY LedgerNumbers
<1>2. CASE StartPoints
  <2>1. /\ pc' = "era" /\ start' = active /\ era' = active - 1 /\ active' = active
        /\ UNCHANGED <<rows, lost>>
    BY <1>2 DEF StartPoints, Goto, outsidePoints, chain
  <2> QED BY <1>1, <2>1 DEF LedgerInv
<1>3. ASSUME pc # "idle", era' = era - 1, pc' = "era", UNCHANGED <<active, start, rows, lost>>
      PROVE  LedgerInv'
  BY <1>1, <1>3 DEF LedgerInv
<1>4. CASE PassEra
  BY <1>3, <1>4 DEF PassEra, outsidePoints, chain
<1>5. CASE AskEra
  <2>1. pc = "era" /\ UNCHANGED <<active, start, rows, lost>>
    BY <1>5 DEF AskEra, outsidePoints, chain
  <2>2. CASE NextEra
    BY <1>3, <2>1, <2>2 DEF NextEra, Goto
  <2>3. CASE era >= 0 /\ data' \in PointsAt(AskedAt) /\ unsaved' = data' /\ UNCHANGED era
    <3>1. era \in Eras
      BY <2>3, PointsNumbers, ErasAreNumbers DEF IndInv, Typed
    <3>2. unsaved' = Earned[era]
      BY <2>3, <3>1, FinalPoints
    <3> QED BY <2>1, <2>3, <3>2 DEF LedgerInv
  <2>4. CASE pc' = "endless" /\ UNCHANGED <<era, unsaved>>
    BY <2>1, <2>4 DEF LedgerInv
  <2> QED BY <1>5, <2>2, <2>3, <2>4 DEF AskEra, Goto
<1>6. CASE SaveRow
  <2>1. /\ pc = "rows" /\ unsaved # <<>> /\ unsaved' = Tail(unsaved)
        /\ UNCHANGED <<active, pc, start, era>>
        /\ (rows \cup lost)' = (rows \cup lost) \cup {<<era, Head(unsaved)>>}
    BY <1>6 DEF SaveRow, outsidePoints, chain
  <2>2. Head(unsaved) \in Range(unsaved) /\ Range(unsaved') \subseteq Range(unsaved)
    BY <2>1, RangeOfHeadTail DEF IndInv, Typed, PointsTyped
  <2> QED BY <2>1, <2>2 DEF LedgerInv
<1>7. CASE SaveTotal \/ SearchFails
  BY <1>3, <1>7 DEF SaveTotal, SearchFails, NextEra, Goto, outsidePoints, chain
<1>8. CASE FinishPoints \/ Crash
  <2>1. pc' = "idle" /\ start' = 0 /\ UNCHANGED <<active, rows, lost>>
    BY <1>8 DEF FinishPoints, Crash, Goto, outsidePoints, chain, stored
  <2> QED BY <1>1, <2>1 DEF LedgerInv
<1>9. CASE NewEra
  <2>1. active' = active + 1 /\ UNCHANGED <<rows, pc, start, era, unsaved, lost>>
    BY <1>9 DEF NewEra, stored, pointsJob
  <2> QED BY <1>1, <2>1 DEF LedgerInv
<1>10. CASE InclusionJob \/ UNCHANGED vars
  <2>1. UNCHANGED <<active, rows, pc, start, era, unsaved, lost>>
    BY <1>10 DEF InclusionJob, StartInclusion, Include, FinishInclusion, outsideInclusion, vars,
         chain, stored, pointsJob
  <2> QED BY <2>1 DEF LedgerInv
<1> QED BY <1>2, <1>4, <1>5, <1>6, <1>7, <1>8, <1>9, <1>10 DEF Next, PointsJob

LEMMA LedgerInit == Init => Ledger!Init
<1> SUFFICES ASSUME Init PROVE Ledger!Init
  OBVIOUS
<1>1. active - 1 \in Nat
  <2>1. FirstActive \in Nat /\ FirstActive >= 1
    BY EraAssumption
  <2> QED BY <2>1 DEF Init
<1>2. DOMAIN totals = {} /\ Written = [e \in Eras |-> {}]
  BY NoneInHand DEF Init, Written
<1> QED BY <1>1, <1>2 DEF Ledger!Init, Ledger!Eras, Written

LEMMA LedgerStutters ==
  ASSUME UNCHANGED <<active, rows, totals, lost>>
  PROVE  UNCHANGED Ledger!ledgerVars
BY DEF Ledger!ledgerVars

\* A row of an era without a total is part of a draft; one of an era with a total was there.
LEMMA RowIsDraft ==
  ASSUME IndInv, LedgerInv, SaveRow
  PROVE  [Ledger!Next]_(Ledger!ledgerVars)
<1>1. /\ pc = "rows" /\ unsaved # <<>> /\ UNCHANGED <<active, totals>>
      /\ (rows \cup lost)' = (rows \cup lost) \cup {<<era, Head(unsaved)>>}
  BY DEF SaveRow, outsidePoints, chain
<1>2. era \in Eras /\ era < active /\ era \in Int /\ active \in Int
  BY <1>1, LedgerNumbers DEF IndInv, InHandInv, LedgerInv
<1>3. Head(unsaved) \in Range(Earned[era])
  BY <1>1, RangeOfHeadTail DEF IndInv, Typed, PointsTyped, LedgerInv
\* fixed values, for what is said of them in the next state
<1>4. PICK e \in Eras, w \in Validators : e = era /\ w = Head(unsaved) /\ w \in Range(Earned[e])
  BY <1>2, <1>3, EarnedByValidators
<1>5. Written' = [Written EXCEPT ![e] = Written[e] \cup {w}]
  BY <1>1, <1>4 DEF Written
<1>6. PICK v \in SUBSET Range(Earned[e]) : v = Written[e] \cup {w}
  BY <1>4 DEF Written, LedgerInv
<1>7. CASE e \in DOMAIN totals
  <2>1. <<e, w>> \in rows \cup lost
    BY <1>4, <1>7 DEF IndInv, TotalMeansRows
  <2>2. w \in Written[e]
    BY <2>1 DEF Written
  <2>3. Written' = Written
    BY <1>5, <2>2 DEF Written
  <2> QED BY <1>1, <2>3 DEF Ledger!ledgerVars, Written
<1>8. CASE e \notin DOMAIN totals
  <2>1. e <= active - 1 + 0
    BY <1>2, <1>4
  <2>2. Ledger!Draft(e, v)
    BY <1>1, <1>5, <1>6, <1>8, <2>1 DEF Ledger!Draft, Written
  <2> QED BY <2>2 DEF Ledger!Next, Ledger!Eras
<1> QED BY <1>7, <1>8

\* The total seals an era of which all is written.
LEMMA TotalSeals ==
  ASSUME IndInv, LedgerInv, SaveTotal
  PROVE  [Ledger!Next]_(Ledger!ledgerVars)
<1>1. /\ pc = "rows" /\ unsaved = <<>> /\ UNCHANGED <<active, rows, lost>>
      /\ totals' = WithTotal(Range(data)) \/ totals' = totals
  BY DEF SaveTotal, outsidePoints, chain
<1>2. era \in Eras /\ era < active /\ era \in Int /\ active \in Int /\ data = Earned[era]
  BY <1>1, LedgerNumbers DEF IndInv, InHandInv, LedgerInv
\* a fixed value, for what is said of it in the next state
<1>3. PICK e \in Eras : e = era
  BY <1>2
<1>4. Written[e] = Range(Earned[e])
  <2>1. \A v \in Range(Earned[e]) : <<e, v>> \in rows \cup lost
    BY <1>1, <1>2, <1>3, NoneInHand DEF IndInv, InHandInv
  <2> QED BY <2>1, EarnedByValidators DEF Written, LedgerInv
<1>5. CASE totals' = totals
  BY <1>1, <1>5, LedgerStutters
<1>6. CASE totals' = WithTotal(Range(data))
  <2>1. DOMAIN totals' = DOMAIN totals \cup {e}
    BY <1>3, <1>6, SetTotal
  <2>2. Written' = [Written EXCEPT ![e] = Range(Earned[e])]
    BY <1>1, <1>4 DEF Written
  <2>3. e <= active - 1
    BY <1>2, <1>3
  <2>4. Ledger!Seal(e)
    BY <1>1, <2>1, <2>2, <2>3 DEF Ledger!Seal, Written
  <2> QED BY <2>4 DEF Ledger!Next, Ledger!Eras
<1> QED BY <1>1, <1>5, <1>6

LEMMA LedgerNext ==
  IndInv /\ LedgerInv /\ [Next]_vars => [Ledger!Next]_(Ledger!ledgerVars)
<1> SUFFICES ASSUME IndInv, LedgerInv, [Next]_vars PROVE [Ledger!Next]_(Ledger!ledgerVars)
  OBVIOUS
<1>1. CASE NewEra
  <2>1. active \in Int /\ active' = active + 1 /\ UNCHANGED <<rows, totals, lost>>
    BY <1>1, LedgerNumbers DEF NewEra, stored
  <2>2. active' - 1 \in Nat /\ active' - 1 > active - 1
    BY <2>1, LedgerNumbers
  <2>3. Ledger!Tick
    BY <2>1, <2>2 DEF Ledger!Tick
  <2> QED BY <2>3 DEF Ledger!Next
<1>2. CASE \/ StartPoints \/ PassEra \/ AskEra \/ SearchFails \/ FinishPoints \/ InclusionJob
           \/ Crash \/ UNCHANGED vars
  <2>1. UNCHANGED <<active, rows, totals, lost>>
    BY <1>2 DEF StartPoints, PassEra, AskEra, SearchFails, FinishPoints, Crash, InclusionJob, StartInclusion,
         Include, FinishInclusion, outsidePoints, outsideInclusion, vars, chain, stored
  <2> QED BY <2>1, LedgerStutters
<1> QED BY <1>1, <1>2, RowIsDraft, TotalSeals DEF Next, PointsJob

\* For any chain and validators, the era points job, with its failures and crashes, implements
\* the ledger: what it writes is of eras that are over and of validators with points, and an
\* era it has sealed with a total is complete and is never touched again.
THEOREM KeepsLedger == Spec => ImplementsLedger
BY InitInv, NextInv, LedgerInvInit, LedgerInvNext, LedgerInit, LedgerNext, PTL
   DEF Spec, ImplementsLedger, Ledger!Spec
=============================================================================
