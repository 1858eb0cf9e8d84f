-------------------------- MODULE ValidatorSetsProofs --------------------------
(***************************************************************************)
(* Proofs about ValidatorSets, for any validators, accounts and identities *)
(* and any number of sessions, changes and failures.                       *)
(***************************************************************************)
EXTENDS ValidatorSets, TLAPS, SequenceTheorems, FiniteSetTheorems, WellFoundedInduction

ChainTyped ==
  /\ session \in FirstSession .. MaxSession /\ parentOf \in [Accounts -> Accounts \cup {None}]
  /\ moves \in 0 .. MaxMoves

IdsTyped == identities \in Seq(Identity) /\ identity \in [Cands -> Identity \cup {None}]

SetsTyped ==
  /\ DOMAIN sets \subseteq Eras /\ seen \subseteq Eras
  /\ \A e \in DOMAIN sets : sets[e].session \in 1 .. MaxSession

RankTyped == rank \in [Cands -> 0 .. Cardinality(Eras)]
MarkTyped == active \in [Cands -> BOOLEAN] /\ toMark \in Seq(Cands)

\* What the statistics job has read, and what is known of it where the job is: a session may
\* begin before the validators are read, but no second one.
Voters  == UNION {Elected[e] : e \in Eras}
Reading == [session : 0 .. MaxSession, era : Eras \cup {0}, at : 0 .. MaxSession,
            validators : SUBSET Voters]
ReadInv ==
  /\ read \in Reading
  /\ pc \in {"idle", "identities", "ranksBefore", "ranksAfter"} => read = Nothing
  /\ pc \in {"era", "validators", "save"} => read.session \in 1 .. MaxSession
  /\ pc \in {"validators", "save", "eras", "past"} => read.era \in Eras
  /\ pc \in {"validators", "save"} => read.era = Planned(read.at) /\ read.at <= session
  /\ pc = "validators" => session <= read.at + 1
  /\ pc = "save" /\ EraOf(read.at) = read.era => read.validators = Elected[read.era]
  /\ pc \in {"eras", "past"} => era \in read.era - Depth .. read.era
  /\ pc \notin {"eras", "past"} => era = 0
  /\ pc = "past" => InReach /\ era >= 1

JobTyped ==
  /\ pc \in {"idle", "identities", "ranksBefore", "era", "validators", "save", "eras", "past",
             "ranksAfter"}
  /\ todo \in Seq(Cands) /\ faults \in 0 .. MaxFaults
  /\ pc = "idle" => todo = <<>>
  /\ ReadInv

\* No era was seen that was not yet the era of a session when the job read its own.
SeenInv ==
  /\ SeenErasAreTrue
  /\ \A e \in seen : /\ e <= EraOf(session)
                     /\ pc \in {"validators", "save"} => e <= EraOf(read.at)

\* An era in hand has no set, which only the job itself could give it.
PastInv == pc = "past" => era \notin DOMAIN sets

\* The inductive invariant.
Typed  == ChainTyped /\ IdsTyped /\ SetsTyped /\ RankTyped /\ MarkTyped /\ JobTyped
IndInv == Typed /\ SeenInv /\ PastInv
-----------------------------------------------------------------------------
(* Sessions, eras and numbers.                                             *)

LEMMA Numbers ==
  /\ SessionsPerEra \in Nat \ {0} /\ Depth \in Nat \ {0} /\ MaxSession \in Nat
  /\ MaxMoves \in Nat /\ MaxFaults \in Nat
  /\ FirstSession \in Nat /\ 1 <= FirstSession /\ SessionsPerEra <= FirstSession
  /\ FirstSession <= MaxSession
  /\ Eras = 1 .. EraOf(MaxSession + 1) /\ EraOf(MaxSession + 1) \in Nat
<1>1. /\ SessionsPerEra \in Nat \ {0} /\ Depth \in Nat \ {0} /\ MaxSession \in Nat
      /\ MaxMoves \in Nat /\ MaxFaults \in Nat
      /\ FirstSession \in SessionsPerEra .. MaxSession
  BY SetsAssumption
<1>2. Eras = 1 .. EraOf(MaxSession + 1)
  BY SetsAssumption DEF EraOf
<1>3. EraOf(MaxSession + 1) \in Nat
  BY <1>1 DEF EraOf
<1> QED BY <1>1, <1>2, <1>3

\* Later sessions are of no earlier era.
LEMMA EraGrows ==
  ASSUME NEW s \in Nat, NEW t \in Nat, s <= t
  PROVE  EraOf(s) \in Nat /\ EraOf(t) \in Nat /\ EraOf(s) <= EraOf(t)
<1>1. SessionsPerEra \in Nat \ {0}
  BY Numbers
<1>2. \A d \in Nat \ {0} : s \div d \in Nat /\ t \div d \in Nat /\ s \div d <= t \div d
  OBVIOUS
<1> QED BY <1>1, <1>2 DEF EraOf

\* The era of a session there may be, and the one planned in it, are among the eras.
LEMMA EraThere ==
  ASSUME NEW s \in Nat, FirstSession <= s, s <= MaxSession
  PROVE  EraOf(s) \in Eras /\ Planned(s) \in Eras
<1>1. SessionsPerEra \in Nat \ {0} /\ SessionsPerEra <= s /\ MaxSession \in Nat
  BY Numbers
<1>2. EraOf(SessionsPerEra) = 1
  <2>1. \A d \in Nat \ {0} : d \div d = 1
    OBVIOUS
  <2> QED BY <1>1, <2>1 DEF EraOf
<1>3. 1 <= EraOf(s) /\ EraOf(s) \in Nat
  BY <1>1, <1>2, EraGrows
<1>4. EraOf(s) <= EraOf(s + 1) /\ EraOf(s + 1) \in Nat
  BY <1>1, EraGrows
<1>5. EraOf(s + 1) <= EraOf(MaxSession + 1)
  BY <1>1, EraGrows
<1> QED BY <1>3, <1>4, <1>5, Numbers DEF Planned

LEMMA ErasFinite ==
  /\ IsFiniteSet(Eras) /\ Cardinality(Eras) \in Nat /\ Eras \subseteq Nat \ {0}
  /\ \A S \in SUBSET Eras : Cardinality(S) \in 0 .. Cardinality(Eras)
<1>1. EraOf(MaxSession + 1) \in Int /\ 1 \in Int
  BY Numbers
<1>2. IsFiniteSet(1 .. EraOf(MaxSession + 1))
  BY <1>1, FS_Interval
<1>3. IsFiniteSet(Eras) /\ Cardinality(Eras) \in Nat
  BY <1>2, Numbers, FS_CardinalityType
<1>4. ASSUME NEW S \in SUBSET Eras
      PROVE  Cardinality(S) \in 0 .. Cardinality(Eras)
  <2>1. Cardinality(S) <= Cardinality(Eras) /\ Cardinality(S) \in Nat
    BY <1>3, FS_Subset, FS_CardinalityType
  <2> QED BY <1>3, <2>1
<1> QED BY <1>3, <1>4, Numbers

LEMMA SessionTyped ==
  ASSUME ChainTyped
  PROVE  /\ session \in Nat /\ FirstSession <= session /\ session <= MaxSession /\ 1 <= session
         /\ session \in 0 .. MaxSession /\ session \in 1 .. MaxSession
BY Numbers DEF ChainTyped

LEMMA HeadTail ==
  ASSUME NEW s \in Seq(Cands), s # <<>>
  PROVE  Head(s) \in Cands /\ Tail(s) \in Seq(Cands)
BY HeadTailProperties

LEMMA NoneInHand ==
  /\ <<>> \in Seq(Cands) /\ <<>> \in Seq(Identity) /\ DOMAIN <<>> = {}
  /\ Candidates \in Seq(Cands) /\ Nothing \in Reading
<1>1. <<>> \in Seq(Cands) /\ <<>> \in Seq(Identity) /\ Len(<<>>) = 0
  BY EmptySeq
<1>2. DOMAIN <<>> = {}
  BY <1>1, LenProperties
<1>3. 0 \in 0 .. MaxSession
  BY Numbers
<1>4. Nothing \in Reading
  BY <1>3 DEF Nothing, Reading
<1> QED BY <1>1, <1>2, <1>4, SetsAssumption
-----------------------------------------------------------------------------
(* Identity records.                                                       *)

LEMMA LeastOf ==
  ASSUME NEW S, S \subseteq Nat, S # {}
  PROVE  Min(S) \in S
<1> DEFINE R == OpToRel(<, Nat)
<1>1. IsWellFoundedOn(R, Nat)
  BY NatLessThanWellFounded
<1>2. \A i, j \in Nat : j < i => <<j, i>> \in R
  BY DEF OpToRel
<1> HIDE DEF R
<1>3. PICK i \in S : \A j \in S : ~ (<<j, i>> \in R)
  BY <1>1, WFMin
<1>4. ASSUME NEW j \in S PROVE i <= j
  <2>1. i \in Nat /\ j \in Nat
    OBVIOUS
  <2>2. ~ (j < i)
    BY <1>2, <1>3, <2>1
  <2> QED BY <2>1, <2>2
<1>5. \E x \in S : \A y \in S : x <= y
  BY <1>4
<1> QED BY <1>5 DEF Min

LEMMA FirstIs ==
  ASSUME NEW is, is \subseteq Nat \ {0}
  PROVE  First(is) = 0 \/ First(is) \in is
BY LeastOf DEF First

LEMMA DocsDomain ==
  ASSUME NEW docs \in Seq(Identity)
  PROVE  /\ DOMAIN docs = 1 .. Len(docs) /\ Len(docs) \in Nat /\ DOMAIN docs \subseteq Nat \ {0}
         /\ \A i \in DOMAIN docs : docs[i] \in Identity
BY LenProperties, ElementOfSeq

\* A candidate's record is one of those there are, or none.
LEMMA RecordTyped ==
  ASSUME NEW docs \in Seq(Identity), NEW a
  PROVE  RecordOf(docs, a) \in Identity \cup {None}
<1> DEFINE own == {i \in DOMAIN docs : docs[i].address = a}
           sub == {i \in DOMAIN docs : a \in docs[i].subs}
           is  == IF own # {} THEN own ELSE sub
<1>1. is \subseteq DOMAIN docs
  OBVIOUS
<1>2. RecordOf(docs, a) = IF First(is) = 0 THEN None ELSE docs[First(is)]
  BY DEF RecordOf
<1> HIDE DEF is
<1>3. First(is) = 0 \/ First(is) \in DOMAIN docs
  BY <1>1, DocsDomain, FirstIs
<1> QED BY <1>2, <1>3, DocsDomain

LEMMA OnChainTyped ==
  ASSUME ChainTyped, NEW a \in Accounts
  PROVE  OnChain(a) = None \/ OnChain(a) \in Identity
<1>1. parentOf[a] = None \/ parentOf[a] \in Accounts
  BY DEF ChainTyped
<1>2. CASE parentOf[a] = None
  BY <1>2 DEF OnChain
<1>3. CASE parentOf[a] # None
  <2>1. NameOf[parentOf[a]] \in Range(NameOf)
    BY <1>1, <1>3, SetsAssumption DEF Range
  <2> QED BY <1>1, <1>3, <2>1 DEF OnChain, Identity
<1> QED BY <1>2, <1>3

LEMMA SetIdentityTyped ==
  ASSUME identities \in Seq(Identity), NEW doc \in Identity
  PROVE  SetIdentity(doc) \in Seq(Identity)
<1> DEFINE is == {k \in Docs : identities[k].name = doc.name}
           i  == First(is)
<1>1. is \subseteq DOMAIN identities
  BY DEF Docs
<1>2. \/ SetIdentity(doc) = identities
      \/ SetIdentity(doc) = IF i = 0 THEN Append(identities, doc)
                                    ELSE [identities EXCEPT ![i] = doc]
  BY DEF SetIdentity
<1>3. i = 0 \/ i \in DOMAIN identities
  BY <1>1, DocsDomain, FirstIs
<1> HIDE DEF i
<1>4. Append(identities, doc) \in Seq(Identity)
  BY AppendProperties
<1>5. i \in 1 .. Len(identities) => [identities EXCEPT ![i] = doc] \in Seq(Identity)
  BY ExceptSeq
<1> QED BY <1>2, <1>3, <1>4, <1>5, DocsDomain
-----------------------------------------------------------------------------
(* The job's own variables.                                                *)

\* What all steps of the job leave alone.
LEMMA Outside ==
  ASSUME ChainTyped, MarkTyped, UNCHANGED outsideStats
  PROVE  ChainTyped' /\ MarkTyped' /\ session' = session
BY DEF outsideStats, chain, ChainTyped, MarkTyped

LEMMA FaultsStay ==
  ASSUME faults \in 0 .. MaxFaults, NoFault \/ Fault
  PROVE  faults' \in 0 .. MaxFaults
<1>1. MaxFaults \in Nat
  BY Numbers
<1>2. faults' = faults \/ (faults < MaxFaults /\ faults' = faults + 1)
  BY DEF NoFault, Fault
<1> QED BY <1>1, <1>2

\* A query that throws ends the run with nothing in hand.
LEMMA ThrowTyped ==
  ASSUME JobTyped, Throw
  PROVE  JobTyped' /\ pc' = "idle"
<1>1. pc' = "idle" /\ todo' = <<>> /\ read' = Nothing /\ era' = 0 /\ Fault
  BY DEF Throw, Goto
<1>2. ReadInv'
  BY <1>1, NoneInHand DEF ReadInv
<1>3. faults' \in 0 .. MaxFaults
  BY <1>1, FaultsStay DEF JobTyped
<1> QED BY <1>1, <1>2, <1>3, NoneInHand DEF JobTyped

\* A step between two of the points where the job has read nothing.
Before == {"idle", "identities", "ranksBefore", "ranksAfter"}

LEMMA BeforeTyped ==
  ASSUME JobTyped, pc \in Before, pc' \in Before, UNCHANGED <<read, era>>, NoFault \/ Fault,
         todo' \in Seq(Cands), pc' = "idle" => todo' = <<>>
  PROVE  JobTyped'
<1>1. read = Nothing /\ era = 0
  BY DEF JobTyped, ReadInv, Before
<1>2. ReadInv'
  BY <1>1, NoneInHand DEF ReadInv, Before
<1>3. faults' \in 0 .. MaxFaults
  BY FaultsStay DEF JobTyped
<1> QED BY <1>2, <1>3 DEF JobTyped, Before

\* Where no set is stored, what was seen stays true.
LEMMA SeenStays ==
  ASSUME SeenInv, UNCHANGED <<sets, seen, session>>,
         pc' \in {"validators", "save"} => (pc \in {"validators", "save"} /\ read'.at = read.at)
  PROVE  SeenInv'
BY DEF SeenInv, SeenErasAreTrue

\* A step of the job that stores nothing.
LEMMA QuietStep ==
  ASSUME IndInv, UNCHANGED <<outsideStats, sets, seen>>, IdsTyped', RankTyped', JobTyped',
         pc' \in {"validators", "save"} => (pc \in {"validators", "save"} /\ read'.at = read.at),
         pc' # "past"
  PROVE  IndInv'
<1>1. ChainTyped' /\ MarkTyped' /\ session' = session
  BY Outside DEF IndInv, Typed
<1>2. SetsTyped'
  BY DEF IndInv, Typed, SetsTyped
<1>3. SeenInv' /\ PastInv'
  BY <1>1, SeenStays DEF IndInv, PastInv
<1> QED BY <1>1, <1>2, <1>3 DEF IndInv, Typed

LEMMA IdsStay ==
  ASSUME IdsTyped, UNCHANGED <<identities, identity>>
  PROVE  IdsTyped'
BY DEF IdsTyped

LEMMA RankStays ==
  ASSUME RankTyped, UNCHANGED rank
  PROVE  RankTyped'
BY DEF RankTyped
-----------------------------------------------------------------------------
(* The steps of the statistics job.                                        *)

LEMMA LoopsStep ==
  ASSUME IndInv, StartStats \/ Identified \/ FinishStats
  PROVE  IndInv'
<1>1. /\ UNCHANGED <<outsideStats, identities, identity, sets, rank, read, era, seen, faults>>
      /\ pc \in Before /\ pc' \in Before /\ todo' \in {Candidates, todo}
      /\ pc' = "idle" => todo' = <<>>
  BY DEF StartStats, Identified, FinishStats, Goto, Before
<1>2. todo' \in Seq(Cands)
  BY <1>1, NoneInHand DEF IndInv, Typed, JobTyped
<1>3. JobTyped'
  BY <1>1, <1>2, BeforeTyped DEF NoFault, IndInv, Typed
<1>4. pc' \notin {"validators", "save", "past"}
  BY <1>1 DEF Before
<1> QED BY <1>1, <1>3, <1>4, QuietStep, IdsStay, RankStays DEF IndInv, Typed

LEMMA IdentifyStep ==
  ASSUME IndInv, Identify
  PROVE  IndInv'
<1>1. /\ pc = "identities" /\ pc' = "identities" /\ todo # <<>>
      /\ UNCHANGED <<outsideStats, sets, rank, read, era, seen>>
      /\ NoFault \/ Fault
      /\ todo' \in {Tail(todo), <<>>}
  BY DEF Identify
<1>2. Head(todo) \in Cands /\ Tail(todo) \in Seq(Cands)
  BY <1>1, HeadTail DEF IndInv, Typed, JobTyped
<1>3. JobTyped'
  <2>1. todo' \in Seq(Cands)
    BY <1>1, <1>2, NoneInHand
  <2> QED BY <1>1, <2>1, BeforeTyped DEF IndInv, Typed, Before
<1>4. IdsTyped'
  <2>1. CASE UNCHANGED <<identities, identity>>
    BY <2>1, IdsStay DEF IndInv, Typed
  <2>2. ASSUME OnChain(Head(todo)) # None, SetCandidateIdentity(Head(todo), OnChain(Head(todo)))
        PROVE  IdsTyped'
    <3> DEFINE c == Head(todo)
    <3>1. c \in Accounts /\ identities \in Seq(Identity) /\ identity \in [Cands -> Identity \cup {None}]
      BY <1>2, SetsAssumption DEF IndInv, Typed, IdsTyped
    <3>2. OnChain(c) \in Identity
      BY <2>2, <3>1, OnChainTyped DEF IndInv, Typed
    <3>3. identities' = identities \/ identities' = SetIdentity(OnChain(c))
      BY <2>2 DEF SetCandidateIdentity
    <3>4. identities' \in Seq(Identity)
      BY <3>1, <3>2, <3>3, SetIdentityTyped
    <3> DEFINE r == RecordOf(identities', c)
    <3>5. r \in Identity \cup {None}
      BY <3>4, RecordTyped
    <3>6. identity' = [identity EXCEPT ![c] = r]
      BY <2>2 DEF SetCandidateIdentity
    <3> HIDE DEF r, c
    <3>7. identity' \in [Cands -> Identity \cup {None}]
      BY <3>1, <3>5, <3>6
    <3> QED BY <3>4, <3>7 DEF IdsTyped
  <2>3. \/ UNCHANGED <<identities, identity>>
        \/ OnChain(Head(todo)) # None /\ SetCandidateIdentity(Head(todo), OnChain(Head(todo)))
    BY DEF Identify
  <2> QED BY <2>1, <2>2, <2>3
<1>5. RankTyped'
  BY <1>1, RankStays DEF IndInv, Typed
<1> QED BY <1>1, <1>3, <1>4, <1>5, QuietStep

LEMMA RankStep ==
  ASSUME IndInv, Rank
  PROVE  IndInv'
<1>1. /\ pc \in {"ranksBefore", "ranksAfter"} /\ todo # <<>>
      /\ UNCHANGED <<outsideStats, identities, identity, sets, seen>>
  BY DEF Rank
<1>2. IdsTyped'
  BY <1>1, IdsStay DEF IndInv, Typed
<1>3. ASSUME NoFault, todo' = Tail(todo), UNCHANGED <<pc, read, era>>,
             SetRank(Head(todo), ActiveErasOf(Head(todo)))
      PROVE  IndInv'
  <2>1. Head(todo) \in Cands /\ Tail(todo) \in Seq(Cands)
    BY <1>1, HeadTail DEF IndInv, Typed, JobTyped
  <2>2. JobTyped'
    BY <1>1, <1>3, <2>1, BeforeTyped DEF IndInv, Typed, Before
  <2> DEFINE n == ActiveErasOf(Head(todo))
  <2>3. n \in 0 .. Cardinality(Eras)
    <3>1. {e \in DOMAIN sets : sets[e].validators \cap AddressesOf(Head(todo)) # {}} \in SUBSET Eras
      BY DEF IndInv, Typed, SetsTyped
    <3> QED BY <3>1, ErasFinite DEF ActiveErasOf
  <2>4. rank' = [rank EXCEPT ![Head(todo)] = n]
    BY <1>3 DEF SetRank
  <2> HIDE DEF n
  <2>5. RankTyped'
    BY <2>3, <2>4 DEF IndInv, Typed, RankTyped
  <2>6. pc' \notin {"validators", "save", "past"}
    BY <1>1, <1>3
  <2> QED BY <1>1, <1>2, <2>2, <2>5, <2>6, QuietStep
<1>4. ASSUME Throw, UNCHANGED rank
      PROVE  IndInv'
  <2>1. JobTyped' /\ pc' = "idle"
    BY <1>4, ThrowTyped DEF IndInv, Typed
  <2>2. RankTyped'
    BY <1>4, RankStays DEF IndInv, Typed
  <2> QED BY <1>1, <1>2, <2>1, <2>2, QuietStep
<1> QED BY <1>3, <1>4 DEF Rank

LEMMA ReadSessionStep ==
  ASSUME IndInv, ReadSession
  PROVE  IndInv'
<1>1. /\ pc = "ranksBefore" /\ UNCHANGED <<outsideStats, identities, identity, rank, sets, seen>>
  BY DEF ReadSession
<1>2. IdsTyped' /\ RankTyped'
  BY <1>1, IdsStay, RankStays DEF IndInv, Typed
<1>3. CASE Throw
  <2>1. JobTyped' /\ pc' = "idle"
    BY <1>3, ThrowTyped DEF IndInv, Typed
  <2> QED BY <1>1, <1>2, <2>1, QuietStep
<1>4. CASE ~Throw
  <2>1. /\ NoFault /\ pc' = "era" /\ read' = [read EXCEPT !.session = session]
        /\ UNCHANGED <<todo, era>>
    BY <1>4 DEF ReadSession, Goto
  <2>2. read \in Reading /\ era = 0
    BY <1>1 DEF IndInv, Typed, JobTyped, ReadInv
  <2>3. session \in 0 .. MaxSession /\ session \in 1 .. MaxSession
    BY SessionTyped DEF IndInv, Typed
  <2>4. read' \in Reading /\ read'.session = session
    BY <2>1, <2>2, <2>3 DEF Reading
  <2>5. ReadInv'
    BY <2>1, <2>2, <2>3, <2>4 DEF ReadInv
  <2>6. JobTyped'
    BY <2>1, <2>5, FaultsStay DEF IndInv, Typed, JobTyped
  <2> QED BY <1>1, <1>2, <2>1, <2>6, QuietStep
<1> QED BY <1>3, <1>4

\* The eras seen are of sessions that have been: none is later than that of this one.
LEMMA ReadEraStep ==
  ASSUME IndInv, ReadEra
  PROVE  IndInv'
<1>1. /\ pc = "era" /\ UNCHANGED <<outsideStats, identities, identity, rank, sets, seen>>
  BY DEF ReadEra
<1>2. IdsTyped' /\ RankTyped'
  BY <1>1, IdsStay, RankStays DEF IndInv, Typed
<1>3. CASE Throw
  <2>1. JobTyped' /\ pc' = "idle"
    BY <1>3, ThrowTyped DEF IndInv, Typed
  <2> QED BY <1>1, <1>2, <2>1, QuietStep
<1>4. CASE ~Throw
  <2>1. /\ NoFault /\ pc' = "validators" /\ UNCHANGED <<todo, era>>
        /\ read' = [read EXCEPT !.era = Planned(session), !.at = session]
    BY <1>4 DEF ReadEra, Goto
  <2>2. read \in Reading /\ era = 0 /\ read.session \in 1 .. MaxSession
    BY <1>1 DEF IndInv, Typed, JobTyped, ReadInv
  <2>3. /\ session \in 0 .. MaxSession /\ session \in 1 .. MaxSession /\ session \in Nat
        /\ Planned(session) \in Eras
    BY SessionTyped, EraThere DEF IndInv, Typed
  <2>4. /\ read' \in Reading /\ read'.session = read.session
        /\ read'.era = Planned(session) /\ read'.at = session
    BY <2>1, <2>2, <2>3 DEF Reading
  <2>5. ChainTyped' /\ MarkTyped' /\ session' = session
    BY <1>1, Outside DEF IndInv, Typed
  <2>6. ReadInv'
    <3>1. session <= session /\ session <= session + 1
      BY <2>3
    <3> QED BY <2>1, <2>2, <2>3, <2>4, <2>5, <3>1 DEF ReadInv, Planned, EraOf
  <2>7. JobTyped'
    BY <1>1, <2>1, <2>6, FaultsStay DEF IndInv, Typed, JobTyped
  <2>8. SeenInv'
    BY <1>1, <2>1, <2>4, <2>5 DEF IndInv, SeenInv, SeenErasAreTrue, EraOf
  <2> QED BY <1>1, <1>2, <2>1, <2>5, <2>7, <2>8 DEF IndInv, Typed, SetsTyped, PastInv
<1> QED BY <1>3, <1>4

LEMMA ReadingTyped ==
  ASSUME JobTyped
  PROVE  /\ read \in Reading /\ read.session \in 0 .. MaxSession /\ read.at \in Nat
         /\ read.validators \in SUBSET Voters /\ read.era \in Eras \cup {0}
<1>1. read \in Reading
  BY DEF JobTyped, ReadInv
<1> QED BY <1>1, Numbers DEF Reading

\* When the era read is that of the session it was read in, no other era can have begun by
\* the time the validators are read: then they are the era's.
LEMMA ReadValidatorsStep ==
  ASSUME IndInv, ReadValidators
  PROVE  IndInv'
<1>1. /\ pc = "validators" /\ UNCHANGED <<outsideStats, identities, identity, rank, sets, seen>>
  BY DEF ReadValidators
<1>2. IdsTyped' /\ RankTyped'
  BY <1>1, IdsStay, RankStays DEF IndInv, Typed
<1>3. CASE Throw
  <2>1. JobTyped' /\ pc' = "idle"
    BY <1>3, ThrowTyped DEF IndInv, Typed
  <2> QED BY <1>1, <1>2, <2>1, QuietStep
<1>4. CASE ~Throw
  <2>1. /\ NoFault /\ pc' = "save" /\ UNCHANGED <<todo, era>>
        /\ read' = [read EXCEPT !.validators = Elected[EraOf(session)]]
    BY <1>4 DEF ReadValidators, Goto
  <2>2. /\ read \in Reading /\ era = 0 /\ read.session \in 1 .. MaxSession /\ read.era \in Eras
        /\ read.era = Planned(read.at) /\ read.at <= session /\ session <= read.at + 1
        /\ read.at \in Nat
    BY <1>1, ReadingTyped DEF IndInv, Typed, JobTyped, ReadInv
  <2>3. session \in Nat /\ EraOf(session) \in Eras
    BY SessionTyped, EraThere DEF IndInv, Typed
  <2>4. Elected[EraOf(session)] \in SUBSET Voters
    BY <2>3 DEF Voters
  <2>5. /\ read' \in Reading /\ read'.session = read.session /\ read'.era = read.era
        /\ read'.at = read.at /\ read'.validators = Elected[EraOf(session)]
    BY <2>1, <2>2, <2>4 DEF Reading
  <2>6. ChainTyped' /\ MarkTyped' /\ session' = session
    BY <1>1, Outside DEF IndInv, Typed
  <2>7. EraOf(read.at) = read.era => EraOf(session) = read.era
    <3>1. EraOf(read.at) <= EraOf(session) /\ EraOf(session) <= EraOf(read.at + 1)
      BY <2>2, <2>3, EraGrows
    <3>2. EraOf(read.at) \in Nat /\ EraOf(session) \in Nat /\ EraOf(read.at + 1) = read.era
      BY <2>2, <2>3, EraGrows DEF Planned
    <3> QED BY <3>1, <3>2
  <2>8. ReadInv'
    BY <2>1, <2>2, <2>5, <2>6, <2>7 DEF ReadInv, Planned, EraOf
  <2>9. JobTyped'
    BY <1>1, <2>1, <2>8, FaultsStay DEF IndInv, Typed, JobTyped
  <2> QED BY <1>1, <1>2, <2>1, <2>5, <2>9, QuietStep
<1> QED BY <1>3, <1>4

\* A set of an era that was only planned is stored under an era later than any seen; one
\* stored under its own era holds the era's validators.
LEMMA SaveStep ==
  ASSUME IndInv, SaveSet
  PROVE  IndInv'
<1>1. pc = "save" /\ UNCHANGED <<outsideStats, identities, identity, rank>>
  BY DEF SaveSet
<1>2. IdsTyped' /\ RankTyped' /\ ChainTyped' /\ MarkTyped' /\ session' = session
  BY <1>1, IdsStay, RankStays, Outside DEF IndInv, Typed
<1>3. CASE Throw /\ UNCHANGED <<sets, seen>>
  <2>1. JobTyped' /\ pc' = "idle"
    BY <1>3, ThrowTyped DEF IndInv, Typed
  <2> QED BY <1>1, <1>2, <1>3, <2>1, QuietStep
<1>4. CASE ~(Throw /\ UNCHANGED <<sets, seen>>)
  <2> DEFINE set == [session |-> read.session, validators |-> read.validators]
  <2>1. /\ NoFault /\ pc' = "eras" /\ era' = read.era /\ UNCHANGED <<todo, read>>
        /\ sets' = Stored(read.era, set)
        /\ seen' = IF EraOf(read.at) = read.era THEN seen \cup {read.era} ELSE seen
    BY <1>4 DEF SaveSet, Goto
  <2>2. /\ read \in Reading /\ read.session \in 1 .. MaxSession /\ read.era \in Eras
        /\ read.era = EraOf(read.at + 1) /\ read.at <= session /\ read.at \in Nat
        /\ EraOf(read.at) = read.era => read.validators = Elected[read.era]
    BY <1>1, ReadingTyped DEF IndInv, Typed, JobTyped, ReadInv, Planned
  <2>3. set.session = read.session /\ set.validators = read.validators
    OBVIOUS
  <2> HIDE DEF set
  <2>4. /\ DOMAIN sets' = DOMAIN sets \cup {read.era} /\ sets'[read.era] = set
        /\ \A f \in DOMAIN sets \ {read.era} : sets'[f] = sets[f]
    BY <2>1 DEF Stored
  <2>5. SetsTyped'
    <3>1. DOMAIN sets' \subseteq Eras /\ seen' \subseteq Eras
      BY <2>1, <2>2, <2>4 DEF IndInv, Typed, SetsTyped
    <3>2. \A e \in DOMAIN sets' : sets'[e].session \in 1 .. MaxSession
      BY <2>2, <2>3, <2>4 DEF IndInv, Typed, SetsTyped
    <3> QED BY <3>1, <3>2 DEF SetsTyped
  <2>6. read.era \in read.era - Depth .. read.era
    BY <2>2, Numbers, ErasFinite
  <2>7. JobTyped'
    <3>1. ReadInv'
      BY <2>1, <2>2, <2>6 DEF ReadInv
    <3> QED BY <1>1, <2>1, <3>1, FaultsStay DEF IndInv, Typed, JobTyped
  <2>8. /\ EraOf(read.at) \in Nat /\ EraOf(session) \in Nat
        /\ EraOf(read.at) <= EraOf(session) /\ EraOf(read.at) <= read.era
    <3>1. session \in Nat
      BY SessionTyped DEF IndInv, Typed
    <3> QED BY <2>2, <3>1, EraGrows
  <2>9. \A e \in seen : /\ e \in Nat /\ e <= EraOf(session) /\ e <= EraOf(read.at)
                        /\ e \in DOMAIN sets /\ sets[e].validators = Elected[e]
    BY <1>1, ErasFinite DEF IndInv, SeenInv, SeenErasAreTrue, Typed, SetsTyped
  <2>10. ASSUME NEW e \in seen'
         PROVE  /\ e \in DOMAIN sets' /\ sets'[e].validators = Elected[e]
                /\ e <= EraOf(session)
    <3>1. CASE EraOf(read.at) = read.era
      <4>1. CASE e = read.era
        BY <2>2, <2>3, <2>4, <2>8, <3>1, <4>1
      <4>2. CASE e # read.era
        BY <2>1, <2>4, <2>9, <2>10, <3>1, <4>2
      <4> QED BY <4>1, <4>2
    <3>2. CASE EraOf(read.at) # read.era
      <4>1. e \in seen /\ read.era \in Nat
        BY <2>1, <2>2, <2>10, <3>2, ErasFinite
      <4>2. e # read.era
        BY <2>8, <2>9, <3>2, <4>1
      <4> QED BY <2>4, <2>9, <4>1, <4>2
    <3> QED BY <3>1, <3>2
  <2>11. SeenInv'
    BY <1>2, <2>1, <2>10 DEF SeenInv, SeenErasAreTrue, EraOf
  <2> QED BY <1>2, <2>1, <2>5, <2>7, <2>11 DEF IndInv, Typed, PastInv
<1> QED BY <1>3, <1>4

\* The eras gone through keep within the depth.
LEMMA EraNumbers ==
  ASSUME JobTyped, pc \in {"eras", "past"}, InReach
  PROVE  /\ read.era \in Eras /\ read.era \in Int /\ era \in Int /\ era <= read.era
         /\ era - 1 \in read.era - Depth .. read.era
         /\ era >= 1 => era \in Eras
<1>1. read.era \in Eras /\ era \in read.era - Depth .. read.era /\ era > read.era - Depth
  BY DEF JobTyped, ReadInv, InReach
<1>2. read.era \in Int /\ Depth \in Nat
  BY <1>1, Numbers, ErasFinite
<1>3. era >= 1 => era \in Eras
  BY <1>1, <1>2, Numbers
<1> QED BY <1>1, <1>2, <1>3

LEMMA EraBefore ==
  ASSUME JobTyped, pc \in {"eras", "past"}, InReach, pc' = "eras", era' = era - 1,
         UNCHANGED <<todo, read>>, NoFault
  PROVE  JobTyped'
<1>1. era' \in read.era - Depth .. read.era
  BY EraNumbers
<1>2. ReadInv'
  BY <1>1 DEF JobTyped, ReadInv
<1> QED BY <1>2, FaultsStay DEF JobTyped

LEMMA PassStep ==
  ASSUME IndInv, PassEra
  PROVE  IndInv'
<1>1. /\ pc = "eras" /\ InReach /\ era' = era - 1
      /\ UNCHANGED <<outsideStats, identities, identity, sets, rank, pc, todo, read, seen, faults>>
  BY DEF PassEra
<1>2. JobTyped'
  BY <1>1, EraBefore DEF NoFault, IndInv, Typed
<1>3. IdsTyped' /\ RankTyped'
  BY <1>1, IdsStay, RankStays DEF IndInv, Typed
<1> QED BY <1>1, <1>2, <1>3, QuietStep

LEMMA ReadPastStep ==
  ASSUME IndInv, ReadPast
  PROVE  IndInv'
<1>1. /\ pc = "eras" /\ InReach /\ era \notin DOMAIN sets /\ era >= 1
      /\ UNCHANGED <<outsideStats, identities, identity, sets, rank, seen>>
  BY DEF ReadPast
<1>2. IdsTyped' /\ RankTyped' /\ ChainTyped' /\ MarkTyped' /\ session' = session
  BY <1>1, IdsStay, RankStays, Outside DEF IndInv, Typed
<1>3. CASE Throw
  <2>1. JobTyped' /\ pc' = "idle"
    BY <1>3, ThrowTyped DEF IndInv, Typed
  <2> QED BY <1>1, <1>2, <2>1, QuietStep
<1>4. CASE ~Throw
  <2>1. /\ NoFault /\ pc' = "past" /\ UNCHANGED <<todo, era>>
        /\ \/ read' = [read EXCEPT !.validators = Elected[era]]
           \/ read' = [read EXCEPT !.validators = {}]
    BY <1>4 DEF ReadPast, Goto, ValidatorsAtEra
  <2>2. era \in Eras /\ read \in Reading
    BY <1>1, EraNumbers, ReadingTyped DEF IndInv, Typed
  <2>3. Elected[era] \in SUBSET Voters /\ {} \in SUBSET Voters
    BY <2>2 DEF Voters
  <2>4. read' \in Reading /\ read'.era = read.era
    BY <2>1, <2>2, <2>3 DEF Reading
  <2>5. ReadInv'
    BY <1>1, <2>1, <2>4 DEF IndInv, Typed, JobTyped, ReadInv, InReach
  <2>6. JobTyped'
    BY <1>1, <2>1, <2>5, FaultsStay DEF IndInv, Typed, JobTyped
  <2>7. SeenInv'
    BY <1>1, <1>2, <2>1, SeenStays DEF IndInv
  <2>8. PastInv'
    BY <1>1, <2>1 DEF PastInv
  <2> QED BY <1>1, <1>2, <2>6, <2>7, <2>8 DEF IndInv, Typed, SetsTyped
<1> QED BY <1>3, <1>4

\* Only an era that has no set gets one, so that none that was seen is touched.
LEMMA FillStep ==
  ASSUME IndInv, FillEra
  PROVE  IndInv'
<1>1. /\ pc = "past" /\ InReach /\ era \notin DOMAIN sets /\ era >= 1
      /\ UNCHANGED <<outsideStats, identities, identity, rank, seen>>
  BY DEF FillEra, IndInv, Typed, JobTyped, ReadInv, PastInv
<1>2. IdsTyped' /\ RankTyped' /\ ChainTyped' /\ MarkTyped' /\ session' = session
  BY <1>1, IdsStay, RankStays, Outside DEF IndInv, Typed
<1>3. CASE Throw /\ UNCHANGED sets
  <2>1. JobTyped' /\ pc' = "idle"
    BY <1>3, ThrowTyped DEF IndInv, Typed
  <2> QED BY <1>1, <1>2, <1>3, <2>1, QuietStep
<1>4. CASE ~(Throw /\ UNCHANGED sets)
  <2>1. NoFault /\ pc' = "eras" /\ era' = era - 1 /\ UNCHANGED <<todo, read>>
    BY <1>4 DEF FillEra, Goto
  <2>2. JobTyped'
    BY <1>1, <2>1, EraBefore DEF IndInv, Typed
  <2>3. CASE UNCHANGED sets
    BY <1>1, <1>2, <2>1, <2>2, <2>3, QuietStep
  <2>4. ASSUME NEW s \in SessionsAtEra(era),
               sets' = Stored(era, [session |-> s, validators |-> read.validators])
        PROVE  IndInv'
    <3> DEFINE set == [session |-> s, validators |-> read.validators]
    <3>1. set.session \in 1 .. MaxSession
      <4>1. s \in 1 .. session /\ session \in Nat /\ session <= MaxSession /\ MaxSession \in Nat
        BY SessionTyped, Numbers DEF SessionsAtEra, IndInv, Typed
      <4>2. set.session = s
        OBVIOUS
      <4> QED BY <4>1, <4>2
    <3>2. sets' = Stored(era, set)
      BY <2>4
    <3> HIDE DEF set
    <3>3. /\ DOMAIN sets' = DOMAIN sets \cup {era} /\ sets'[era] = set
          /\ \A f \in DOMAIN sets \ {era} : sets'[f] = sets[f]
      BY <3>2 DEF Stored
    <3>4. era \in Eras
      BY <1>1, EraNumbers DEF IndInv, Typed
    <3>5. SetsTyped'
      BY <1>1, <3>1, <3>3, <3>4 DEF IndInv, Typed, SetsTyped
    <3>6. SeenInv'
      BY <1>1, <1>2, <2>1, <3>3 DEF IndInv, SeenInv, SeenErasAreTrue, EraOf
    <3>7. PastInv'
      BY <2>1 DEF PastInv
    <3> QED BY <1>2, <2>2, <3>5, <3>6, <3>7 DEF IndInv, Typed
  <2> QED BY <1>4, <2>3, <2>4 DEF FillEra
<1> QED BY <1>3, <1>4

LEMMA ErasDoneStep ==
  ASSUME IndInv, ErasDone
  PROVE  IndInv'
<1>1. /\ pc = "eras" /\ pc' = "ranksAfter" /\ todo' = Candidates /\ era' = 0 /\ read' = Nothing
      /\ UNCHANGED <<outsideStats, identities, identity, sets, rank, seen, faults>>
  BY DEF ErasDone, Goto
<1>2. ReadInv'
  BY <1>1, NoneInHand DEF ReadInv
<1>3. JobTyped'
  BY <1>1, <1>2, NoneInHand DEF IndInv, Typed, JobTyped
<1>4. IdsTyped' /\ RankTyped'
  BY <1>1, IdsStay, RankStays DEF IndInv, Typed
<1> QED BY <1>1, <1>3, <1>4, QuietStep
-----------------------------------------------------------------------------
(* The steps beside it.                                                    *)

\* The session, which goes on, is in none of these but for the bounds of what the job read.
LEMMA JobStays ==
  ASSUME JobTyped, UNCHANGED <<statsJob, session>>, NoFault \/ Fault
  PROVE  JobTyped'
<1>1. ReadInv'
  BY DEF statsJob, JobTyped, ReadInv, InReach, Planned, EraOf
<1> QED BY <1>1, FaultsStay DEF statsJob, JobTyped

LEMMA BesideStep ==
  ASSUME IndInv, UNCHANGED <<session, sets, rank, statsJob, seen>>,
         ChainTyped', IdsTyped', MarkTyped', NoFault \/ Fault
  PROVE  IndInv'
<1>1. JobTyped' /\ RankTyped'
  BY JobStays, RankStays DEF IndInv, Typed
<1>2. SetsTyped'
  BY DEF IndInv, Typed, SetsTyped
<1>3. SeenInv' /\ PastInv'
  BY SeenStays DEF IndInv, PastInv, statsJob
<1> QED BY <1>1, <1>2, <1>3 DEF IndInv, Typed

LEMMA MarkStep ==
  ASSUME IndInv, MarkJob
  PROVE  IndInv'
<1>1. /\ UNCHANGED <<chain, identities, identity, sets, rank, statsJob, seen>>
      /\ NoFault \/ Fault
  BY DEF MarkJob, StartMarking, Mark, db, NoFault
<1>2. ChainTyped' /\ IdsTyped' /\ session' = session
  BY <1>1, IdsStay DEF chain, IndInv, Typed, ChainTyped
<1>3. MarkTyped'
  <2>1. active \in [Cands -> BOOLEAN] /\ toMark \in Seq(Cands)
    BY DEF IndInv, Typed, MarkTyped
  <2>2. CASE StartMarking
    BY <2>1, <2>2, NoneInHand DEF StartMarking, db, MarkTyped
  <2>3. CASE Mark
    <3>1. toMark # <<>> /\ toMark' = Tail(toMark)
      BY <2>3 DEF Mark
    <3>2. toMark' \in Seq(Cands)
      BY <2>1, <3>1, HeadTail
    <3>3. UNCHANGED active \/ \E set \in LatestSets :
             SetActive(Head(toMark), Head(toMark) \in set.validators)
      BY <2>3 DEF Mark
    <3>4. ASSUME NEW is \in BOOLEAN, SetActive(Head(toMark), is)
          PROVE  active' \in [Cands -> BOOLEAN]
      BY <2>1, <3>4 DEF SetActive
    <3>5. active' \in [Cands -> BOOLEAN]
      <4>1. \A set \in LatestSets : (Head(toMark) \in set.validators) \in BOOLEAN
        OBVIOUS
      <4> QED BY <2>1, <3>3, <3>4, <4>1
    <3> QED BY <3>2, <3>5 DEF MarkTyped
  <2> QED BY <2>2, <2>3 DEF MarkJob
<1> QED BY <1>1, <1>2, <1>3, BesideStep

LEMMA CrashStep ==
  ASSUME IndInv, Crash
  PROVE  IndInv'
<1>1. /\ Throw /\ toMark' = <<>> /\ identities' \in Cleaned
      /\ UNCHANGED <<chain, identity, sets, rank, active, seen>>
  BY DEF Crash
<1>2. JobTyped' /\ pc' = "idle"
  BY <1>1, ThrowTyped DEF IndInv, Typed
<1>3. IdsTyped'
  BY <1>1, NoneInHand DEF Cleaned, IndInv, Typed, IdsTyped
<1>4. /\ ChainTyped' /\ session' = session
  BY <1>1 DEF chain, IndInv, Typed, ChainTyped
<1>5. MarkTyped' /\ RankTyped' /\ SetsTyped'
  BY <1>1, NoneInHand DEF IndInv, Typed, MarkTyped, RankTyped, SetsTyped
<1>6. SeenInv' /\ PastInv'
  BY <1>1, <1>2, <1>4, SeenStays DEF IndInv, PastInv
<1> QED BY <1>2, <1>3, <1>4, <1>5, <1>6 DEF IndInv, Typed

LEMMA NewSessionStep ==
  ASSUME IndInv, NewSession
  PROVE  IndInv'
<1>1. /\ session < MaxSession /\ (pc = "validators" => session = read.at) /\ session' = session + 1
      /\ UNCHANGED <<parentOf, moves, db, statsJob, toMark, seen, faults>>
  BY DEF NewSession
<1>2. session \in Nat /\ FirstSession <= session /\ MaxSession \in Nat /\ FirstSession \in Nat
  BY SessionTyped, Numbers DEF IndInv, Typed
<1>3. ChainTyped'
  BY <1>1, <1>2 DEF IndInv, Typed, ChainTyped
<1>4. EraOf(session) <= EraOf(session + 1) /\ EraOf(session) \in Nat /\ EraOf(session + 1) \in Nat
  BY <1>2, EraGrows
<1>5. ReadInv'
  <2>1. read.at \in Nat
    BY ReadingTyped DEF IndInv, Typed
  <2>2. read.at <= session => read.at <= session'
    BY <1>1, <1>2, <2>1
  <2>3. session = read.at => session' <= read.at + 1
    BY <1>1, <1>2
  <2> QED BY <1>1, <2>2, <2>3 DEF statsJob, IndInv, Typed, JobTyped, ReadInv, InReach, Planned,
              EraOf
<1>6. JobTyped'
  BY <1>1, <1>5 DEF statsJob, IndInv, Typed, JobTyped
<1>7. IdsTyped' /\ SetsTyped' /\ RankTyped' /\ MarkTyped'
  BY <1>1 DEF db, IndInv, Typed, IdsTyped, SetsTyped, RankTyped, MarkTyped
<1>8. SeenInv'
  <2>1. \A e \in seen : e \in Nat /\ e <= EraOf(session)
    BY ErasFinite DEF IndInv, SeenInv, Typed, SetsTyped
  <2>2. EraOf(session)' = EraOf(session + 1)
    BY <1>1 DEF EraOf
  <2>3. \A e \in seen : e <= EraOf(session)'
    BY <1>4, <2>1, <2>2
  <2> QED BY <1>1, <2>3 DEF db, statsJob, IndInv, SeenInv, SeenErasAreTrue, EraOf
<1>9. PastInv'
  BY <1>1 DEF db, statsJob, IndInv, PastInv
<1> QED BY <1>3, <1>6, <1>7, <1>8, <1>9 DEF IndInv, Typed

LEMMA MoveStep ==
  ASSUME IndInv, NEW a \in Accounts, Move(a)
  PROVE  IndInv'
<1>1. /\ moves < MaxMoves /\ moves' = moves + 1
      /\ \E p \in Family[a] \cup {None} : parentOf' = [parentOf EXCEPT ![a] = p]
      /\ UNCHANGED <<session, db, statsJob, toMark, seen, faults>>
  BY DEF Move
<1>2. Family[a] \subseteq Accounts
  BY SetsAssumption
<1>3. parentOf' \in [Accounts -> Accounts \cup {None}]
  BY <1>1, <1>2 DEF IndInv, Typed, ChainTyped
<1>4. ChainTyped'
  BY <1>1, <1>3, Numbers DEF IndInv, Typed, ChainTyped
<1>5. IdsTyped' /\ MarkTyped'
  BY <1>1 DEF db, IndInv, Typed, IdsTyped, MarkTyped
<1>6. UNCHANGED <<session, sets, rank, statsJob, seen>> /\ NoFault
  BY <1>1 DEF db, NoFault
<1> QED BY <1>4, <1>5, <1>6, BesideStep

LEMMA NoStep ==
  ASSUME IndInv, UNCHANGED vars
  PROVE  IndInv'
<1>1. UNCHANGED <<session, sets, rank, statsJob, seen>> /\ NoFault
  BY DEF vars, chain, db, NoFault
<1>2. ChainTyped' /\ IdsTyped' /\ MarkTyped'
  BY DEF vars, chain, db, IndInv, Typed, ChainTyped, IdsTyped, MarkTyped
<1> QED BY <1>1, <1>2, BesideStep
-----------------------------------------------------------------------------
(* The theorems.                                                           *)

LEMMA InitInv == Init => IndInv
<1> SUFFICES ASSUME Init PROVE IndInv
  OBVIOUS
<1>1. DOMAIN sets = {} /\ seen = {}
  BY NoneInHand DEF Init
<1>2. ChainTyped
  BY Numbers, SetsAssumption DEF Init, ChainTyped
<1>3. IdsTyped /\ MarkTyped
  BY NoneInHand DEF Init, IdsTyped, MarkTyped
<1>4. RankTyped
  BY ErasFinite DEF Init, RankTyped
<1>5. JobTyped
  BY NoneInHand, Numbers DEF Init, JobTyped, ReadInv
<1>6. SetsTyped /\ SeenInv /\ PastInv
  BY <1>1 DEF SetsTyped, SeenInv, SeenErasAreTrue, PastInv
<1> QED BY <1>2, <1>3, <1>4, <1>5, <1>6 DEF IndInv, Typed

LEMMA NextInv == IndInv /\ [Next]_vars => IndInv'
<1> SUFFICES ASSUME IndInv, [Next]_vars PROVE IndInv'
  OBVIOUS
<1>1. CASE StartStats \/ Identified \/ FinishStats \/ Identify \/ Rank
  BY <1>1, LoopsStep, IdentifyStep, RankStep
<1>2. CASE ReadSession \/ ReadEra \/ ReadValidators \/ SaveSet
  BY <1>2, ReadSessionStep, ReadEraStep, ReadValidatorsStep, SaveStep
<1>3. CASE PassEra \/ ReadPast \/ FillEra \/ ErasDone
  BY <1>3, PassStep, ReadPastStep, FillStep, ErasDoneStep
<1>4. CASE MarkJob \/ Crash \/ NewSession
  BY <1>4, MarkStep, CrashStep, NewSessionStep
<1>5. ASSUME NEW a \in Accounts, Move(a)
      PROVE  IndInv'
  BY <1>5, MoveStep
<1>6. CASE UNCHANGED vars
  BY <1>6, NoStep
<1> QED BY <1>1, <1>2, <1>3, <1>4, <1>5, <1>6 DEF Next, StatsJob

\* Every variable keeps to its kind, whatever identities there are and whoever is elected: a
\* rank never counts more eras than there are, and the job goes no further back than its depth.
THEOREM ValidatorSetsTyped == Spec => []TypeOK
<1>1. IndInv => TypeOK
  BY DEF IndInv, Typed, ChainTyped, IdsTyped, SetsTyped, RankTyped, MarkTyped, JobTyped, ReadInv,
         TypeOK
<1> QED BY <1>1, InitInv, NextInv, PTL DEF Spec

\* A set stored from queries that were all made in its era is true, and stays so: no later run
\* spoils it that straddles a session or the end of an era, dies or fails, for any elections
\* and sessions per era.
THEOREM SeenStaysTrue == Spec => []SeenErasAreTrue
<1>1. IndInv => SeenErasAreTrue
  BY DEF IndInv, SeenInv
<1> QED BY <1>1, InitInv, NextInv, PTL DEF Spec
-----------------------------------------------------------------------------
(* The job implements the ledger.                                          *)

\* The validators read are those of the era read or of the one before; of a past era its own or,
\* without a block, nobody.
NearInv ==
  /\ pc = "save" => \E f \in {read.era - 1, read.era} \cap Eras : read.validators = Elected[f]
  /\ pc = "past" => read.validators \in {Elected[era], {}}

\* The validators written down of an era.
Written == [e \in Eras |-> IF e \in DOMAIN sets THEN {sets[e].validators} ELSE {}]

\* The next session is of the same era or the next.
LEMMA EraStep ==
  ASSUME NEW s \in Nat
  PROVE  EraOf(s + 1) <= EraOf(s) + 1 /\ EraOf(s) \in Nat /\ EraOf(s + 1) \in Nat
<1>1. SessionsPerEra \in Nat \ {0}
  BY Numbers
<1>2. \A d \in Nat \ {0} : /\ s \div d \in Nat /\ (s + 1) \div d \in Nat
                           /\ (s + 1) \div d <= (s \div d) + 1
  OBVIOUS
<1> QED BY <1>1, <1>2 DEF EraOf

\* The era a job has read lies at most one era ahead.
LEMMA ReadNear ==
  ASSUME IndInv, pc \in {"validators", "save"}
  PROVE  /\ read.era \in Eras /\ read.era \in Int /\ EraOf(session) \in Eras /\ EraOf(session) \in Int
         /\ EraOf(read.at) \in Int /\ EraOf(read.at) <= EraOf(session)
         /\ EraOf(read.at) <= read.era /\ read.era <= EraOf(read.at) + 1
         /\ pc = "validators" => EraOf(session) \in {read.era - 1, read.era}
<1>1. /\ read.era \in Eras /\ read.era = EraOf(read.at + 1) /\ read.at <= session
      /\ read.at \in Nat /\ (pc = "validators" => session <= read.at + 1)
  BY ReadingTyped DEF IndInv, Typed, JobTyped, ReadInv, Planned
<1>2. session \in Nat /\ EraOf(session) \in Eras
  BY SessionTyped, EraThere DEF IndInv, Typed
<1>3. /\ EraOf(read.at) \in Nat /\ EraOf(session) \in Nat /\ EraOf(read.at) <= EraOf(session)
      /\ EraOf(read.at) <= EraOf(read.at + 1)
  BY <1>1, <1>2, EraGrows
<1>4. EraOf(read.at + 1) <= EraOf(read.at) + 1 /\ EraOf(read.at + 1) \in Nat
  BY <1>1, EraStep
<1>5. pc = "validators" => EraOf(session) <= EraOf(read.at + 1)
  BY <1>1, <1>2, EraGrows
<1>6. pc = "validators" => EraOf(session) \in {read.era - 1, read.era}
  BY <1>1, <1>3, <1>4, <1>5
<1> QED BY <1>1, <1>2, <1>3, <1>4, <1>6

LEMMA NearInvInit == Init => NearInv
BY DEF Init, NearInv

LEMMA NearInvNext == IndInv /\ NearInv /\ [Next]_vars => NearInv'
<1> SUFFICES ASSUME IndInv, NearInv, [Next]_vars, pc' \in {"save", "past"} PROVE NearInv'
  BY DEF NearInv
<1>1. CASE ReadValidators
  <2>1. /\ pc = "validators" /\ pc' = "save"
        /\ read' = [read EXCEPT !.validators = Elected[EraOf(session)]]
    BY <1>1 DEF ReadValidators, Throw, Goto
  <2>2. read'.era = read.era /\ read'.validators = Elected[EraOf(session)]
    BY <2>1, ReadingTyped DEF Reading, IndInv, Typed
  <2>3. EraOf(session) \in {read.era - 1, read.era} \cap Eras
    BY <2>1, ReadNear
  <2> QED BY <2>1, <2>2, <2>3 DEF NearInv
<1>2. CASE ReadPast
  <2>1. /\ pc' = "past" /\ UNCHANGED era
        /\ \/ read' = [read EXCEPT !.validators = Elected[era]]
           \/ read' = [read EXCEPT !.validators = {}]
    BY <1>2 DEF ReadPast, Throw, Goto, ValidatorsAtEra
  <2>2. read'.validators \in {Elected[era], {}}
    BY <2>1, ReadingTyped DEF Reading, IndInv, Typed
  <2> QED BY <2>1, <2>2 DEF NearInv
<1>3. CASE ~ReadValidators /\ ~ReadPast
  <2>1. pc' = pc /\ UNCHANGED <<read, era>>
    BY <1>3 DEF Next, StatsJob, StartStats, Identify, Identified, Rank, ReadSession, ReadEra,
         SaveSet, PassEra, FillEra, ErasDone, FinishStats, Throw, Goto, MarkJob, StartMarking,
         Mark, Crash, NewSession, Move, vars, statsJob
  <2> QED BY <2>1 DEF NearInv
<1> QED BY <1>1, <1>2, <1>3

LEMMA LedgerInit == Init => Ledger!Init
<1> SUFFICES ASSUME Init PROVE Ledger!Init
  OBVIOUS
<1>1. EraOf(session) \in Nat
  <2>1. FirstSession \in Nat /\ session = FirstSession
    BY Numbers DEF Init
  <2> QED BY <2>1, EraGrows
<1>2. DOMAIN sets = {} /\ seen = {} /\ Written = [e \in Eras |-> {}]
  BY NoneInHand DEF Init, Written
<1> QED BY <1>1, <1>2, SetsAssumption DEF Ledger!Init, Ledger!Eras, Eras, Written

LEMMA LedgerStutters ==
  ASSUME UNCHANGED <<session, sets, seen>>
  PROVE  UNCHANGED Ledger!ledgerVars
BY DEF Ledger!ledgerVars, EraOf

\* What an era gets in a set.
LEMMA StoredWritten ==
  ASSUME NEW e \in Eras, NEW set, sets' = Stored(e, set)
  PROVE  Written' = [Written EXCEPT ![e] = {set.validators}]
BY DEF Stored, Written

\* The set of the session: sealed in its era, else a draft of the era planned, which nobody
\* has seen yet.
LEMMA SaveWrites ==
  ASSUME IndInv, NearInv, SaveSet
  PROVE  [Ledger!Next]_(Ledger!ledgerVars)
<1>1. pc = "save" /\ UNCHANGED session
  BY DEF SaveSet, outsideStats, chain
<1>2. CASE UNCHANGED <<sets, seen>>
  BY <1>1, <1>2, LedgerStutters
<1>3. CASE ~UNCHANGED <<sets, seen>>
  <2>1. /\ sets' = Stored(read.era, [session |-> read.session, validators |-> read.validators])
        /\ seen' = IF EraOf(read.at) = read.era THEN seen \cup {read.era} ELSE seen
    BY <1>3 DEF SaveSet
\* fixed values, for what is said of them in the next state
  <2>2. PICK e \in Eras, v \in {{Elected[f]} : f \in {read.era - 1, read.era} \cap Eras} :
          e = read.era /\ v = {read.validators}
    BY <1>1, ReadNear DEF NearInv
  <2>3. Written' = [Written EXCEPT ![e] = v]
    BY <2>1, <2>2, StoredWritten
  <2>4. CASE EraOf(read.at) = e
    <3>1. v = {Elected[e]} /\ e <= EraOf(session) /\ seen' = seen \cup {e}
      BY <1>1, <2>1, <2>2, <2>4, ReadNear DEF IndInv, Typed, JobTyped, ReadInv
    <3>2. Ledger!Seal(e)
      BY <1>1, <2>3, <3>1 DEF Ledger!Seal, Written, EraOf
    <3> QED BY <3>2 DEF Ledger!Next, Ledger!Eras, Eras
  <2>5. CASE EraOf(read.at) # e
    <3>1. e <= EraOf(session) + 1 /\ EraOf(read.at) < e /\ e \in Int /\ EraOf(read.at) \in Int
      BY <1>1, <2>2, <2>5, ReadNear
    <3>2. e \notin seen
      BY <1>1, <3>1 DEF IndInv, SeenInv
    <3>3. seen' = seen
      BY <2>1, <2>2, <2>5
    <3>4. Ledger!Draft(e, v)
      BY <1>1, <2>3, <3>1, <3>2, <3>3 DEF Ledger!Draft, Written, EraOf
    <3>5. v \in {{{}}} \cup {{Elected[f]} : f \in {e - 1, e} \cap Eras}
      BY <2>2
    <3>6. \E w \in {{{}}} \cup {{Elected[f]} : f \in {e - 1, e} \cap Eras} : Ledger!Draft(e, w)
      BY <3>4, <3>5
    <3> QED BY <3>6 DEF Ledger!Next, Ledger!Eras, Eras
  <2> QED BY <2>4, <2>5
<1> QED BY <1>2, <1>3

\* An era filled in is a draft of an era that has come, with its own validators or nobody.
LEMMA FillWrites ==
  ASSUME IndInv, NearInv, FillEra
  PROVE  [Ledger!Next]_(Ledger!ledgerVars)
<1>1. /\ pc = "past" /\ InReach /\ era \notin DOMAIN sets /\ era >= 1
      /\ UNCHANGED <<session, seen>>
  BY DEF FillEra, outsideStats, chain, IndInv, Typed, JobTyped, ReadInv, PastInv
<1>2. CASE UNCHANGED sets
  BY <1>1, <1>2, LedgerStutters
<1>3. CASE ~UNCHANGED sets
  <2>1. PICK s \in SessionsAtEra(era) :
          sets' = Stored(era, [session |-> s, validators |-> read.validators])
    BY <1>3 DEF FillEra
\* fixed values, for what is said of them in the next state
  <2>2. PICK e \in Eras, v \in {{Elected[era]}, {{}}} : e = era /\ v = {read.validators}
    BY <1>1, EraNumbers DEF IndInv, Typed, NearInv
  <2>3. Written' = [Written EXCEPT ![e] = v]
    BY <2>1, <2>2, StoredWritten
  <2>4. e <= EraOf(session) + 1
    <3>1. s \in Nat /\ s <= session /\ session \in Nat /\ EraOf(s) = e
      BY <2>1, <2>2, SessionTyped DEF SessionsAtEra, IndInv, Typed
    <3>2. EraOf(s) <= EraOf(session) /\ EraOf(s) \in Nat /\ EraOf(session) \in Nat
      BY <3>1, EraGrows
    <3> QED BY <3>1, <3>2
  <2>5. e \notin seen
    BY <1>1, <2>2 DEF IndInv, SeenInv, SeenErasAreTrue
  <2>6. Ledger!Draft(e, v)
    BY <1>1, <2>3, <2>4, <2>5 DEF Ledger!Draft, Written, EraOf
  <2>7. v \in {{{}}} \cup {{Elected[f]} : f \in {e - 1, e} \cap Eras}
    BY <2>2
  <2>8. \E w \in {{{}}} \cup {{Elected[f]} : f \in {e - 1, e} \cap Eras} : Ledger!Draft(e, w)
    BY <2>6, <2>7
  <2> QED BY <2>8 DEF Ledger!Next, Ledger!Eras, Eras
<1> QED BY <1>2, <1>3

LEMMA LedgerNext ==
  IndInv /\ NearInv /\ [Next]_vars => [Ledger!Next]_(Ledger!ledgerVars)
<1> SUFFICES ASSUME IndInv, NearInv, [Next]_vars PROVE [Ledger!Next]_(Ledger!ledgerVars)
  OBVIOUS
<1>1. CASE NewSession
  <2>1. session \in Nat /\ session' = session + 1 /\ UNCHANGED <<sets, seen>>
    BY <1>1, SessionTyped DEF NewSession, db, IndInv, Typed
  <2>2. EraOf(session + 1) \in Nat /\ EraOf(session) \in Nat /\ EraOf(session) <= EraOf(session + 1)
    BY <2>1, EraGrows
  <2>3. EraOf(session)' = EraOf(session + 1)
    BY <2>1 DEF EraOf
  <2>4. CASE EraOf(session + 1) = EraOf(session)
    BY <2>1, <2>3, <2>4 DEF Ledger!ledgerVars
  <2>5. CASE EraOf(session + 1) # EraOf(session)
    <3>1. EraOf(session)' \in Nat /\ EraOf(session)' > EraOf(session)
      BY <2>2, <2>3, <2>5
    <3>2. Ledger!Tick
      BY <2>1, <3>1 DEF Ledger!Tick
    <3> QED BY <3>2 DEF Ledger!Next
  <2> QED BY <2>4, <2>5
<1>2. CASE ~NewSession /\ ~SaveSet /\ ~FillEra
  <2>1. UNCHANGED <<session, sets, seen>>
    BY <1>2 DEF Next, StatsJob, StartStats, Identify, Identified, Rank, ReadSession, ReadEra,
         ReadValidators, PassEra, ReadPast, ErasDone, FinishStats, MarkJob, StartMarking, Mark, Crash, Move,
         outsideStats, vars, chain, db
  <2> QED BY <2>1, LedgerStutters
<1> QED BY <1>1, <1>2, SaveWrites, FillWrites

\* For any elections, sessions and failures, the era statistics job implements the ledger: what
\* it stores of an era are its validators, those of the era before or nobody, at most one era early,
\* and a set that was seen in its own era is never replaced by another.
THEOREM KeepsLedger == Spec => ImplementsLedger
BY InitInv, NextInv, NearInvInit, NearInvNext, LedgerInit, LedgerNext, PTL
   DEF Spec, ImplementsLedger, Ledger!Spec
=============================================================================
