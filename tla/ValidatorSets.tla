---------------------------- MODULE ValidatorSets ----------------------------
(***************************************************************************)
(* Who validates, and for whom a candidate counts.  The era statistics job *)
(* stores the identity of each candidate, the validators of the present    *)
(* session under the era that is current, those of earlier eras that are   *)
(* not stored yet, and each candidate's rank: the number of stored eras in *)
(* which an account of its identity validated.  The active validator job   *)
(* marks the candidates of the latest stored set.                          *)
(*                                                                         *)
(* Session, era and validators are three queries, and the current era is   *)
(* the planned one, which in the last session of an era is the next: then  *)
(* the validators are stored under an era that is not theirs.              *)
(*                                                                         *)
(* Every query may fail and the process may die.  The search for a block   *)
(* of an era is that of EraStatistics: here it finds one, or, while the    *)
(* chain is young, may end before the first block without one.  Validators *)
(* and session of an earlier era are two such searches, of which one may   *)
(* find a block and the other not.  Left out: the counts of candidates     *)
(* stored per era, and the details of an identity.                         *)
(***************************************************************************)
EXTENDS Integers, FiniteSets, SequencesExt

CONSTANTS
  Candidates,      \* in the order of the collection
  Accounts,        \* the accounts that may have an identity
  NameOf,          \* the names in them, None when there is none
  Family,          \* the accounts each one may be a sub-account of, itself for its own identity
  FirstParents,    \* the identities there may be at first
  Elected,         \* the validators of each era
  SessionsPerEra,
  FirstSession, MaxSession, \* bound: the sessions
  YoungUntil,      \* the last session in which a search may find no block
  Depth,           \* 20, the eras the job goes back
  MaxMoves,        \* bound: how often identities change
  MaxFaults,       \* bound: how many queries fail, or times the process dies
  None

Cands == Range(Candidates)
Eras  == DOMAIN Elected

ASSUME SetsAssumption ==
  /\ Candidates \in Seq(Cands) /\ IsInjective(Candidates)
  /\ Cands \subseteq Accounts /\ None \notin Accounts
  /\ DOMAIN NameOf = Accounts /\ Family \in [Accounts -> SUBSET Accounts]
  /\ FirstParents \subseteq [Accounts -> Accounts \cup {None}]
  /\ YoungUntil \in Nat /\ YoungUntil < MaxSession
  /\ SessionsPerEra \in Nat \ {0} /\ Depth \in Nat \ {0}
  /\ FirstSession \in SessionsPerEra .. MaxSession /\ MaxSession \in Nat
  /\ Eras = 1 .. (MaxSession + 1) \div SessionsPerEra
  /\ \A e \in Eras : Elected[e] # {}
  /\ MaxMoves \in Nat /\ MaxFaults \in Nat

VARIABLES
  session,     \* chain: the session
  parentOf,    \* chain: the account whose identity an account has
  identities,  \* database: Identity records, in the order they were made
  identity,    \* database: the copy each candidate has of its own
  sets,        \* database: the ValidatorSet of an era
  rank,        \* database: of each candidate
  active,      \* database: of each candidate
  pc,          \* era statistics job: where it is,
  todo,        \*   the candidates it has still to do,
  read,        \*   the session, era and validators it read, and the session of the chain then,
  era,         \*   and the earlier era in hand
  toMark,      \* active validator job: the candidates it has still to do
  seen,        \* history: the eras stored from queries that were all made in them
  moves, faults

chain     == <<session, parentOf, moves>>
db        == <<identities, identity, sets, rank, active>>
statsJob  == <<pc, todo, read, era>>
vars      == <<chain, db, statsJob, toMark, seen, faults>>

Nothing == [session |-> 0, era |-> 0, at |-> 0, validators |-> {}]

Init ==
  /\ session = FirstSession /\ parentOf \in FirstParents
  /\ identities = <<>> /\ identity = [c \in Cands |-> None] /\ sets = <<>>
  /\ rank = [c \in Cands |-> 0] /\ active = [c \in Cands |-> FALSE]
  /\ pc = "idle" /\ todo = <<>> /\ read = Nothing /\ era = 0
  /\ toMark = <<>> /\ seen = {} /\ moves = 0 /\ faults = 0

Fault   == faults < MaxFaults /\ faults' = faults + 1
NoFault == UNCHANGED faults
-----------------------------------------------------------------------------
(* The chain.                                                              *)

EraOf(s) == s \div SessionsPerEra

\* The current era, for the chain, is the one of the session that comes next.
Planned(s) == EraOf(s + 1)

\* A session outlasts a query: no two of them begin between reading era and validators.
NewSession ==
  /\ session < MaxSession /\ (pc = "validators" => session = read.at)
  /\ session' = session + 1
  /\ UNCHANGED <<parentOf, moves, db, statsJob, toMark, seen, faults>>

\* An account gets, leaves or changes its identity.
Move(a) ==
  /\ moves < MaxMoves /\ moves' = moves + 1
  /\ \E p \in Family[a] \cup {None} :
       /\ parentOf' = [parentOf EXCEPT ![a] = p]
       /\ \A b \in Accounts : parentOf'[b] # None => parentOf'[parentOf'[b]] = parentOf'[b]
  /\ UNCHANGED <<session, db, statsJob, toMark, seen, faults>>

\* getFormattedIdentity: the identity an account has or is a sub-account of.
OnChain(a) ==
  LET p == parentOf[a]
  IN  IF p = None THEN None
      ELSE [name |-> NameOf[p], address |-> p, subs |-> {b \in Accounts \ {p} : parentOf[b] = p}]
-----------------------------------------------------------------------------
(* Identity records.                                                       *)

Docs == DOMAIN identities

\* findOne: the first record that fits, 0 when there is none.
First(is) == IF is = {} THEN 0 ELSE Min(is)

\* getIdentity: the record of the account's own identity, else one that has it as a
\* sub-account.
RecordOf(docs, a) ==
  LET own == {i \in DOMAIN docs : docs[i].address = a}
      sub == {i \in DOMAIN docs : a \in docs[i].subs}
      i   == First(IF own # {} THEN own ELSE sub)
  IN  IF i = 0 THEN None ELSE docs[i]

\* setIdentity: without a name nothing; else a record is made or, when one of the name is
\* there, becomes the new one.
SetIdentity(doc) ==
  LET i == First({k \in Docs : identities[k].name = doc.name})
  IN  IF doc.name = None THEN identities
      ELSE IF i = 0 THEN Append(identities, doc) ELSE [identities EXCEPT ![i] = doc]

\* setCandidateIdentity: what is found by the address is not looked at again.
SetCandidateIdentity(c, doc) ==
  /\ identities' = IF RecordOf(identities, c) = None THEN SetIdentity(doc) ELSE identities
  /\ identity' = [identity EXCEPT ![c] = RecordOf(identities', c)]

\* getIdentityAddresses
AddressesOf(a) ==
  LET doc == RecordOf(identities, a) IN IF doc = None THEN {} ELSE {doc.address} \cup doc.subs
-----------------------------------------------------------------------------
(* The era statistics job.                                                 *)

outsideStats == <<chain, active, toMark>>

Goto(at) == pc' = at

\* A query that throws ends the run.
Throw == Fault /\ Goto("idle") /\ todo' = <<>> /\ read' = Nothing /\ era' = 0

StartStats ==
  /\ pc = "idle" /\ Goto("identities") /\ todo' = Candidates
  /\ UNCHANGED <<outsideStats, identities, identity, sets, rank, read, era, seen, faults>>

\* setAllIdentities.  Without a connection, or when the database fails, a candidate is
\* passed by; a query that throws ends the loop, not the run.
Identify ==
  /\ pc = "identities" /\ todo # <<>>
  /\ LET c == Head(todo) IN
     \/ /\ NoFault /\ todo' = Tail(todo)
        /\ IF OnChain(c) = None THEN UNCHANGED <<identities, identity>>
           ELSE SetCandidateIdentity(c, OnChain(c))
     \/ Fault /\ todo' \in {Tail(todo), <<>>} /\ UNCHANGED <<identities, identity>>
  /\ UNCHANGED <<outsideStats, sets, rank, pc, read, era, seen>>

Identified ==
  /\ pc = "identities" /\ todo = <<>>
  /\ Goto("ranksBefore") /\ todo' = Candidates
  /\ UNCHANGED <<outsideStats, identities, identity, sets, rank, read, era, seen, faults>>

\* getIdentityValidatorActiveEras
ActiveErasOf(c) ==
  Cardinality({e \in DOMAIN sets : sets[e].validators \cap AddressesOf(c) # {}})

SetRank(c, eras) == rank' = [rank EXCEPT ![c] = eras]

\* setValidatorRanks, before and after the sets.
Rank ==
  /\ pc \in {"ranksBefore", "ranksAfter"} /\ todo # <<>>
  /\ \/ /\ NoFault /\ todo' = Tail(todo)
        /\ SetRank(Head(todo), ActiveErasOf(Head(todo)))
        /\ UNCHANGED <<pc, read, era>>
     \/ Throw /\ UNCHANGED rank
  /\ UNCHANGED <<outsideStats, identities, identity, sets, seen>>

ReadSession ==
  /\ pc = "ranksBefore" /\ todo = <<>>
  /\ \/ NoFault /\ Goto("era") /\ read' = [read EXCEPT !.session = session]
                /\ UNCHANGED <<todo, era>>
     \/ Throw
  /\ UNCHANGED <<outsideStats, identities, identity, rank, sets, seen>>

ReadEra ==
  /\ pc = "era"
  /\ \/ NoFault /\ Goto("validators")
                /\ read' = [read EXCEPT !.era = Planned(session), !.at = session]
                /\ UNCHANGED <<todo, era>>
     \/ Throw
  /\ UNCHANGED <<outsideStats, identities, identity, rank, sets, seen>>

ReadValidators ==
  /\ pc = "validators"
  /\ \/ NoFault /\ Goto("save")
                /\ read' = [read EXCEPT !.validators = Elected[EraOf(session)]]
                /\ UNCHANGED <<todo, era>>
     \/ Throw
  /\ UNCHANGED <<outsideStats, identities, identity, rank, sets, seen>>

\* (Variant: a set that is there stays.)
StoredOnce(e, set) ==
  [f \in DOMAIN sets \cup {e} |-> IF f \in DOMAIN sets THEN sets[f] ELSE set]

\* setValidatorSet: the set of the era is made, or becomes the new one.
Stored(e, set) ==
  [f \in DOMAIN sets \cup {e} |-> IF f = e THEN set ELSE sets[f]]

SaveSet ==
  /\ pc = "save"
  /\ \/ /\ NoFault /\ Goto("eras") /\ era' = read.era /\ UNCHANGED <<todo, read>>
        /\ sets' = Stored(read.era, [session |-> read.session, validators |-> read.validators])
        /\ seen' = IF EraOf(read.at) = read.era THEN seen \cup {read.era} ELSE seen
     \/ Throw /\ UNCHANGED <<sets, seen>>
  /\ UNCHANGED <<outsideStats, identities, identity, rank>>

InReach == era > read.era - Depth

\* An era that is stored is passed by, and so is one before the first.
PassEra ==
  /\ pc = "eras" /\ InReach /\ (era \in DOMAIN sets \/ era < 1)
  /\ era' = era - 1
  /\ UNCHANGED <<outsideStats, identities, identity, sets, rank, pc, todo, read, seen, faults>>

\* (Variant: not at a block of the era.)
ValidatorsNow(e) == Elected[EraOf(session)]

\* getValidatorsAtEra, at a block somewhere in the era.
ValidatorsAtEra(e) == Elected[e]

\* getSessionAtEra: that of the block.
SessionsAtEra(e) == {s \in 1 .. session : EraOf(s) = e}

\* findEraBlockHash may find no block of an era; of one that has not begun it finds none.
MayMiss(e)  == session <= YoungUntil \/ SessionsAtEra(e) = {}
MayFind(e)  == SessionsAtEra(e) # {}

\* Without a block there are no validators, which is not taken for an error.
ReadPast ==
  /\ pc = "eras" /\ InReach /\ era \notin DOMAIN sets /\ era >= 1
  /\ \/ /\ NoFault /\ Goto("past") /\ UNCHANGED <<todo, era>>
        /\ \/ MayFind(era) /\ read' = [read EXCEPT !.validators = ValidatorsAtEra(era)]
           \/ MayMiss(era) /\ read' = [read EXCEPT !.validators = {}]
     \/ Throw
  /\ UNCHANGED <<outsideStats, identities, identity, sets, rank, seen>>

\* Without a session the era is passed by.
FillEra ==
  /\ pc = "past"
  /\ \/ /\ NoFault /\ Goto("eras") /\ era' = era - 1 /\ UNCHANGED <<todo, read>>
        /\ \/ \E s \in SessionsAtEra(era) :
                sets' = Stored(era, [session |-> s, validators |-> read.validators])
           \/ MayMiss(era) /\ UNCHANGED sets
     \/ Throw /\ UNCHANGED sets
  /\ UNCHANGED <<outsideStats, identities, identity, rank, seen>>

ErasDone ==
  /\ pc = "eras" /\ ~InReach
  /\ Goto("ranksAfter") /\ todo' = Candidates /\ era' = 0 /\ read' = Nothing
  /\ UNCHANGED <<outsideStats, identities, identity, sets, rank, seen, faults>>

FinishStats ==
  /\ pc = "ranksAfter" /\ todo = <<>> /\ Goto("idle")
  /\ UNCHANGED <<outsideStats, identities, identity, sets, rank, todo, read, era, seen, faults>>

StatsJob ==
  \/ StartStats \/ Identify \/ Identified \/ Rank \/ ReadSession \/ ReadEra \/ ReadValidators
  \/ SaveSet \/ PassEra \/ ReadPast \/ FillEra \/ ErasDone \/ FinishStats
-----------------------------------------------------------------------------
(* The active validator job.                                               *)

StartMarking ==
  /\ toMark = <<>> /\ toMark' = Candidates
  /\ UNCHANGED <<chain, db, statsJob, seen, faults>>

\* (Variant: one of those with the lowest.)
OldestSets ==
  {sets[e] : e \in {f \in DOMAIN sets : \A g \in DOMAIN sets : sets[g].session >= sets[f].session}}

\* getLatestValidatorSet: one of the sets with the highest session.
LatestSets ==
  {sets[e] : e \in {f \in DOMAIN sets : \A g \in DOMAIN sets : sets[g].session <= sets[f].session}}

SetActive(c, is) == active' = [active EXCEPT ![c] = is]

\* Nothing changes without a set, or when a query fails.
Mark ==
  /\ toMark # <<>> /\ toMark' = Tail(toMark)
  /\ \/ /\ NoFault
        /\ IF sets = <<>> THEN UNCHANGED active
           ELSE \E set \in LatestSets : SetActive(Head(toMark), Head(toMark) \in set.validators)
     \/ Fault /\ UNCHANGED active
  /\ UNCHANGED <<chain, identities, identity, sets, rank, statsJob, seen>>

MarkJob == StartMarking \/ Mark
-----------------------------------------------------------------------------
\* What a start leaves of the identity records: deleteAllIdentities, unless an earlier query
\* of cleanDB fails.
Cleaned == {<<>>, identities}

\* The process is killed and started again.
Crash ==
  /\ Throw /\ toMark' = <<>> /\ identities' \in Cleaned
  /\ UNCHANGED <<chain, identity, sets, rank, active, seen>>

Next == \/ StatsJob \/ MarkJob \/ Crash \/ NewSession
        \/ \E a \in Accounts : Move(a)

\* Cron starts both jobs again and again and their queries return.
Fairness == WF_vars(StatsJob) /\ WF_vars(MarkJob) /\ WF_vars(NewSession)

Spec == Init /\ [][Next]_vars /\ Fairness
-----------------------------------------------------------------------------
(* Properties.                                                             *)

Identity == [name : Range(NameOf), address : Accounts, subs : SUBSET Accounts]

\* Every variable holds a value of its kind; a job that does not run has nothing in hand.
TypeOK ==
  /\ session \in FirstSession .. MaxSession /\ parentOf \in [Accounts -> Accounts \cup {None}]
  /\ identities \in Seq(Identity) /\ identity \in [Cands -> Identity \cup {None}]
  /\ DOMAIN sets \subseteq Eras
  /\ \A e \in DOMAIN sets : sets[e].session \in 1 .. MaxSession
  /\ rank \in [Cands -> 0 .. Cardinality(Eras)] /\ active \in [Cands -> BOOLEAN]
  /\ pc \in {"idle", "identities", "ranksBefore", "era", "validators", "save", "eras", "past",
             "ranksAfter"}
  /\ todo \in Seq(Cands) /\ toMark \in Seq(Cands) /\ seen \subseteq Eras
  /\ pc \in {"eras", "past"} => era \in read.era - Depth .. read.era
  /\ pc \notin {"eras", "past"} => era = 0
  /\ pc = "idle" => todo = <<>> /\ read = Nothing
  /\ moves \in 0 .. MaxMoves /\ faults \in 0 .. MaxFaults

\* A set stored under an era that was only planned is replaced by the first run that falls
\* in the era, and no later one spoils it: not one whose queries are before and after the
\* beginning of a session, nor one that died or failed half way (eraStatsJob).
SeenErasAreTrue == \A e \in seen : e \in DOMAIN sets /\ sets[e].validators = Elected[e]

Ledger == INSTANCE EraLedger WITH
  Truth  <- [e \in Eras |-> {Elected[e]}],
  Drafts <- [e \in Eras |-> {{{}}} \cup {{Elected[f]} : f \in {e - 1, e} \cap Eras}],
  Ahead  <- 1,
  now    <- EraOf(session),
  ledger <- [e \in Eras |-> IF e \in DOMAIN sets THEN {sets[e].validators} ELSE {}],
  sealed <- seen

\* However a run straddles sessions and eras, what it stores under an era are the validators of
\* that era or of the one before, or nobody when it found no block, at most one era early, and
\* never in the place of a set that was seen in its own era (setValidatorSet): the job
\* implements the ledger.
ImplementsLedger == Ledger!Spec

\* In the end the eras back to the depth have a set, the candidates marked active are
\* the validators of the session, although the latest set is chosen by a session read before
\* its era and its validators, and ranks and identities are those the stored records give,
\* however identities changed and whatever failed.  An identity without a name may give none.
StandingCatchesUp ==
  <>[](/\ Eras \cap (Planned(session) - Depth + 1 .. Planned(session)) \subseteq DOMAIN sets
       /\ \A c \in Cands :
            /\ active[c] = (c \in Elected[EraOf(session)])
            /\ rank[c] = ActiveErasOf(c)
            /\ OnChain(c) # None =>
                 /\ identity[c] = RecordOf(identities, c)
                 /\ OnChain(c).name # None => identity[c] # None)
=============================================================================
