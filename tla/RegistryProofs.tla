---------------------------- MODULE RegistryProofs ----------------------------
(***************************************************************************)
(* Proofs about CandidateRegistry, for any files, names and events and any *)
(* number of starts, nodes, sessions and failures.                         *)
(***************************************************************************)
EXTENDS CandidateRegistry, TLAPS, SequenceTheorems, FiniteSetTheorems

\* No file has two candidates of one slot or of one name.
DistinctEntries ==
  \A cfg \in Configs : \A i, j \in DOMAIN cfg :
    cfg[i].slot = cfg[j].slot \/ cfg[i].name = cfg[j].name => i = j

BootTyped ==
  /\ phase \in {"down", "clean", "clear", "add", "up"}
  /\ config \in Configs \cup {<<>>}
  /\ IF phase = "clear" THEN todo \in Seq(Names) ELSE todo \in Seq(Entries)
  /\ boots \in 0 .. MaxBoots /\ failures \in 0 .. MaxFailures

NodesTyped ==
  telemetryRefs \in [Names -> Nat \cup {Null}] /\ nodes \in [Names -> 0 .. MaxNodes]

HandlerTyped ==
  /\ session \in 1 .. MaxSession /\ sessionRead \in 0 .. MaxSession
  /\ offline \in Offences \cup {<<>>} /\ pos \in 1 .. Len(offline) + 1
  /\ step \in {"idle", "session", "find", "push"} /\ reason \in Reasons \cup {<<>>}
  /\ step = "push" => reason \in Reasons /\ pos \in 1 .. Len(offline)

HistoryTyped == left \in [Names -> Nat] /\ collided \subseteq Entries

\* A node is counted by the candidate of its name or, when there is none, by a telemetry
\* node; and before the process listens, nothing is counted
\* but what the cleaning left.
Counted(n) ==
  /\ phase # "up" => nodes[n] = 0
  /\ phase \in {"clear", "add"} =>
       left[n] = IF telemetryRefs[n] = Null THEN 0 ELSE telemetryRefs[n]
  /\ phase = "up" =>
       /\ telemetryRefs[n] # Null => telemetryRefs[n] = nodes[n] + left[n]
       /\ telemetryRefs[n] = Null /\ With("name", n) = {} => nodes[n] = 0 /\ left[n] = 0
       /\ nodes[n] > 0 /\ With("name", n) # {} => telemetryRefs[n] = Null
CountedInv == \A n \in Names : Counted(n)

Typed == BootTyped /\ docs \in Seq(Doc) /\ NodesTyped /\ HandlerTyped /\ HistoryTyped
TypedInv == Typed /\ CountedInv

Triple(d)     == <<d.slot, d.name, d.stash>>
ActiveTriples == {Triple(docs[i]) : i \in Active(docs)}

\* The entries of the file up to position m.
FileUpTo(m) == {Triple(config[i]) : i \in 1 .. m}
Handled     == Len(config) - Len(todo)

\* The stashes of the records still to be cleared are all that is left of the last file.
ClearInv ==
  phase = "clear" /\ collided = {} =>
    \A i \in Active(docs) : \E k \in DOMAIN todo : todo[k] = docs[i].name

\* What is left to add is the end of the file, and what is before it is there, but for failures.
AddInv ==
  phase = "add" /\ collided = {} =>
    /\ Len(todo) <= Len(config)
    /\ \A i \in 1 .. Len(todo) : todo[i] = config[Handled + i]
    /\ ActiveTriples \subseteq FileUpTo(Handled)
    /\ IsFiniteSet(FileUpTo(Handled) \ ActiveTriples)
    /\ Cardinality(FileUpTo(Handled) \ ActiveTriples) <= failures

\* The inductive invariant.
IndInv == TypedInv /\ OneRecordPerCandidate /\ ClearInv /\ AddInv /\ UpMeansConfigured
-----------------------------------------------------------------------------
(* Records, entries, and the first record that fits.                       *)

LEMMA LeastOf ==
  ASSUME NEW S, S \subseteq Nat, S # {}
  PROVE  \E i \in S : \A j \in S : i <= j
<1> DEFINE R == OpToRel(<, Nat)
<1>1. IsWellFoundedOn(R, Nat)
  BY NatLessThanWellFounded
<1>2. \A i, j \in Nat : j < i => <<j, i>> \in R
  BY DEF OpToRel
<1> HIDE DEF R
<1>3. PICK i \in S : \A j \in S : ~ (<<j, i>> \in R)
  BY <1>1, WFMin
<1>4. ASSUME NEW j \in S PROVE i <= j
  <2>1. i \in Nat /\ j \in Nat
    OBVIOUS
  <2>2. ~ (j < i)
    BY <1>2, <1>3, <2>1
  <2> QED BY <2>1, <2>2
<1> QED BY <1>4

LEMMA FirstIs ==
  ASSUME NEW S, S \subseteq Nat \ {0}
  PROVE  /\ First(S) = 0 <=> S = {}
         /\ S # {} => First(S) \in S
<1>1. CASE S = {}
  BY <1>1 DEF First
<1>2. CASE S # {}
  <2>1. \E i \in S : \A j \in S : i <= j
    BY <1>2, LeastOf
  <2>2. First(S) \in S
    BY <1>2, <2>1 DEF First
  <2> QED BY <1>2, <2>2
<1> QED BY <1>1, <1>2

LEMMA EntryFields ==
  ASSUME NEW e \in Entries
  PROVE  /\ e.slot \in Slots /\ e.name \in Names /\ e.stash \in Stashes
         /\ e = [slot |-> e.slot, name |-> e.name, stash |-> e.stash]
<1>1. e.slot \in Slots /\ e.name \in Names /\ e.stash \in Stashes
  BY DEF Slots, Names, Stashes
<1>2. PICK cfg \in Configs : \E i \in DOMAIN cfg : e = cfg[i]
  BY DEF Entries
<1>3. cfg \in Seq([slot : Slots, name : Names, stash : Stashes])
  BY RegistryAssumption
<1>4. PICK i \in DOMAIN cfg : e = cfg[i]
  BY <1>2
<1>5. i \in 1 .. Len(cfg)
  BY <1>3, LenProperties
<1>6. e \in [slot : Slots, name : Names, stash : Stashes]
  BY <1>3, <1>4, <1>5, ElementOfSeq
<1> QED BY <1>1, <1>6

LEMMA FileIsEntries ==
  ASSUME NEW cfg \in Configs \cup {<<>>}
  PROVE  cfg \in Seq(Entries)
<1>1. CASE cfg = <<>>
  BY <1>1, EmptySeq
<1>2. CASE cfg \in Configs
  <2>1. cfg \in Seq([slot : Slots, name : Names, stash : Stashes])
    BY <1>2, RegistryAssumption
  <2>2. Len(cfg) \in Nat /\ DOMAIN cfg = 1 .. Len(cfg) /\ cfg = [i \in 1 .. Len(cfg) |-> cfg[i]]
    BY <2>1, LenProperties
  <2>3. \A i \in 1 .. Len(cfg) : cfg[i] \in Entries
    BY <1>2, <2>2 DEF Entries
  <2>4. cfg \in [1 .. Len(cfg) -> Entries]
    BY <2>2, <2>3
  <2> QED BY <2>2, <2>4, SeqDef
<1> QED BY <1>1, <1>2

LEMMA DocsDomain ==
  ASSUME docs \in Seq(Doc)
  PROVE  /\ Len(docs) \in Nat /\ DOMAIN docs = 1 .. Len(docs)
         /\ DOMAIN docs \subseteq Nat \ {0}
         /\ \A i \in DOMAIN docs : docs[i] \in Doc
BY LenProperties, ElementOfSeq

LEMMA DocFields ==
  ASSUME NEW d \in Doc
  PROVE  /\ d.slot \in Slots /\ d.name \in Names /\ d.stash \in Stashes \cup {Null}
         /\ d.refs \in Nat \cup {Null} /\ d.faults \in Seq(Reasons)
BY DEF Doc

\* What a query by name or by stash answers.
LEMMA FoundByName ==
  ASSUME docs \in Seq(Doc), NEW n
  PROVE  /\ ByName(n) = 0 <=> \A i \in DOMAIN docs : docs[i].name # n
         /\ ByName(n) # 0 => ByName(n) \in DOMAIN docs /\ docs[ByName(n)].name = n
         /\ ByName(n) = 0 <=> With("name", n) = {}
<1>1. With("name", n) = {i \in DOMAIN docs : docs[i].name = n}
  BY DEF With
<1>2. With("name", n) \subseteq Nat \ {0}
  BY <1>1, DocsDomain
<1>3. /\ First(With("name", n)) = 0 <=> With("name", n) = {}
      /\ With("name", n) # {} => First(With("name", n)) \in With("name", n)
  BY <1>2, FirstIs
<1> QED BY <1>1, <1>3 DEF ByName

LEMMA FoundByStash ==
  ASSUME docs \in Seq(Doc), NEW v
  PROVE  ByStash(v) # 0 => ByStash(v) \in DOMAIN docs
<1>1. With("stash", v) = {i \in DOMAIN docs : docs[i].stash = v}
  BY DEF With
<1>2. With("stash", v) \subseteq Nat \ {0}
  BY <1>1, DocsDomain
<1>3. First(With("stash", v)) # 0 => First(With("stash", v)) \in With("stash", v)
  BY <1>2, FirstIs
<1> QED BY <1>1, <1>3 DEF ByStash

\* One record becomes d.
LEMMA OneDoc ==
  ASSUME docs \in Seq(Doc), NEW i \in DOMAIN docs, NEW d \in Doc, docs' = [docs EXCEPT ![i] = d]
  PROVE  /\ docs' \in Seq(Doc) /\ DOMAIN docs' = DOMAIN docs
         /\ docs'[i] = d /\ \A j \in DOMAIN docs \ {i} : docs'[j] = docs[j]
<1>1. i \in 1 .. Len(docs) /\ DOMAIN docs = 1 .. Len(docs)
  BY DocsDomain
<1>2. /\ docs' \in Seq(Doc) /\ Len(docs') = Len(docs)
      /\ \A j \in 1 .. Len(docs) : docs'[j] = IF j = i THEN d ELSE docs[j]
  BY <1>1, ExceptSeq
<1> QED BY <1>1, <1>2, LenProperties

\* A record is appended.
LEMMA NewDoc ==
  ASSUME docs \in Seq(Doc), NEW d \in Doc, docs' = Append(docs, d)
  PROVE  /\ docs' \in Seq(Doc) /\ DOMAIN docs' = DOMAIN docs \cup {Len(docs) + 1}
         /\ Len(docs) + 1 \notin DOMAIN docs
         /\ docs'[Len(docs) + 1] = d /\ \A j \in DOMAIN docs : docs'[j] = docs[j]
<1>1. DOMAIN docs = 1 .. Len(docs) /\ Len(docs) \in Nat
  BY DocsDomain
<1>2. /\ docs' \in Seq(Doc) /\ Len(docs') = Len(docs) + 1
      /\ docs'[Len(docs) + 1] = d /\ \A j \in 1 .. Len(docs) : docs'[j] = docs[j]
  BY <1>1, AppendProperties
<1>3. DOMAIN docs' = 1 .. Len(docs) + 1
  BY <1>2
<1>4. DOMAIN docs' = DOMAIN docs \cup {Len(docs) + 1} /\ Len(docs) + 1 \notin DOMAIN docs
  BY <1>1, <1>3
<1> QED BY <1>1, <1>2, <1>4

\* The ways one record changes.
LEMMA DocRefs ==
  ASSUME NEW d \in Doc, NEW r \in Nat \cup {Null}
  PROVE  /\ [d EXCEPT !.refs = r] \in Doc /\ [d EXCEPT !.refs = r].slot = d.slot
         /\ [d EXCEPT !.refs = r].name = d.name /\ [d EXCEPT !.refs = r].stash = d.stash
         /\ [d EXCEPT !.refs = r].faults = d.faults
BY DEF Doc

LEMMA DocFaults ==
  ASSUME NEW d \in Doc, NEW f \in Seq(Reasons)
  PROVE  /\ [d EXCEPT !.faults = f] \in Doc /\ [d EXCEPT !.faults = f].slot = d.slot
         /\ [d EXCEPT !.faults = f].name = d.name /\ [d EXCEPT !.faults = f].stash = d.stash
         /\ [d EXCEPT !.faults = f].faults = f
BY DEF Doc

LEMMA DocStash ==
  ASSUME NEW d \in Doc
  PROVE  /\ [d EXCEPT !.stash = Null] \in Doc /\ [d EXCEPT !.stash = Null].slot = d.slot
         /\ [d EXCEPT !.stash = Null].name = d.name /\ [d EXCEPT !.stash = Null].stash = Null
         /\ [d EXCEPT !.stash = Null].faults = d.faults
BY DEF Doc

LEMMA DocNew ==
  ASSUME NEW e \in Entries
  PROVE  /\ New(e) \in Doc /\ New(e).slot = e.slot /\ New(e).name = e.name
         /\ New(e).stash = e.stash
<1>1. <<>> \in Seq(Reasons)
  BY EmptySeq
<1> QED BY <1>1, EntryFields DEF New, Doc

LEMMA DocUpdated ==
  ASSUME NEW e \in Entries, NEW d \in Doc
  PROVE  /\ Updated(d, e) \in Doc /\ Updated(d, e).slot = e.slot /\ Updated(d, e).name = e.name
         /\ Updated(d, e).stash = e.stash /\ Updated(d, e).faults = d.faults
BY EntryFields DEF Updated, Doc
-----------------------------------------------------------------------------
(* What a step does to the records.                                        *)

\* No record comes or goes, each keeps its slot, name and stash, and its faults are kept.
Steady ==
  /\ docs' \in Seq(Doc) /\ DOMAIN docs' = DOMAIN docs
  /\ \A i \in DOMAIN docs :
       /\ docs'[i].slot = docs[i].slot /\ docs'[i].name = docs[i].name
       /\ docs'[i].stash = docs[i].stash /\ IsPrefix(docs[i].faults, docs'[i].faults)

LEMMA PrefixOf ==
  ASSUME NEW s \in Seq(Reasons)
  PROVE  IsPrefix(s, s) /\ \A e \in Reasons : IsPrefix(s, Append(s, e))
<1>1. IsPrefix(s, s)
  BY DEF IsPrefix
<1>2. ASSUME NEW e \in Reasons
      PROVE  IsPrefix(s, Append(s, e))
  <2>1. Append(s, e) \in Seq(Reasons) /\ Len(Append(s, e)) = Len(s) + 1
    OBVIOUS
  <2>2. SubSeq(Append(s, e), 1, Len(s)) = SubSeq(s, 1, Len(s))
    OBVIOUS
  <2> QED BY <2>1, <2>2 DEF IsPrefix
<1> QED BY <1>1, <1>2

LEMMA SteadyNone ==
  ASSUME docs \in Seq(Doc), UNCHANGED docs
  PROVE  Steady
BY DocsDomain, DocFields, PrefixOf DEF Steady

\* One record changes in nothing but its references or its faults.
LEMMA SteadyOne ==
  ASSUME docs \in Seq(Doc), NEW i \in DOMAIN docs, NEW d \in Doc, docs' = [docs EXCEPT ![i] = d],
         d.slot = docs[i].slot, d.name = docs[i].name, d.stash = docs[i].stash,
         IsPrefix(docs[i].faults, d.faults)
  PROVE  Steady
<1>1. /\ docs' \in Seq(Doc) /\ DOMAIN docs' = DOMAIN docs
      /\ docs'[i] = d /\ \A j \in DOMAIN docs \ {i} : docs'[j] = docs[j]
  BY OneDoc
<1>2. ASSUME NEW j \in DOMAIN docs, j # i
      PROVE  docs'[j] = docs[j] /\ IsPrefix(docs[j].faults, docs[j].faults)
  BY <1>1, <1>2, DocsDomain, DocFields, PrefixOf
<1> QED BY <1>1, <1>2 DEF Steady

LEMMA SteadyRefs ==
  ASSUME docs \in Seq(Doc), NEW i \in DOMAIN docs, NEW r \in Nat \cup {Null},
         docs' = [docs EXCEPT ![i].refs = r]
  PROVE  Steady
<1> DEFINE d == [docs[i] EXCEPT !.refs = r]
<1>1. docs' = [docs EXCEPT ![i] = d]
  OBVIOUS
<1>2. docs[i] \in Doc /\ docs[i].faults \in Seq(Reasons)
  BY DocsDomain, DocFields
<1>3. /\ d \in Doc /\ d.slot = docs[i].slot /\ d.name = docs[i].name /\ d.stash = docs[i].stash
      /\ d.faults = docs[i].faults
  BY <1>2, DocRefs
<1>4. IsPrefix(docs[i].faults, docs[i].faults)
  BY <1>2, PrefixOf
<1> HIDE DEF d
<1> QED BY <1>1, <1>3, <1>4, SteadyOne

LEMMA CleanSteady ==
  ASSUME Typed, Clean
  PROVE  Steady
<1>0. PICK m \in 0 .. Len(docs) :
         docs' = [i \in DOMAIN docs |-> IF i \in CleanedUpTo(m) THEN [docs[i] EXCEPT !.refs = 0]
                                                                ELSE docs[i]]
  BY DEF Clean
<1> DEFINE found == CleanedUpTo(m)
           doc(i) == IF i \in found THEN [docs[i] EXCEPT !.refs = 0] ELSE docs[i]
<1>1. docs' = [i \in DOMAIN docs |-> doc(i)]
  BY <1>0
<1>2. ASSUME NEW i \in DOMAIN docs
      PROVE  /\ doc(i) \in Doc /\ doc(i).slot = docs[i].slot /\ doc(i).name = docs[i].name
             /\ doc(i).stash = docs[i].stash /\ IsPrefix(docs[i].faults, doc(i).faults)
  <2>1. docs[i] \in Doc /\ docs[i].faults \in Seq(Reasons)
    BY DocsDomain, DocFields DEF Typed
  <2>2. 0 \in Nat \cup {Null} /\ IsPrefix(docs[i].faults, docs[i].faults)
    BY <2>1, PrefixOf
  <2> HIDE DEF found
  <2> QED BY <2>1, <2>2, DocRefs
<1> HIDE DEF doc
<1>3. docs' \in [1 .. Len(docs) -> Doc] /\ Len(docs) \in Nat
  BY <1>1, <1>2, DocsDomain DEF Typed
<1>4. docs' \in Seq(Doc)
  BY <1>3, SeqDef
<1> QED BY <1>1, <1>2, <1>4 DEF Steady

LEMMA OnlineSteady ==
  ASSUME Typed, NEW n \in Names, ReportOnline(n)
  PROVE  Steady
<1> DEFINE i == ByName(n)
<1>1. CASE i = 0
  BY <1>1, SteadyNone DEF Typed, ReportOnline
<1>2. CASE i # 0
  <2>1. docs' = [docs EXCEPT ![i].refs = Add1(Merged(docs[i]).refs)]
    BY <1>2 DEF ReportOnline
  <2>2. i \in DOMAIN docs /\ docs[i] \in Doc
    BY <1>2, FoundByName, DocsDomain DEF Typed
  <2>3. telemetryRefs[docs[i].name] \in Nat \cup {Null} /\ docs[i].refs \in Nat \cup {Null}
    BY <2>2, DocFields DEF Typed, NodesTyped
  <2>4. Merged(docs[i]).refs \in Nat \cup {Null}
    BY <2>2, <2>3, DocRefs DEF Merged, Doc
  <2>5. Add1(Merged(docs[i]).refs) \in Nat \cup {Null}
    BY <2>4 DEF Add1
  <2> HIDE DEF i
  <2> QED BY <2>1, <2>2, <2>5, SteadyRefs DEF Typed
<1> QED BY <1>1, <1>2

LEMMA OfflineSteady ==
  ASSUME Typed, NEW n \in Names, ReportOffline(n)
  PROVE  Steady
<1> DEFINE i == ByName(n)
<1>1. CASE i = 0
  BY <1>1, SteadyNone DEF Typed, ReportOffline
<1>2. CASE i # 0
  <2> DEFINE r == IF MoreOnline(docs[i].refs) THEN docs[i].refs - 1 ELSE 0
  <2>1. docs' = [docs EXCEPT ![i].refs = r]
    BY <1>2 DEF ReportOffline
  <2>2. i \in DOMAIN docs /\ docs[i] \in Doc
    BY <1>2, FoundByName, DocsDomain DEF Typed
  <2>3. docs[i].refs \in Nat \cup {Null}
    BY <2>2, DocFields
  <2>4. r \in Nat \cup {Null}
    <3>1. CASE MoreOnline(docs[i].refs)
      <4>1. docs[i].refs \in Nat /\ docs[i].refs > 1
        BY <2>3, <3>1 DEF MoreOnline
      <4> QED BY <3>1, <4>1
    <3>2. CASE ~ MoreOnline(docs[i].refs)
      BY <3>2
    <3> QED BY <3>1, <3>2
  <2> HIDE DEF i, r
  <2> QED BY <2>1, <2>2, <2>4, SteadyRefs DEF Typed
<1> QED BY <1>1, <1>2

LEMMA FaultSteady ==
  ASSUME Typed, PushFault
  PROVE  Steady
<1> DEFINE i == ByStash(offline[pos])
<1>1. CASE UNCHANGED docs
  BY <1>1, SteadyNone DEF Typed
<1>2. CASE i # 0 /\ docs' = [docs EXCEPT ![i].faults = Append(@, reason)]
  <2>1. i \in DOMAIN docs
    BY <1>2, FoundByStash DEF Typed
  <2> HIDE DEF i
  <2> DEFINE f == Append(docs[i].faults, reason)
             d == [docs[i] EXCEPT !.faults = f]
  <2>2. docs' = [docs EXCEPT ![i] = d]
    BY <1>2
  <2>3. docs[i] \in Doc /\ docs[i].faults \in Seq(Reasons)
    BY <2>1, DocsDomain, DocFields DEF Typed
  <2>4. reason \in Reasons
    BY DEF Typed, HandlerTyped, PushFault
  <2>5. f \in Seq(Reasons) /\ IsPrefix(docs[i].faults, f)
    BY <2>3, <2>4, AppendProperties, PrefixOf
  <2> HIDE DEF f
  <2>6. /\ d \in Doc /\ d.slot = docs[i].slot /\ d.name = docs[i].name
        /\ d.stash = docs[i].stash /\ d.faults = f
    BY <2>3, <2>5, DocFaults
  <2> HIDE DEF d
  <2> QED BY <2>1, <2>2, <2>5, <2>6, SteadyOne DEF Typed
<1> QED BY <1>1, <1>2 DEF PushFault

LEMMA MissingNone ==
  ASSUME DeleteMissing
  PROVE  UNCHANGED docs
BY DEF DeleteMissing, Missing

\* The record with the first name of those to clear loses its stash, when there is one.
LEMMA ClearMoves ==
  ASSUME Typed, ClearCandidate
  PROVE  /\ docs' \in Seq(Doc) /\ DOMAIN docs' = DOMAIN docs
         /\ \A j \in DOMAIN docs :
              /\ docs'[j].slot = docs[j].slot /\ docs'[j].name = docs[j].name
              /\ docs'[j].faults = docs[j].faults
              /\ IF j = ByName(Head(todo)) THEN docs'[j].stash = Null
                                           ELSE docs'[j].stash = docs[j].stash
<1> DEFINE i == ByName(Head(todo))
<1>1. docs' = [docs EXCEPT ![i].stash = Null]
  BY DEF ClearCandidate, ClearedStash
<1>2. CASE i = 0
  <2>1. 0 \notin DOMAIN docs
    BY DocsDomain DEF Typed
  <2>2. docs' = docs
    BY <1>1, <1>2, <2>1 DEF Typed
  <2> QED BY <1>2, <2>1, <2>2 DEF Typed
<1>3. CASE i # 0
  <2>1. i \in DOMAIN docs /\ docs[i] \in Doc
    BY <1>3, FoundByName, DocsDomain DEF Typed
  <2> DEFINE d == [docs[i] EXCEPT !.stash = Null]
  <2>2. docs' = [docs EXCEPT ![i] = d]
    BY <1>1
  <2>3. /\ d \in Doc /\ d.slot = docs[i].slot /\ d.name = docs[i].name
        /\ d.stash = Null /\ d.faults = docs[i].faults
    BY <2>1, DocStash
  <2> HIDE DEF d, i
  <2>4. /\ docs' \in Seq(Doc) /\ DOMAIN docs' = DOMAIN docs
        /\ docs'[i] = d /\ \A j \in DOMAIN docs \ {i} : docs'[j] = docs[j]
    BY <2>1, <2>2, <2>3, OneDoc DEF Typed
  <2>5. i = ByName(Head(todo))
    BY DEF i
  <2> QED BY <2>3, <2>4, <2>5
<1> QED BY <1>2, <1>3

\* A registration makes a record, or updates one that has the slot or the name.
LEMMA RegisterMoves ==
  ASSUME docs \in Seq(Doc), NEW e \in Entries, Register(e)
  PROVE  \/ /\ \A i \in DOMAIN docs : docs[i].slot # e.slot /\ docs[i].name # e.name
            /\ docs' \in Seq(Doc) /\ DOMAIN docs' = DOMAIN docs \cup {Len(docs) + 1}
            /\ Len(docs) + 1 \notin DOMAIN docs
            /\ docs'[Len(docs) + 1] = New(e) /\ \A j \in DOMAIN docs : docs'[j] = docs[j]
         \/ \E i \in DOMAIN docs :
              /\ docs[i].slot = e.slot \/ docs[i].name = e.name
              /\ docs' \in Seq(Doc) /\ DOMAIN docs' = DOMAIN docs
              /\ docs'[i] = Updated(docs[i], e)
              /\ \A j \in DOMAIN docs \ {i} : docs'[j] = docs[j]
<1>0. Matches(e) = {i \in DOMAIN docs : docs[i].slot = e.slot \/ docs[i].name = e.name}
  BY DEF Matches, With
<1>1. CASE Matches(e) = {}
  <2>1. docs' = Append(docs, New(e)) /\ New(e) \in Doc
    BY <1>1, DocNew DEF Register
  <2>2. \A i \in DOMAIN docs : docs[i].slot # e.slot /\ docs[i].name # e.name
    BY <1>0, <1>1
  <2> QED BY <2>1, <2>2, NewDoc
<1>2. CASE Matches(e) # {}
  <2>1. PICK i \in Matches(e) : docs' = [docs EXCEPT ![i] = Updated(@, e)]
    BY <1>2 DEF Register
  <2>2. i \in DOMAIN docs /\ (docs[i].slot = e.slot \/ docs[i].name = e.name)
    BY <1>0
  <2>3. Updated(docs[i], e) \in Doc
    BY <2>2, DocsDomain, DocUpdated
  <2>4. docs' = [docs EXCEPT ![i] = Updated(docs[i], e)]
    BY <2>1
  <2>5. /\ docs' \in Seq(Doc) /\ DOMAIN docs' = DOMAIN docs
        /\ docs'[i] = Updated(docs[i], e)
        /\ \A j \in DOMAIN docs \ {i} : docs'[j] = docs[j]
    BY <2>2, <2>3, <2>4, OneDoc
  <2> QED BY <2>2, <2>5
<1> QED BY <1>1, <1>2
-----------------------------------------------------------------------------
(* Types, and the nodes that are counted.                                  *)

LEMMA NamedSame ==
  ASSUME docs \in Seq(Doc), Steady, NEW n
  PROVE  With("name", n)' = With("name", n)
<1>1. With("name", n) = {i \in DOMAIN docs : docs[i].name = n}
  BY DEF With
<1>2. With("name", n)' = {i \in DOMAIN docs' : docs'[i].name = n}
  BY DEF With
<1> QED BY <1>1, <1>2 DEF Steady

LEMMA HandlerStays ==
  ASSUME HandlerTyped, UNCHANGED <<session, handler>>
  PROVE  HandlerTyped'
BY DEF HandlerTyped, handler

LEMMA BootStays ==
  ASSUME BootTyped, UNCHANGED boot
  PROVE  BootTyped'
BY DEF BootTyped, boot

LEMMA HistoryStays ==
  ASSUME HistoryTyped, UNCHANGED history
  PROVE  HistoryTyped'
BY DEF HistoryTyped, history

LEMMA NodesStay ==
  ASSUME NodesTyped, UNCHANGED <<telemetryRefs, nodes>>
  PROVE  NodesTyped'
BY DEF NodesTyped

\* A step of a start that leaves nodes, references and the handler alone.
LEMMA StartQuiet ==
  ASSUME TypedInv, BootTyped', docs' \in Seq(Doc), HistoryTyped',
         UNCHANGED <<telemetryRefs, nodes, session, handler, left>>,
         phase # "up", phase' # "up", phase' \in {"clear", "add"} => phase \in {"clear", "add"}
  PROVE  TypedInv'
<1>1. Typed'
  BY NodesStay, HandlerStays DEF TypedInv, Typed
<1>2. ASSUME NEW n \in Names
      PROVE  Counted(n)'
  BY DEF TypedInv, CountedInv, Counted
<1> QED BY <1>1, <1>2 DEF TypedInv, CountedInv

LEMMA BeginTyped ==
  ASSUME TypedInv, Begin
  PROVE  TypedInv'
<1>1. boots' \in 0 .. MaxBoots /\ failures' \in 0 .. MaxFailures
  <2>1. boots \in Nat /\ boots < MaxBoots /\ boots' = boots + 1
    BY RegistryAssumption DEF TypedInv, Typed, BootTyped, Begin
  <2>2. MaxBoots \in Nat /\ MaxFailures \in Nat /\ failures' = 0
    BY RegistryAssumption DEF Begin
  <2> QED BY <2>1, <2>2
<1>2. BootTyped'
  BY <1>1 DEF TypedInv, Typed, BootTyped, Begin
<1>3. HistoryTyped' /\ UNCHANGED left
  BY HistoryStays DEF Begin, TypedInv, Typed, history
<1> QED BY <1>2, <1>3, StartQuiet DEF Begin, TypedInv, Typed

LEMMA CleanTyped ==
  ASSUME TypedInv, Clean
  PROVE  TypedInv'
<1>1. Steady
  BY CleanSteady DEF TypedInv
<1>2. todo' \in Seq(Names)
  <2>1. todo' = [i \in DOMAIN docs |-> docs[i].name]
    BY DEF Clean
  <2>2. DOMAIN docs = 1 .. Len(docs) /\ Len(docs) \in Nat
    BY DocsDomain DEF TypedInv, Typed
  <2>3. \A i \in DOMAIN docs : docs[i].name \in Names
    BY DocsDomain, DocFields DEF TypedInv, Typed
  <2>4. todo' \in [1 .. Len(docs) -> Names]
    BY <2>1, <2>2, <2>3
  <2> QED BY <2>2, <2>4, SeqDef
<1>3. BootTyped'
  BY <1>2 DEF TypedInv, Typed, BootTyped, Clean
<1>4. telemetryRefs' \in [Names -> Nat \cup {Null}]
  BY DEF TypedInv, Typed, NodesTyped, Clean
<1>5. left' = [n \in Names |-> IF telemetryRefs'[n] = Null THEN 0 ELSE telemetryRefs'[n]]
  BY DEF Clean
<1>6. HistoryTyped'
  BY <1>4, <1>5 DEF TypedInv, Typed, HistoryTyped, Clean
<1>7. Typed'
  BY <1>1, <1>3, <1>4, <1>6, HandlerStays DEF TypedInv, Typed, NodesTyped, Clean, Steady
<1>8. ASSUME NEW n \in Names
      PROVE  Counted(n)'
  <2>1. phase = "clean" /\ phase' = "clear" /\ nodes' = nodes
    BY DEF Clean
  <2>2. nodes[n] = 0
    BY <2>1 DEF TypedInv, CountedInv, Counted
  <2> QED BY <1>5, <2>1, <2>2 DEF Counted
<1> QED BY <1>7, <1>8 DEF TypedInv, CountedInv

LEMMA ClearTyped ==
  ASSUME TypedInv, ClearCandidate
  PROVE  TypedInv'
<1>1. Tail(todo) \in Seq(Names)
  BY HeadTailProperties DEF ClearCandidate, TypedInv, Typed, BootTyped
<1>2. BootTyped'
  BY <1>1 DEF TypedInv, Typed, BootTyped, ClearCandidate
<1>3. HistoryTyped' /\ UNCHANGED left
  BY HistoryStays DEF ClearCandidate, TypedInv, Typed, history
<1> QED BY <1>2, <1>3, ClearMoves, StartQuiet DEF ClearCandidate, TypedInv

LEMMA ClearedTyped ==
  ASSUME TypedInv, Cleared
  PROVE  TypedInv'
<1>1. config \in Seq(Entries)
  BY FileIsEntries DEF TypedInv, Typed, BootTyped
<1>2. BootTyped'
  BY <1>1 DEF TypedInv, Typed, BootTyped, Cleared
<1>3. HistoryTyped' /\ UNCHANGED left
  BY HistoryStays DEF Cleared, TypedInv, Typed, history
<1> QED BY <1>2, <1>3, StartQuiet DEF Cleared, TypedInv, Typed

LEMMA AddMoves ==
  ASSUME Typed, AddCandidate
  PROVE  /\ phase = "add" /\ todo \in Seq(Entries) /\ todo # <<>>
         /\ Head(todo) \in Entries /\ todo' = Tail(todo) /\ Tail(todo) \in Seq(Entries)
         /\ \/ /\ Register(Head(todo)) /\ UNCHANGED failures
               /\ collided' = IF Collides(Head(todo)) THEN collided \cup {Head(todo)} ELSE collided
            \/ /\ failures < MaxFailures /\ failures' = failures + 1
               /\ UNCHANGED <<docs, collided>>
         /\ docs' \in Seq(Doc)
<1>1. todo \in Seq(Entries) /\ todo # <<>> /\ phase = "add"
  BY DEF AddCandidate, Typed, BootTyped
<1>2. Head(todo) \in Entries /\ Tail(todo) \in Seq(Entries)
  BY <1>1, HeadTailProperties
<1>3. \/ /\ Register(Head(todo)) /\ UNCHANGED failures
         /\ collided' = IF Collides(Head(todo)) THEN collided \cup {Head(todo)} ELSE collided
      \/ /\ failures < MaxFailures /\ failures' = failures + 1
         /\ UNCHANGED <<docs, collided>>
  BY DEF AddCandidate
<1>4. docs' \in Seq(Doc)
  BY <1>2, <1>3, RegisterMoves DEF Typed
<1> QED BY <1>1, <1>2, <1>3, <1>4 DEF AddCandidate

LEMMA AddTyped ==
  ASSUME TypedInv, AddCandidate
  PROVE  TypedInv'
<1>1. failures' \in 0 .. MaxFailures
  <2>1. failures \in 0 .. MaxFailures /\ MaxFailures \in Nat
    BY RegistryAssumption DEF TypedInv, Typed, BootTyped
  <2>2. failures' = failures \/ (failures < MaxFailures /\ failures' = failures + 1)
    BY DEF AddCandidate
  <2> QED BY <2>1, <2>2
<1>2. BootTyped'
  BY <1>1, AddMoves DEF TypedInv, Typed, BootTyped, AddCandidate
<1>3. HistoryTyped' /\ UNCHANGED left
  <2>1. collided' \subseteq collided \cup {Head(todo)} /\ Head(todo) \in Entries
    BY AddMoves DEF TypedInv
  <2> QED BY <2>1 DEF AddCandidate, TypedInv, Typed, HistoryTyped
<1> QED BY <1>2, <1>3, AddMoves, StartQuiet DEF AddCandidate, TypedInv

LEMMA DeleteTyped ==
  ASSUME TypedInv, DeleteMissing
  PROVE  TypedInv'
<1>1. BootTyped'
  BY DEF TypedInv, Typed, BootTyped, DeleteMissing
<1>2. Typed'
  BY <1>1, MissingNone, NodesStay, HandlerStays, HistoryStays DEF TypedInv, Typed, DeleteMissing
<1>3. ASSUME NEW n \in Names
      PROVE  Counted(n)'
  <2>1. phase = "add" /\ phase' = "up" /\ UNCHANGED <<telemetryRefs, nodes, left>>
    BY DEF DeleteMissing, history
  <2>2. nodes[n] = 0 /\ left[n] = IF telemetryRefs[n] = Null THEN 0 ELSE telemetryRefs[n]
    BY <2>1 DEF TypedInv, CountedInv, Counted
  <2>3. telemetryRefs[n] \in Nat \cup {Null}
    BY DEF TypedInv, Typed, NodesTyped
  <2> QED BY <2>1, <2>2, <2>3 DEF Counted
<1> QED BY <1>2, <1>3 DEF TypedInv, CountedInv

LEMMA CrashTyped ==
  ASSUME TypedInv, Crash
  PROVE  TypedInv'
<1>1. <<>> \in Seq(Entries) /\ Len(<<>>) = 0
  BY EmptySeq
<1>2. BootTyped'
  BY <1>1 DEF TypedInv, Typed, BootTyped, Crash, Die
<1>3. HandlerTyped'
  <2>1. session' \in 1 .. MaxSession /\ sessionRead' \in 0 .. MaxSession
    BY RegistryAssumption DEF TypedInv, Typed, HandlerTyped, Crash, Die
  <2>2. offline' = <<>> /\ pos' = 1 /\ step' = "idle" /\ reason' = <<>>
    BY DEF Crash, Die
  <2>3. pos' \in 1 .. Len(offline') + 1
    BY <1>1, <2>2
  <2> QED BY <2>1, <2>2, <2>3 DEF HandlerTyped
<1>4. nodes' = [n \in Names |-> 0] /\ UNCHANGED <<docs, telemetryRefs>> /\ phase' = "down"
  BY DEF Crash, Die
<1>5. NodesTyped'
  BY <1>4, RegistryAssumption DEF TypedInv, Typed, NodesTyped
<1>6. Typed'
  <2>1. HistoryTyped'
    BY HistoryStays DEF Crash, Die, TypedInv, Typed
  <2> QED BY <1>2, <1>3, <1>4, <1>5, <2>1 DEF TypedInv, Typed
<1>7. ASSUME NEW n \in Names
      PROVE  Counted(n)'
  BY <1>4 DEF Counted
<1> QED BY <1>6, <1>7 DEF TypedInv, CountedInv

\* A step of the chain or of the handler.
LEMMA NodesQuiet ==
  ASSUME TypedInv, HandlerTyped', Steady, UNCHANGED <<boot, telemetryRefs, nodes, history>>
  PROVE  TypedInv'
<1>1. Typed'
  BY BootStays, NodesStay, HistoryStays DEF TypedInv, Typed, Steady
<1>2. ASSUME NEW n \in Names
      PROVE  Counted(n)'
  <2>1. With("name", n)' = With("name", n)
    BY NamedSame DEF TypedInv, Typed
  <2>2. UNCHANGED <<phase, telemetryRefs, nodes, left>>
    BY DEF boot, history
  <2> QED BY <2>1, <2>2 DEF TypedInv, CountedInv, Counted
<1> QED BY <1>1, <1>2 DEF TypedInv, CountedInv

LEMMA HandlerMoves ==
  ASSUME TypedInv, NewSession \/ SomeOffline \/ ReadSession \/ FindAccused \/ PushFault
  PROVE  HandlerTyped' /\ Steady /\ UNCHANGED <<boot, telemetryRefs, nodes, history>>
<1>1. CASE NewSession
  <2>1. session \in 1 .. MaxSession /\ MaxSession \in Nat /\ session < MaxSession
        /\ session' = session + 1
    BY <1>1, RegistryAssumption DEF NewSession, TypedInv, Typed, HandlerTyped
  <2>2. session' \in 1 .. MaxSession
    BY <2>1
  <2>3. HandlerTyped'
    BY <1>1, <2>2 DEF NewSession, TypedInv, Typed, HandlerTyped, handler
  <2> QED BY <1>1, <2>3, SteadyNone DEF NewSession, TypedInv, Typed
<1>2. CASE SomeOffline
  <2>1. offline' \in Offences /\ pos' = 1 /\ step' = "session"
    BY <1>2 DEF SomeOffline
  <2>2. Len(offline') \in Nat
    BY <2>1, RegistryAssumption, LenProperties
  <2>3. pos' \in 1 .. Len(offline') + 1
    BY <2>1, <2>2
  <2>4. HandlerTyped'
    BY <1>2, <2>1, <2>3 DEF SomeOffline, TypedInv, Typed, HandlerTyped, outsideHandler
  <2> QED BY <1>2, <2>4, SteadyNone DEF SomeOffline, TypedInv, Typed, outsideHandler
<1>3. CASE ReadSession
  <2>1. session \in 1 .. MaxSession /\ MaxSession \in Nat /\ sessionRead' = session
    BY <1>3, RegistryAssumption DEF ReadSession, TypedInv, Typed, HandlerTyped
  <2>2. sessionRead' \in 0 .. MaxSession
    BY <2>1
  <2>3. HandlerTyped'
    BY <1>3, <2>2 DEF ReadSession, TypedInv, Typed, HandlerTyped, outsideHandler
  <2> QED BY <1>3, <2>3, SteadyNone DEF ReadSession, TypedInv, Typed, outsideHandler
<1>4. CASE FindAccused
  <2>1. offline \in Offences \cup {<<>>} /\ pos \in 1 .. Len(offline) + 1
    BY DEF TypedInv, Typed, HandlerTyped
  <2>2. Len(offline) \in Nat
    BY <2>1, RegistryAssumption, LenProperties, EmptySeq
  <2>3. UNCHANGED <<boot, telemetryRefs, nodes, session, history, docs, offline, sessionRead>>
    BY <1>4 DEF FindAccused, outsideHandler
  <2> DEFINE i == IF pos > Len(offline) THEN 0 ELSE ByStash(offline[pos])
             why == <<docs[i].name, sessionRead - 1>>
  <2>4. \/ step' = "idle" /\ UNCHANGED <<pos, reason>>
        \/ i # 0 /\ pos' = pos + 1 /\ step' = "find" /\ UNCHANGED reason
        \/ i # 0 /\ step' = "push" /\ reason' = why /\ UNCHANGED pos
    BY <1>4 DEF FindAccused
  <2>5. i # 0 => /\ ~ (pos > Len(offline)) /\ i \in DOMAIN docs
    BY FoundByStash DEF TypedInv, Typed
  <2>6. i # 0 => why \in Reasons
    <3> SUFFICES ASSUME i # 0 PROVE why \in Reasons
      OBVIOUS
    <3>1. docs[i].name \in Names
      BY <2>5, DocsDomain, DocFields DEF TypedInv, Typed
    <3>2. sessionRead - 1 \in Int
      BY DEF TypedInv, Typed, HandlerTyped
    <3> HIDE DEF i
    <3> QED BY <3>1, <3>2 DEF Reasons
  <2> HIDE DEF i, why
  <2>7. pos' \in 1 .. Len(offline') + 1 /\ (step' = "push" => pos' \in 1 .. Len(offline'))
    BY <2>1, <2>2, <2>3, <2>4, <2>5
  <2>8. /\ step' \in {"idle", "find", "push"} /\ reason' \in Reasons \cup {<<>>}
        /\ step' = "push" => reason' \in Reasons
    BY <2>4, <2>6 DEF TypedInv, Typed, HandlerTyped
  <2>9. HandlerTyped'
    BY <2>3, <2>7, <2>8 DEF TypedInv, Typed, HandlerTyped
  <2> QED BY <2>3, <2>9, SteadyNone DEF TypedInv, Typed
<1>5. CASE PushFault
  <2>1. offline \in Offences \cup {<<>>} /\ pos \in 1 .. Len(offline)
    BY <1>5 DEF TypedInv, Typed, HandlerTyped, PushFault
  <2>2. Len(offline) \in Nat
    BY <2>1, RegistryAssumption, LenProperties, EmptySeq
  <2>3. pos' = pos + 1 /\ step' = "find" /\ UNCHANGED <<session, offline, sessionRead, reason>>
    BY <1>5 DEF PushFault, outsideHandler
  <2>4. pos' \in 1 .. Len(offline') + 1
    BY <2>1, <2>2, <2>3
  <2>5. HandlerTyped'
    BY <2>3, <2>4 DEF TypedInv, Typed, HandlerTyped
  <2> QED BY <1>5, <2>5, FaultSteady DEF PushFault, outsideHandler, TypedInv
<1> QED BY <1>1, <1>2, <1>3, <1>4, <1>5

LEMMA OnlineTyped ==
  ASSUME TypedInv, NEW n \in Names, ReportOnline(n)
  PROVE  TypedInv'
<1>1. Steady /\ docs' \in Seq(Doc)
  BY OnlineSteady DEF TypedInv, Steady
<1>2. /\ nodes[n] \in 0 .. MaxNodes /\ nodes[n] < MaxNodes /\ MaxNodes \in Nat
      /\ telemetryRefs[n] \in Nat \cup {Null} /\ Null \notin Nat /\ left[n] \in Nat
  BY RegistryAssumption DEF TypedInv, Typed, NodesTyped, HistoryTyped, ReportOnline
<1>3. /\ nodes' = [nodes EXCEPT ![n] = nodes[n] + 1]
      /\ nodes[n] + 1 \in 0 .. MaxNodes /\ nodes[n] + 1 \in Nat \ {0}
  BY <1>2 DEF ReportOnline
<1>4. nodes' \in [Names -> 0 .. MaxNodes] /\ nodes'[n] = nodes[n] + 1
  BY <1>3 DEF TypedInv, Typed, NodesTyped
<1>5. \A m \in Names : m # n => nodes'[m] = nodes[m]
  BY <1>3 DEF TypedInv, Typed, NodesTyped
<1>6. phase = "up" /\ UNCHANGED <<boot, session, handler, history, left>> /\ phase' = "up"
  BY DEF ReportOnline, boot, history
<1>7. \E r \in Nat \cup {Null} :
         /\ telemetryRefs' = [telemetryRefs EXCEPT ![n] = r]
         /\ r # Null => r = nodes'[n] + left[n]
         /\ r = Null <=> With("name", n) # {}
  <2>1. CASE ByName(n) # 0
    BY <1>2, <2>1, FoundByName DEF ReportOnline, TypedInv, Typed
  <2>2. CASE ByName(n) = 0
    <3>1. telemetryRefs' = [telemetryRefs EXCEPT ![n] = TelemetryRefs(n)]
      BY <2>2 DEF ReportOnline
    <3>2. With("name", n) = {}
      BY <2>2, FoundByName DEF TypedInv, Typed
    <3>3. TelemetryRefs(n) = nodes[n] + 1 + left[n]
      <4>1. CASE telemetryRefs[n] = Null
        <5>1. nodes[n] = 0 /\ left[n] = 0
          BY <1>2, <1>6, <3>2, <4>1 DEF TypedInv, CountedInv, Counted
        <5> QED BY <4>1, <5>1 DEF TelemetryRefs
      <4>2. CASE telemetryRefs[n] # Null
        BY <1>2, <1>6, <4>2 DEF TypedInv, CountedInv, Counted, TelemetryRefs
      <4> QED BY <4>1, <4>2
    <3>4. TelemetryRefs(n) \in Nat /\ TelemetryRefs(n) = nodes'[n] + left[n]
      BY <1>2, <1>4, <3>3
    <3> QED BY <1>2, <3>1, <3>2, <3>4
  <2> QED BY <2>1, <2>2
<1>8. NodesTyped'
  BY <1>4, <1>7 DEF TypedInv, Typed, NodesTyped
<1>9. Typed'
  BY <1>1, <1>6, <1>8, BootStays, HandlerStays, HistoryStays DEF TypedInv, Typed
<1>10. ASSUME NEW m \in Names
       PROVE  Counted(m)'
  <2>1. With("name", m)' = With("name", m)
    BY <1>1, NamedSame DEF TypedInv, Typed
  <2>2. CASE m = n
    BY <1>6, <1>7, <2>1, <2>2 DEF TypedInv, Typed, NodesTyped, Counted
  <2>3. CASE m # n
    <3>1. nodes'[m] = nodes[m] /\ telemetryRefs'[m] = telemetryRefs[m]
      BY <1>5, <1>7, <2>3 DEF TypedInv, Typed, NodesTyped
    <3> QED BY <1>6, <2>1, <3>1 DEF TypedInv, CountedInv, Counted
  <2> QED BY <2>2, <2>3
<1> QED BY <1>9, <1>10 DEF TypedInv, CountedInv

LEMMA OfflineTyped ==
  ASSUME TypedInv, NEW n \in Names, ReportOffline(n)
  PROVE  TypedInv'
<1>1. Steady /\ docs' \in Seq(Doc)
  BY OfflineSteady DEF TypedInv, Steady
<1>2. /\ nodes[n] \in 0 .. MaxNodes /\ nodes[n] > 0 /\ MaxNodes \in Nat
      /\ telemetryRefs[n] \in Nat \cup {Null} /\ Null \notin Nat /\ left[n] \in Nat
  BY RegistryAssumption DEF TypedInv, Typed, NodesTyped, HistoryTyped, ReportOffline
<1>3. /\ nodes' = [nodes EXCEPT ![n] = nodes[n] - 1]
      /\ nodes[n] - 1 \in 0 .. MaxNodes /\ nodes[n] - 1 \in Nat
  BY <1>2 DEF ReportOffline
<1>4. nodes' \in [Names -> 0 .. MaxNodes] /\ nodes'[n] = nodes[n] - 1
  BY <1>3 DEF TypedInv, Typed, NodesTyped
<1>5. \A m \in Names : m # n => nodes'[m] = nodes[m]
  BY <1>3 DEF TypedInv, Typed, NodesTyped
<1>6. phase = "up" /\ UNCHANGED <<boot, session, handler, history, left>> /\ phase' = "up"
  BY DEF ReportOffline, boot, history
<1>7. /\ telemetryRefs[n] # Null => telemetryRefs[n] = nodes[n] + left[n]
      /\ telemetryRefs[n] = Null <=> With("name", n) # {}
  BY <1>2, <1>6 DEF TypedInv, CountedInv, Counted
<1>8. \E r \in Nat \cup {Null} :
         /\ telemetryRefs' = [telemetryRefs EXCEPT ![n] = r]
         /\ r # Null => r = nodes'[n] + left[n]
         /\ r = Null <=> With("name", n) # {}
  <2>1. CASE ByName(n) # 0
    <3>1. telemetryRefs' = telemetryRefs /\ With("name", n) # {}
      BY <2>1, FoundByName DEF ReportOffline, TypedInv, Typed
    <3>2. telemetryRefs' = [telemetryRefs EXCEPT ![n] = Null]
      BY <1>7, <3>1 DEF TypedInv, Typed, NodesTyped
    <3> QED BY <3>1, <3>2
  <2>2. CASE ByName(n) = 0
    <3>1. telemetryRefs' = [telemetryRefs EXCEPT ![n] = telemetryRefs[n] - 1]
      BY <2>2 DEF ReportOffline
    <3>2. With("name", n) = {}
      BY <2>2, FoundByName DEF TypedInv, Typed
    <3>3. /\ telemetryRefs[n] = nodes[n] + left[n]
          /\ telemetryRefs[n] - 1 = nodes[n] - 1 + left[n] /\ telemetryRefs[n] - 1 \in Nat
      BY <1>2, <1>7, <3>2
    <3> QED BY <1>2, <1>3, <1>4, <3>1, <3>2, <3>3
  <2> QED BY <2>1, <2>2
<1>9. NodesTyped'
  BY <1>4, <1>8 DEF TypedInv, Typed, NodesTyped
<1>10. Typed'
  BY <1>1, <1>6, <1>9, BootStays, HandlerStays, HistoryStays DEF TypedInv, Typed
<1>11. ASSUME NEW m \in Names
       PROVE  Counted(m)'
  <2>1. With("name", m)' = With("name", m)
    BY <1>1, NamedSame DEF TypedInv, Typed
  <2>2. CASE m = n
    BY <1>6, <1>8, <2>1, <2>2 DEF TypedInv, Typed, NodesTyped, Counted
  <2>3. CASE m # n
    <3>1. nodes'[m] = nodes[m] /\ telemetryRefs'[m] = telemetryRefs[m]
      BY <1>5, <1>8, <2>3 DEF TypedInv, Typed, NodesTyped
    <3> QED BY <1>6, <2>1, <3>1 DEF TypedInv, CountedInv, Counted
  <2> QED BY <2>2, <2>3
<1> QED BY <1>10, <1>11 DEF TypedInv, CountedInv

LEMMA InitTyped == RegistryInit => TypedInv
<1> SUFFICES ASSUME RegistryInit PROVE TypedInv
  OBVIOUS
<1>1. <<>> \in Seq(Entries) /\ <<>> \in Seq(Doc) /\ Len(<<>>) = 0
  BY EmptySeq
<1>2. BootTyped
  <2>1. boots \in 0 .. MaxBoots /\ failures \in 0 .. MaxFailures
    BY RegistryAssumption DEF RegistryInit
  <2> QED BY <1>1, <2>1 DEF RegistryInit, BootTyped
<1>3. NodesTyped
  BY RegistryAssumption DEF RegistryInit, NodesTyped
<1>4. HandlerTyped
  <2>1. /\ session = 1 /\ sessionRead = 0 /\ offline = <<>> /\ pos = 1 /\ step = "idle"
        /\ reason = <<>>
    BY DEF RegistryInit
  <2>2. session \in 1 .. MaxSession /\ sessionRead \in 0 .. MaxSession
    BY <2>1, RegistryAssumption
  <2>3. pos \in 1 .. Len(offline) + 1
    BY <1>1, <2>1
  <2> QED BY <2>1, <2>2, <2>3 DEF HandlerTyped
<1>5. docs \in Seq(Doc)
  BY <1>1 DEF RegistryInit
<1>6. \A n \in Names : Counted(n)
  BY DEF RegistryInit, Counted
<1>7. HistoryTyped
  BY DEF RegistryInit, HistoryTyped
<1> QED BY <1>2, <1>3, <1>4, <1>5, <1>6, <1>7 DEF TypedInv, Typed, CountedInv

\* The cases of a step.
LEMMA Cases ==
  ASSUME RegistryNext
  PROVE  \/ Begin \/ Clean \/ ClearCandidate \/ Cleared \/ AddCandidate \/ DeleteMissing
         \/ Crash \/ NewSession \/ SomeOffline \/ ReadSession \/ FindAccused \/ PushFault
         \/ \E n \in Names : ReportOnline(n) \/ ReportOffline(n)
BY DEF RegistryNext, StartUp

LEMMA NoStep ==
  ASSUME TypedInv, UNCHANGED registryVars
  PROVE  /\ HandlerTyped' /\ Steady /\ UNCHANGED <<boot, telemetryRefs, nodes, history>>
<1>1. UNCHANGED <<session, handler>> /\ UNCHANGED docs
  BY DEF registryVars
<1> QED BY <1>1, HandlerStays, SteadyNone DEF registryVars, TypedInv, Typed

LEMMA NextTyped == TypedInv /\ [RegistryNext]_registryVars => TypedInv'
<1> SUFFICES ASSUME TypedInv, [RegistryNext]_registryVars PROVE TypedInv'
  OBVIOUS
<1>1. CASE UNCHANGED registryVars
  BY <1>1, NoStep, NodesQuiet
<1>2. CASE Begin \/ Clean \/ ClearCandidate \/ Cleared \/ AddCandidate \/ DeleteMissing \/ Crash
  BY <1>2, BeginTyped, CleanTyped, ClearTyped, ClearedTyped, AddTyped, DeleteTyped, CrashTyped
<1>3. CASE NewSession \/ SomeOffline \/ ReadSession \/ FindAccused \/ PushFault
  BY <1>3, HandlerMoves, NodesQuiet
<1>4. ASSUME NEW n \in Names, ReportOnline(n) \/ ReportOffline(n)
      PROVE  TypedInv'
  BY <1>4, OnlineTyped, OfflineTyped
<1> QED BY <1>1, <1>2, <1>3, <1>4, Cases

\* Every variable keeps to its kind, whatever the files hold and wherever a start is cut short:
\* no count of references falls below zero.
THEOREM RegistryTyped == RegistrySpec => []RegistryTypeOK
<1>1. TypedInv => RegistryTypeOK
  BY DEF TypedInv, Typed, BootTyped, NodesTyped, HandlerTyped, HistoryTyped, RegistryTypeOK
<1> QED BY <1>1, InitTyped, NextTyped, PTL DEF RegistrySpec

\* The references of a telemetry node are the nodes this process was told of and those its
\* cleaning, which may fail at any query, failed to reset, for any files: through a crash and
\* through the name's becoming a candidate's or ceasing to be.
THEOREM TelemetryCountsHold == RegistrySpec => []TelemetryNodesCounted
<1>1. TypedInv => TelemetryNodesCounted
  BY DEF TypedInv, CountedInv, Counted, TelemetryNodesCounted
<1> QED BY <1>1, InitTyped, NextTyped, PTL DEF RegistrySpec
-----------------------------------------------------------------------------
(* One record for each candidate.                                          *)

LEMMA SteadyRecords ==
  ASSUME OneRecordPerCandidate, DOMAIN docs' = DOMAIN docs, collided \subseteq collided',
         \A i \in DOMAIN docs : docs'[i].slot = docs[i].slot /\ docs'[i].name = docs[i].name
  PROVE  OneRecordPerCandidate'
BY DEF OneRecordPerCandidate

\* The record a registration makes or updates shares its slot or its name with no other, unless
\* two answered to the entry.
LEMMA RegisterRecords ==
  ASSUME OneRecordPerCandidate, docs \in Seq(Doc), NEW e \in Entries, Register(e),
         collided' = IF Collides(e) THEN collided \cup {e} ELSE collided
  PROVE  OneRecordPerCandidate'
<1>0. Matches(e) = {i \in DOMAIN docs : docs[i].slot = e.slot \/ docs[i].name = e.name}
  BY DEF Matches, With
<1>1. CASE /\ \A i \in DOMAIN docs : docs[i].slot # e.slot /\ docs[i].name # e.name
           /\ docs' \in Seq(Doc) /\ DOMAIN docs' = DOMAIN docs \cup {Len(docs) + 1}
           /\ Len(docs) + 1 \notin DOMAIN docs
           /\ docs'[Len(docs) + 1] = New(e) /\ \A j \in DOMAIN docs : docs'[j] = docs[j]
  <2>1. New(e).slot = e.slot /\ New(e).name = e.name /\ collided \subseteq collided'
    BY DocNew
  <2> QED BY <1>1, <2>1 DEF OneRecordPerCandidate
<1>2. ASSUME NEW i \in DOMAIN docs,
             docs[i].slot = e.slot \/ docs[i].name = e.name,
             DOMAIN docs' = DOMAIN docs, docs'[i] = Updated(docs[i], e),
             \A j \in DOMAIN docs \ {i} : docs'[j] = docs[j]
      PROVE  OneRecordPerCandidate'
  <2>1. docs'[i].slot = e.slot /\ docs'[i].name = e.name /\ collided \subseteq collided'
    BY <1>2, DocsDomain, DocUpdated
  <2>2. CASE Collides(e)
    BY <1>2, <2>1, <2>2 DEF OneRecordPerCandidate
  <2>3. CASE ~ Collides(e)
    <3>1. \A j \in DOMAIN docs \ {i} : docs[j].slot # e.slot /\ docs[j].name # e.name
      BY <1>0, <1>2, <2>3 DEF Collides
    <3> QED BY <1>2, <2>1, <3>1 DEF OneRecordPerCandidate
  <2> QED BY <2>2, <2>3
<1> QED BY <1>1, <1>2, RegisterMoves

\* The records before and after a step: each is still there, under its slot or its name, with
\* its faults.
Kept ==
  \A i \in DOMAIN docs : /\ i \in DOMAIN docs'
                         /\ docs'[i].slot = docs[i].slot \/ docs'[i].name = docs[i].name
                         /\ IsPrefix(docs[i].faults, docs'[i].faults)

LEMMA RegisterKept ==
  ASSUME docs \in Seq(Doc), NEW e \in Entries, Register(e)
  PROVE  Kept
<1>0. \A i \in DOMAIN docs : docs[i] \in Doc /\ IsPrefix(docs[i].faults, docs[i].faults)
  BY DocsDomain, DocFields, PrefixOf
<1>1. CASE /\ DOMAIN docs' = DOMAIN docs \cup {Len(docs) + 1}
           /\ \A j \in DOMAIN docs : docs'[j] = docs[j]
  BY <1>0, <1>1 DEF Kept
<1>2. ASSUME NEW i \in DOMAIN docs,
             docs[i].slot = e.slot \/ docs[i].name = e.name,
             DOMAIN docs' = DOMAIN docs, docs'[i] = Updated(docs[i], e),
             \A j \in DOMAIN docs \ {i} : docs'[j] = docs[j]
      PROVE  Kept
  <2>1. /\ docs'[i].slot = e.slot /\ docs'[i].name = e.name
        /\ docs'[i].faults = docs[i].faults
    BY <1>0, <1>2, DocUpdated
  <2> QED BY <1>0, <1>2, <2>1 DEF Kept
<1> QED BY <1>1, <1>2, RegisterMoves

\* The steps that change records by a start, and those that leave what they are.
LEMMA StepKinds ==
  ASSUME TypedInv, [RegistryNext]_registryVars
  PROVE  (Steady /\ UNCHANGED collided) \/ ClearCandidate \/ AddCandidate
<1>1. CASE UNCHANGED registryVars
  BY <1>1, NoStep DEF history
<1>2. CASE Begin \/ Cleared \/ DeleteMissing \/ Crash
  BY <1>2, MissingNone, SteadyNone
     DEF Begin, Cleared, DeleteMissing, Crash, Die, TypedInv, Typed, history
<1>3. CASE Clean
  BY <1>3, CleanSteady DEF TypedInv, Clean
<1>4. CASE NewSession \/ SomeOffline \/ ReadSession \/ FindAccused \/ PushFault
  BY <1>4, HandlerMoves DEF history
<1>5. ASSUME NEW n \in Names, ReportOnline(n) \/ ReportOffline(n)
      PROVE  Steady /\ UNCHANGED collided
  BY <1>5, OnlineSteady, OfflineSteady DEF TypedInv, ReportOnline, ReportOffline, history
<1> QED BY <1>1, <1>2, <1>3, <1>4, <1>5, Cases

LEMMA NextKept ==
  ASSUME TypedInv, [RegistryNext]_registryVars
  PROVE  Kept
<1>1. CASE Steady
  BY <1>1 DEF Steady, Kept
<1>2. CASE ClearCandidate
  <2>1. /\ DOMAIN docs' = DOMAIN docs
        /\ \A i \in DOMAIN docs : /\ docs'[i].slot = docs[i].slot
                                  /\ docs'[i].faults = docs[i].faults
    BY <1>2, ClearMoves DEF TypedInv
  <2>2. \A i \in DOMAIN docs : IsPrefix(docs[i].faults, docs[i].faults)
    BY DocsDomain, DocFields, PrefixOf DEF TypedInv, Typed
  <2> QED BY <2>1, <2>2 DEF Kept
<1>3. CASE AddCandidate
  <2>1. Head(todo) \in Entries /\ (Register(Head(todo)) \/ UNCHANGED docs)
    BY <1>3, AddMoves DEF TypedInv
  <2>2. CASE UNCHANGED docs
    BY <2>2, SteadyNone DEF TypedInv, Typed, Steady, Kept
  <2> QED BY <2>1, <2>2, RegisterKept DEF TypedInv, Typed
<1> QED BY <1>1, <1>2, <1>3, StepKinds

LEMMA NextRecords ==
  ASSUME TypedInv, OneRecordPerCandidate, [RegistryNext]_registryVars
  PROVE  OneRecordPerCandidate'
<1>1. CASE Steady /\ UNCHANGED collided
  BY <1>1, SteadyRecords DEF Steady
<1>2. CASE ClearCandidate
  <2>1. UNCHANGED collided
    BY <1>2 DEF ClearCandidate, history
  <2> QED BY <1>2, <2>1, ClearMoves, SteadyRecords DEF TypedInv
<1>3. CASE AddCandidate
  BY <1>3, AddMoves, RegisterRecords, SteadyRecords DEF TypedInv, Typed
<1> QED BY <1>1, <1>2, <1>3, StepKinds

LEMMA InitRecords == RegistryInit => OneRecordPerCandidate
<1> SUFFICES ASSUME RegistryInit PROVE OneRecordPerCandidate
  OBVIOUS
<1>1. docs = <<>> /\ docs \in Seq(Doc)
  BY EmptySeq DEF RegistryInit
<1>2. Len(docs) = 0
  BY <1>1, EmptySeq
<1>3. DOMAIN docs = {}
  BY <1>1, <1>2, LenProperties
<1> QED BY <1>3 DEF OneRecordPerCandidate

\* Whatever the files hold, whoever joins, leaves, comes back, changes stash, slot or name, and
\* wherever a start is cut: no two records share a slot or a name, but for those of an entry
\* that was registered while two records answered to it.
THEOREM OneRecordHolds == RegistrySpec => []OneRecordPerCandidate
<1>1. RegistryInit => TypedInv /\ OneRecordPerCandidate
  BY InitTyped, InitRecords
<1>2. /\ TypedInv /\ OneRecordPerCandidate
      /\ [RegistryNext]_registryVars
      => (TypedInv /\ OneRecordPerCandidate)'
  BY NextTyped, NextRecords
<1> QED BY <1>1, <1>2, PTL DEF RegistrySpec

\* A candidate of the file that has a record keeps it and its faults through every absence,
\* failure, collision and crash, for any files: it stays under its slot or its name.
THEOREM HistoryHolds == RegistrySpec => HistoryKept
<1>1. TypedInv /\ [RegistryNext]_registryVars =>
        [\A i \in DOMAIN docs : Configured(docs[i]) =>
           \E j \in DOMAIN docs' : /\ docs'[j].slot = docs[i].slot \/ docs'[j].name = docs[i].name
                                   /\ IsPrefix(docs[i].faults, docs'[j].faults)]_docs
  BY NextKept DEF Kept
<1> QED BY <1>1, InitTyped, NextTyped, PTL DEF RegistrySpec, HistoryKept
-----------------------------------------------------------------------------
(* Once it is up, the candidates with a stash are those of the file.       *)

FileInv == ClearInv /\ AddInv /\ UpMeansConfigured

LEMMA ConfigTyped ==
  ASSUME BootTyped
  PROVE  /\ config \in Seq(Entries) /\ Len(config) \in Nat /\ DOMAIN config = 1 .. Len(config)
         /\ config \in Configs \cup {<<>>}
<1>1. config \in Configs \cup {<<>>}
  BY DEF BootTyped
<1>2. config \in Seq(Entries)
  BY <1>1, FileIsEntries
<1> QED BY <1>1, <1>2, LenProperties

UpOK ==
  phase = "up" /\ collided = {} =>
    /\ ActiveTriples \subseteq FileUpTo(Len(config))
    /\ Cardinality(FileUpTo(Len(config)) \ ActiveTriples) <= failures

LEMMA UpMeans == BootTyped => (UpMeansConfigured <=> UpOK)
<1> SUFFICES ASSUME BootTyped PROVE UpMeansConfigured <=> UpOK
  OBVIOUS
<1>1. ActiveTriples = {<<docs[i].slot, docs[i].name, docs[i].stash>> : i \in Active(docs)}
  BY DEF ActiveTriples, Triple
<1>2. FileUpTo(Len(config)) =
        {<<config[i].slot, config[i].name, config[i].stash>> : i \in DOMAIN config}
  BY ConfigTyped DEF FileUpTo, Triple
<1> QED BY <1>1, <1>2, Zenon DEF UpMeansConfigured, UpOK

LEMMA SteadyTriples ==
  ASSUME Steady
  PROVE  Active(docs') = Active(docs) /\ ActiveTriples' = ActiveTriples
<1>1. Active(docs') = Active(docs)
  BY DEF Steady, Active
<1>2. \A i \in Active(docs) : Triple(docs'[i]) = Triple(docs[i])
  BY DEF Steady, Active, Triple
<1>3. ActiveTriples' = {Triple(docs'[i]) : i \in Active(docs')}
  BY DEF ActiveTriples, Triple
<1> QED BY <1>1, <1>2, <1>3 DEF ActiveTriples

\* A step that is none of a start.
LEMMA QuietFile ==
  ASSUME Typed, FileInv, Steady, UNCHANGED <<boot, history>>
  PROVE  FileInv'
<1>1. UNCHANGED <<phase, config, todo, failures, collided>> /\ BootTyped /\ BootTyped'
  BY BootStays DEF boot, Typed, history
<1>2. Active(docs') = Active(docs) /\ ActiveTriples' = ActiveTriples
  BY SteadyTriples
<1>3. ClearInv'
  <2>1. \A i \in Active(docs) : docs'[i].name = docs[i].name
    BY DEF Steady, Active
  <2> QED BY <1>1, <1>2, <2>1 DEF FileInv, ClearInv
<1>4. AddInv'
  <2>1. Handled' = Handled /\ FileUpTo(Handled)' = FileUpTo(Handled)
    BY <1>1 DEF Handled, FileUpTo, Triple
  <2> QED BY <1>1, <1>2, <2>1 DEF FileInv, AddInv
<1>5. UpMeansConfigured'
  <2>1. FileUpTo(Len(config))' = FileUpTo(Len(config))
    BY <1>1 DEF FileUpTo, Triple
  <2>2. UpMeansConfigured' <=> UpOK'
    BY <1>1, UpMeans, PTL
  <2>3. UpOK
    BY <1>1, UpMeans DEF FileInv
  <2>4. UpOK'
    BY <1>1, <1>2, <2>1, <2>3 DEF UpOK
  <2> QED BY <2>2, <2>4
<1> QED BY <1>3, <1>4, <1>5 DEF FileInv

LEMMA CleanFile ==
  ASSUME Typed, Clean
  PROVE  FileInv'
<1>1. phase' = "clear" /\ todo' = [i \in DOMAIN docs |-> docs[i].name]
  BY DEF Clean
<1>2. Steady
  BY CleanSteady
<1>3. \A i \in Active(docs') : i \in DOMAIN todo' /\ todo'[i] = docs'[i].name
  BY <1>1, <1>2 DEF Steady, Active
<1>4. ClearInv'
  BY <1>3 DEF ClearInv
<1>5. AddInv' /\ UpMeansConfigured'
  BY <1>1 DEF AddInv, UpMeansConfigured
<1> QED BY <1>4, <1>5 DEF FileInv

\* As no two records share a name, the one found is the one with the stash.
LEMMA ClearFile ==
  ASSUME Typed, OneRecordPerCandidate, FileInv, ClearCandidate
  PROVE  FileInv'
<1>0. UNCHANGED collided
  BY DEF ClearCandidate, history
<1>1. phase = "clear" /\ phase' = "clear" /\ todo # <<>> /\ todo' = Tail(todo)
  BY DEF ClearCandidate
<1>2. todo \in Seq(Names)
  BY <1>1 DEF Typed, BootTyped
<1>3. /\ Len(todo) \in Nat /\ DOMAIN todo = 1 .. Len(todo) /\ Head(todo) = todo[1]
      /\ Len(todo') = Len(todo) - 1 /\ DOMAIN todo' = 1 .. Len(todo) - 1
      /\ \A k \in 1 .. Len(todo) - 1 : todo'[k] = todo[k + 1]
  BY <1>1, <1>2, HeadTailProperties
<1>4. ASSUME collided = {}, NEW i \in Active(docs')
      PROVE  \E k \in DOMAIN todo' : todo'[k] = docs'[i].name
  <2>1. i \in DOMAIN docs /\ docs'[i].stash # Null /\ docs'[i].name = docs[i].name
    BY <1>4, ClearMoves DEF Active
  <2>2. i # ByName(Head(todo)) /\ i \in Active(docs)
    BY <2>1, ClearMoves DEF Active
  <2>3. PICK k \in DOMAIN todo : todo[k] = docs[i].name
    BY <1>1, <1>4, <2>2 DEF FileInv, ClearInv
  <2>4. k # 1
    <3> SUFFICES ASSUME k = 1 PROVE FALSE
      OBVIOUS
    <3>1. docs[i].name = Head(todo)
      BY <1>3, <2>3
    <3>2. ByName(Head(todo)) \in DOMAIN docs /\ docs[ByName(Head(todo))].name = Head(todo)
      BY <2>1, <3>1, FoundByName DEF Typed
    <3> QED BY <1>4, <2>1, <2>2, <3>1, <3>2 DEF OneRecordPerCandidate
  <2>5. k - 1 \in DOMAIN todo' /\ (k - 1) + 1 = k
    BY <1>3, <2>3, <2>4
  <2> QED BY <1>3, <2>1, <2>3, <2>5
<1>5. ClearInv'
  BY <1>0, <1>4 DEF ClearInv
<1>6. AddInv' /\ UpMeansConfigured'
  BY <1>1 DEF AddInv, UpMeansConfigured
<1> QED BY <1>5, <1>6 DEF FileInv

LEMMA ClearedFile ==
  ASSUME Typed, FileInv, Cleared
  PROVE  FileInv'
<1>1. /\ phase = "clear" /\ todo = <<>> /\ phase' = "add" /\ todo' = config
      /\ UNCHANGED <<config, failures, docs, collided>>
  BY DEF Cleared, history
<1>2. Len(config) \in Nat
  BY ConfigTyped DEF Typed
<1>3. Handled' = 0
  BY <1>1, <1>2 DEF Handled
<1>4. DOMAIN todo = {}
  <2>1. todo \in Seq(Names) /\ Len(todo) = 0
    BY <1>1, EmptySeq
  <2> QED BY <2>1, LenProperties
<1>5. collided = {} => Active(docs) = {}
  BY <1>1, <1>4 DEF FileInv, ClearInv
<1>6. (collided = {} => ActiveTriples' = {}) /\ FileUpTo(Handled)' = {}
  BY <1>1, <1>3, <1>5 DEF ActiveTriples, FileUpTo, Active
<1>7. failures' \in Nat
  BY <1>1, RegistryAssumption DEF Typed, BootTyped
<1>8. \A i \in 1 .. Len(config) : config[i] = config[0 + i]
  BY <1>2
<1>9. AddInv'
  <2>1. {} \ {} = {} /\ IsFiniteSet({}) /\ Cardinality({}) = 0
    BY FS_EmptySet
  <2>2. Len(todo') <= Len(config')
    BY <1>1, <1>2
  <2>3. \A i \in 1 .. Len(todo') : todo'[i] = config'[Handled' + i]
    BY <1>1, <1>3, <1>8
  <2>4. collided = {} => /\ IsFiniteSet(FileUpTo(Handled)' \ ActiveTriples')
                         /\ Cardinality(FileUpTo(Handled)' \ ActiveTriples') <= failures'
    BY <1>6, <1>7, <2>1
  <2> QED BY <1>1, <1>6, <2>2, <2>3, <2>4 DEF AddInv
<1>10. ClearInv' /\ UpMeansConfigured'
  BY <1>1 DEF ClearInv, UpMeansConfigured
<1> QED BY <1>9, <1>10 DEF FileInv

LEMMA DeleteFile ==
  ASSUME TypedInv, FileInv, DeleteMissing
  PROVE  FileInv'
<1>1. /\ phase = "add" /\ todo = <<>> /\ phase' = "up"
      /\ UNCHANGED <<config, failures, docs, collided>>
  BY MissingNone DEF DeleteMissing, history
<1>2. BootTyped /\ BootTyped' /\ Len(config) \in Nat
  <2>1. TypedInv'
    BY DeleteTyped
  <2> QED BY <2>1, ConfigTyped DEF TypedInv, Typed
<1>3. Handled = Len(config)
  <2>1. Len(todo) = 0
    BY <1>1, EmptySeq
  <2> QED BY <1>2, <2>1 DEF Handled
<1>4. collided = {} => /\ ActiveTriples \subseteq FileUpTo(Len(config))
                       /\ Cardinality(FileUpTo(Len(config)) \ ActiveTriples) <= failures
  BY <1>1, <1>3 DEF FileInv, AddInv
<1>5. ActiveTriples' = ActiveTriples /\ FileUpTo(Len(config))' = FileUpTo(Len(config))
  BY <1>1 DEF ActiveTriples, FileUpTo, Triple, Active
<1>6. UpMeansConfigured'
  <2>1. UpMeansConfigured' <=> UpOK'
    BY <1>2, UpMeans, PTL
  <2>2. UpOK'
    BY <1>1, <1>4, <1>5 DEF UpOK
  <2> QED BY <2>1, <2>2
<1>7. ClearInv' /\ AddInv'
  BY <1>1 DEF ClearInv, AddInv
<1> QED BY <1>6, <1>7 DEF FileInv

\* The next entry of the file is added to what the file and the records hold.
LEMMA AddEntry ==
  ASSUME Typed, collided = {}, AddInv, AddCandidate
  PROVE  /\ Handled \in Nat /\ Handled + 1 \in DOMAIN config
         /\ Head(todo) = config[Handled + 1] /\ Handled' = Handled + 1
         /\ FileUpTo(Handled)' = FileUpTo(Handled) \cup {Triple(Head(todo))}
         /\ Len(todo') <= Len(config')
         /\ \A i \in 1 .. Len(todo') : todo'[i] = config'[Handled' + i]
<1>1. /\ phase = "add" /\ todo \in Seq(Entries) /\ todo # <<>> /\ todo' = Tail(todo)
      /\ UNCHANGED config
  BY AddMoves DEF AddCandidate
<1>2. /\ Len(todo) \in Nat /\ Len(todo) > 0 /\ Head(todo) = todo[1]
      /\ Len(todo') = Len(todo) - 1 /\ \A k \in 1 .. Len(todo) - 1 : todo'[k] = todo[k + 1]
  <2>1. Len(todo) # 0
    BY <1>1, EmptySeq
  <2> QED BY <1>1, <2>1, HeadTailProperties, LenProperties
<1>3. Len(config) \in Nat /\ DOMAIN config = 1 .. Len(config)
  BY ConfigTyped DEF Typed
<1>4. Len(todo) <= Len(config) /\ \A i \in 1 .. Len(todo) : todo[i] = config[Handled + i]
  BY <1>1 DEF AddInv
<1>5. Handled \in Nat /\ Handled + 1 \in 1 .. Len(config) /\ Handled' = Handled + 1
  BY <1>1, <1>2, <1>3, <1>4 DEF Handled
<1>6. Head(todo) = config[Handled + 1]
  BY <1>2, <1>4
<1>7. FileUpTo(Handled)' = {Triple(config[i]) : i \in 1 .. Handled + 1}
  BY <1>1, <1>5 DEF FileUpTo, Triple
<1>8. 1 .. Handled + 1 = 1 .. Handled \cup {Handled + 1}
  BY <1>5
<1>9. FileUpTo(Handled)' = FileUpTo(Handled) \cup {Triple(Head(todo))}
  BY <1>6, <1>7, <1>8 DEF FileUpTo
<1>10. Len(todo') <= Len(config')
  BY <1>1, <1>2, <1>3, <1>4
<1>11. ASSUME NEW i \in 1 .. Len(todo')
       PROVE  todo'[i] = config'[Handled' + i]
  <2>1. i + 1 \in 1 .. Len(todo) /\ todo'[i] = todo[i + 1] /\ Handled' + i = Handled + (i + 1)
    BY <1>2, <1>5
  <2> QED BY <1>1, <1>4, <2>1
<1> QED BY <1>3, <1>5, <1>6, <1>9, <1>10, <1>11

\* The record that is made or updated had no stash: its slot and its name are not yet among
\* those handled.
LEMMA RegisterTriples ==
  ASSUME DistinctEntries, Typed, collided = {}, AddInv, AddCandidate, Register(Head(todo))
  PROVE  ActiveTriples' = ActiveTriples \cup {Triple(Head(todo))}
<1> DEFINE e == Head(todo)
<1>1. e \in Entries /\ e.stash # Null /\ docs \in Seq(Doc) /\ phase = "add"
  BY AddMoves, EntryFields, RegistryAssumption DEF Typed
<1>2. \A i \in DOMAIN docs :
        docs[i].slot = e.slot \/ docs[i].name = e.name => i \notin Active(docs)
  <2> SUFFICES ASSUME NEW i \in Active(docs), docs[i].slot = e.slot \/ docs[i].name = e.name
               PROVE FALSE
    BY DEF Active
  <2>1. Triple(docs[i]) \in FileUpTo(Handled)
    BY <1>1 DEF AddInv, ActiveTriples
  <2>2. PICK k \in 1 .. Handled : Triple(docs[i]) = Triple(config[k])
    BY <2>1 DEF FileUpTo
  <2>3. \/ config[k].slot = config[Handled + 1].slot
        \/ config[k].name = config[Handled + 1].name
    BY <2>2, AddEntry DEF Triple
  <2>4. k \in DOMAIN config /\ k # Handled + 1
    BY AddEntry, ConfigTyped DEF Typed
  <2>5. config \in Configs
    <3>1. config # <<>>
      <4>1. Len(<<>>) = 0 /\ DOMAIN config = 1 .. Len(config)
        BY ConfigTyped, EmptySeq DEF Typed
      <4> QED BY <2>4, <4>1
    <3> QED BY <3>1, ConfigTyped DEF Typed
  <2> QED BY <2>3, <2>4, <2>5, AddEntry DEF DistinctEntries
<1> HIDE DEF e
<1>3. ASSUME NEW x, x \in DOMAIN docs', DOMAIN docs' = DOMAIN docs \cup {x},
             docs'[x].slot = e.slot, docs'[x].name = e.name, docs'[x].stash = e.stash,
             x \in DOMAIN docs => x \notin Active(docs),
             \A j \in DOMAIN docs \ {x} : docs'[j] = docs[j]
      PROVE  ActiveTriples' = ActiveTriples \cup {Triple(e)}
  <2>1. Active(docs') = Active(docs) \cup {x}
    BY <1>1, <1>3 DEF Active
  <2>2. x \notin Active(docs) /\ Triple(docs'[x]) = Triple(e)
    BY <1>3 DEF Active, Triple
  <2>3. \A j \in Active(docs) : Triple(docs'[j]) = Triple(docs[j])
    BY <1>3, <2>2 DEF Active, Triple
  <2>4. ActiveTriples' = {Triple(docs'[j]) : j \in Active(docs')}
    BY DEF ActiveTriples, Triple
  <2>5. ActiveTriples' = {Triple(docs'[j]) : j \in Active(docs)} \cup {Triple(docs'[x])}
    BY <2>1, <2>4
  <2> QED BY <2>2, <2>3, <2>5 DEF ActiveTriples
<1>4. CASE /\ \A i \in DOMAIN docs : docs[i].slot # e.slot /\ docs[i].name # e.name
           /\ docs' \in Seq(Doc) /\ DOMAIN docs' = DOMAIN docs \cup {Len(docs) + 1}
           /\ Len(docs) + 1 \notin DOMAIN docs
           /\ docs'[Len(docs) + 1] = New(e) /\ \A j \in DOMAIN docs : docs'[j] = docs[j]
  <2>1. New(e).slot = e.slot /\ New(e).name = e.name /\ New(e).stash = e.stash
    BY <1>1, DocNew
  <2> DEFINE x == Len(docs) + 1
  <2>2. /\ x \in DOMAIN docs' /\ DOMAIN docs' = DOMAIN docs \cup {x} /\ x \notin DOMAIN docs
        /\ docs'[x].slot = e.slot /\ docs'[x].name = e.name /\ docs'[x].stash = e.stash
        /\ \A j \in DOMAIN docs \ {x} : docs'[j] = docs[j]
    BY <1>4, <2>1
  <2> HIDE DEF x
  <2>3. ActiveTriples' = ActiveTriples \cup {Triple(e)}
    BY <1>3, <2>2
  <2> QED BY <2>3 DEF e
<1>5. ASSUME NEW i \in DOMAIN docs,
             docs[i].slot = e.slot \/ docs[i].name = e.name,
             DOMAIN docs' = DOMAIN docs, docs'[i] = Updated(docs[i], e),
             \A j \in DOMAIN docs \ {i} : docs'[j] = docs[j]
      PROVE  ActiveTriples' = ActiveTriples \cup {Triple(e)}
  <2>1. /\ docs'[i].slot = e.slot /\ docs'[i].name = e.name /\ docs'[i].stash = e.stash
    BY <1>1, <1>5, DocsDomain, DocUpdated
  <2>3. i \notin Active(docs)
    BY <1>2, <1>5
  <2>4. i \in DOMAIN docs' /\ DOMAIN docs' = DOMAIN docs \cup {i}
    BY <1>5
  <2> QED BY <1>3, <1>5, <2>1, <2>3, <2>4
<1>6. Register(e)
  BY DEF e
<1> QED BY <1>1, <1>4, <1>5, <1>6, RegisterMoves DEF e

LEMMA AddFile ==
  ASSUME DistinctEntries, TypedInv, FileInv, AddCandidate
  PROVE  FileInv'
<1> DEFINE e == Head(todo)
           F == FileUpTo(Handled)
           A == ActiveTriples
<1>1. Typed /\ AddInv /\ phase = "add" /\ phase' = "add" /\ failures \in Nat
  BY AddMoves, RegistryAssumption DEF TypedInv, Typed, BootTyped, FileInv, AddCandidate
<1> SUFFICES ASSUME collided' = {} PROVE AddInv'
  BY <1>1 DEF FileInv, ClearInv, AddInv, UpMeansConfigured
<1>0. collided = {}
  BY <1>1, AddMoves
<1>2. /\ FileUpTo(Handled)' = F \cup {Triple(e)} /\ Len(todo') <= Len(config')
      /\ \A i \in 1 .. Len(todo') : todo'[i] = config'[Handled' + i]
  BY <1>0, <1>1, AddEntry
<1>3. /\ A \subseteq F /\ IsFiniteSet(F \ A)
      /\ Cardinality(F \ A) <= failures /\ Cardinality(F \ A) \in Nat
  BY <1>0, <1>1, FS_CardinalityType DEF AddInv
<1>4. ASSUME Register(e), UNCHANGED failures
      PROVE  AddInv'
  <2>1. ActiveTriples' = A \cup {Triple(e)}
    BY <1>0, <1>1, <1>4, RegisterTriples
  <2> HIDE DEF F, A, e
  <2>2. (F \cup {Triple(e)}) \ (A \cup {Triple(e)}) \subseteq F \ A
    OBVIOUS
  <2> DEFINE T == (F \cup {Triple(e)}) \ (A \cup {Triple(e)})
  <2>3. IsFiniteSet(T) /\ Cardinality(T) <= Cardinality(F \ A) /\ Cardinality(T) \in Nat
    BY <1>3, <2>2, FS_Subset, FS_CardinalityType
  <2>4. FileUpTo(Handled)' \ ActiveTriples' = T /\ ActiveTriples' \subseteq FileUpTo(Handled)'
    BY <1>2, <1>3, <2>1
  <2>5. Cardinality(T) <= failures'
    BY <1>1, <1>3, <1>4, <2>3
  <2> HIDE DEF T
  <2> QED BY <1>2, <2>3, <2>4, <2>5 DEF AddInv
<1>5. ASSUME failures' = failures + 1, UNCHANGED docs
      PROVE  AddInv'
  <2>1. ActiveTriples' = A
    BY <1>5 DEF ActiveTriples, Active, Triple
  <2> HIDE DEF F, A, e
  <2>2. (F \cup {Triple(e)}) \ A \subseteq (F \ A) \cup {Triple(e)}
    OBVIOUS
  <2>3. /\ IsFiniteSet((F \ A) \cup {Triple(e)})
        /\ Cardinality((F \ A) \cup {Triple(e)}) <= Cardinality(F \ A) + 1
        /\ Cardinality((F \ A) \cup {Triple(e)}) \in Nat
    <3> DEFINE G == F \ A
    <3>1. IsFiniteSet(G) /\ Cardinality(G) \in Nat
      BY <1>3
    <3> HIDE DEF G
    <3>2. /\ IsFiniteSet(G \cup {Triple(e)})
          /\ \/ Cardinality(G \cup {Triple(e)}) = Cardinality(G)
             \/ Cardinality(G \cup {Triple(e)}) = Cardinality(G) + 1
      BY <3>1, FS_AddElement
    <3> QED BY <3>1, <3>2 DEF G
  <2> DEFINE T == (F \cup {Triple(e)}) \ A
             U == (F \ A) \cup {Triple(e)}
  <2>4. /\ IsFiniteSet(T) /\ Cardinality(T) <= Cardinality(U) /\ Cardinality(T) \in Nat
    BY <2>2, <2>3, FS_Subset, FS_CardinalityType
  <2>5. FileUpTo(Handled)' \ ActiveTriples' = T /\ ActiveTriples' \subseteq FileUpTo(Handled)'
    BY <1>2, <1>3, <2>1
  <2>6. Cardinality(T) <= failures'
    BY <1>1, <1>3, <1>5, <2>3, <2>4
  <2> HIDE DEF T
  <2> QED BY <1>2, <2>4, <2>5, <2>6 DEF AddInv
<1> QED BY <1>1, <1>4, <1>5, AddMoves

LEMMA NextFile ==
  ASSUME DistinctEntries, TypedInv, OneRecordPerCandidate, FileInv,
         [RegistryNext]_registryVars
  PROVE  FileInv'
<1>1. CASE UNCHANGED registryVars
  BY <1>1, NoStep, QuietFile DEF TypedInv
<1>2. CASE Begin \/ Crash
  BY <1>2 DEF Begin, Crash, Die, FileInv, ClearInv, AddInv, UpMeansConfigured
<1>3. CASE Clean \/ ClearCandidate \/ Cleared \/ AddCandidate \/ DeleteMissing
  BY <1>3, CleanFile, ClearFile, ClearedFile, AddFile, DeleteFile DEF TypedInv
<1>4. CASE NewSession \/ SomeOffline \/ ReadSession \/ FindAccused \/ PushFault
  BY <1>4, HandlerMoves, QuietFile DEF TypedInv
<1>5. ASSUME NEW n \in Names, ReportOnline(n) \/ ReportOffline(n)
      PROVE  FileInv'
  <2>1. Steady
    BY <1>5, OnlineSteady, OfflineSteady DEF TypedInv
  <2>2. UNCHANGED <<boot, history>>
    BY <1>5 DEF ReportOnline, ReportOffline
  <2> QED BY <2>1, <2>2, QuietFile DEF TypedInv
<1> QED BY <1>1, <1>2, <1>3, <1>4, <1>5, Cases

\* Once a process is up, whichever files it and those before it read and wherever they were
\* cut short, the candidates with a stash are those of its file, but for as many as it failed to
\* register: where no file has a slot or a name twice, and unless two records collided.
THEOREM UpMeansConfiguredHolds ==
  ASSUME DistinctEntries
  PROVE  RegistrySpec => []UpMeansConfigured
<1>1. RegistryInit => IndInv
  <2>1. RegistryInit => ClearInv /\ AddInv /\ UpMeansConfigured
    BY DEF RegistryInit, ClearInv, AddInv, UpMeansConfigured
  <2> QED BY <2>1, InitTyped, InitRecords DEF IndInv
<1>2. IndInv /\ [RegistryNext]_registryVars => IndInv'
  <2> SUFFICES ASSUME IndInv, [RegistryNext]_registryVars PROVE IndInv'
    OBVIOUS
  <2>1. TypedInv'
    BY NextTyped DEF IndInv
  <2>2. OneRecordPerCandidate' /\ FileInv'
    BY NextRecords, NextFile DEF IndInv, FileInv
  <2> QED BY <2>1, <2>2 DEF IndInv, FileInv
<1>3. IndInv => UpMeansConfigured
  BY DEF IndInv
<1> QED BY <1>1, <1>2, <1>3, PTL DEF RegistrySpec
=============================================================================
