-------------------------- MODULE CandidateRegistry --------------------------
(***************************************************************************)
(* The candidates collection over the life of the process.  Each start     *)
(* (core's start()) takes the candidates of the configuration file over    *)
(* into the database: clean, then addCleanCandidates, one query at a time, *)
(* and only then listens to telemetry and starts the jobs.  The process    *)
(* may die between any two queries, and the file may have changed when it  *)
(* comes back.  Nodes of candidates come and go, and events of the chain,  *)
(* listened to before the database is cleaned (initScorekeeper), report    *)
(* validators offline, which gives their candidates a fault.               *)
(*                                                                         *)
(* The collection has no unique index: it is a sequence, in insertion      *)
(* order, and findOne by one field answers the first match.  Here a node   *)
(* is reported in one step; Telemetry takes these reports apart.           *)
(***************************************************************************)
EXTENDS Integers, FiniteSets, SequencesExt

CONSTANTS
  Configs,     \* the candidate lists a configuration file may hold
  Offences,    \* the lists of validators a someOffline event may report
  Null,        \* mongo's null
  MaxBoots,    \* bound: how often the process is started
  MaxNodes,    \* bound: nodes online under one name
  MaxSession,  \* bound: the last session
  MaxFailures  \* bound: how many registrations fail in one start

Entries == UNION {{cfg[i] : i \in DOMAIN cfg} : cfg \in Configs}
Slots   == {e.slot : e \in Entries}
Names   == {e.name : e \in Entries}
Stashes == {e.stash : e \in Entries}
Accused == UNION {Range(o) : o \in Offences}

ASSUME RegistryAssumption ==
  /\ \A cfg \in Configs : cfg \in Seq([slot : Slots, name : Names, stash : Stashes])
  /\ Null \notin Stashes \cup Nat
  /\ Offences \subseteq Seq(Accused)
  /\ MaxBoots \in Nat /\ MaxNodes \in Nat /\ MaxSession \in Nat \ {0} /\ MaxFailures \in Nat

VARIABLES
  phase,         \* how far start() is; "up" once it is through
  config,        \* the candidates in the configuration file
  todo,          \* names or entries the loop of this phase has still to handle
  docs,          \* database: the candidates
  telemetryRefs, \* database: nodeRefs of the telemetry nodes, by name
  nodes,         \* history: nodes this process was told are online, by name
  session,       \* chain: the current session
  offline, pos,  \* the someOffline handler: the validators reported, the one in hand,
  step,          \* where it is,
  sessionRead,   \* the session it asked for,
  reason,        \* and the reason of the fault in hand: a name and a session
  boots,         \* how often it was started
  failures,      \* registrations that failed in this start
  left,          \* history: the references this start failed to reset, by name
  collided       \* history: the entries registered while two records answered to them, one
                 \* to the slot and another to the name

boot    == <<phase, config, todo, boots, failures>>
handler == <<offline, pos, step, sessionRead, reason>>
history == <<left, collided>>
registryVars == <<boot, docs, telemetryRefs, nodes, session, handler, history>>

Reasons == Names \X Int

Doc == [slot : Slots, name : Names, stash : Stashes \cup {Null}, refs : Nat \cup {Null},
        faults : Seq(Reasons)]

With(field, v) == {i \in DOMAIN docs : docs[i][field] = v}

\* What findOne answers: a position, or 0.
First(S) == IF S = {} THEN 0 ELSE CHOOSE i \in S : \A j \in S : i <= j
ByName(n)  == First(With("name", n))
BySlot(s)  == First(With("slot", s))
ByStash(v) == First(With("stash", v))

Active(ds) == {i \in DOMAIN ds : ds[i].stash # Null}

RegistryInit ==
  /\ phase = "down" /\ config = <<>> /\ todo = <<>>
  /\ docs = <<>> /\ telemetryRefs = [n \in Names |-> Null] /\ nodes = [n \in Names |-> 0]
  /\ session = 1 /\ offline = <<>> /\ pos = 1 /\ step = "idle" /\ sessionRead = 0
  /\ reason = <<>> /\ boots = 0 /\ failures = 0
  /\ left = [n \in Names |-> 0] /\ collided = {}
-----------------------------------------------------------------------------
(* Starting.                                                               *)

Begin ==
  /\ phase = "down" /\ boots < MaxBoots
  /\ config' \in Configs
  /\ phase' = "clean" /\ boots' = boots + 1 /\ failures' = 0
  /\ UNCHANGED <<todo, docs, telemetryRefs, nodes, session, handler, history>>

\* The candidates whose references are reset when the loop gets through the first m records;
\* each of those that have a stash is looked up by its name.
CleanedUpTo(m) == {ByName(docs[i].name) : i \in Active(docs) \cap 1 .. m}

\* (Variant: telemetry nodes keep their references.)
CleanCandidates ==
  /\ phase = "clean" /\ phase' = "clear"
  /\ docs' = [i \in DOMAIN docs |-> IF i \in CleanedUpTo(Len(docs)) THEN [docs[i] EXCEPT !.refs = 0]
                                                                    ELSE docs[i]]
  /\ todo' = [i \in DOMAIN docs |-> docs[i].name]
  /\ left' = [n \in Names |-> 0]
  /\ UNCHANGED <<config, boots, failures, telemetryRefs, nodes, session, handler, collided>>

\* cleanDB: the node refs of the telemetry nodes and then of the candidates are reset.  A
\* telemetry node whose update fails is passed over (clearTelemetryNodeNodeRefsFrom); any
\* other failure ends the cleaning and is logged, and start() goes on all the same.
Clean ==
  /\ phase = "clean" /\ phase' = "clear"
  /\ \E done \in SUBSET Names, m \in 0 .. Len(docs) :
       /\ telemetryRefs' = [n \in Names |-> IF telemetryRefs[n] # Null /\ n \in done THEN 0
                                            ELSE telemetryRefs[n]]
       /\ docs' = [i \in DOMAIN docs |-> IF i \in CleanedUpTo(m) THEN [docs[i] EXCEPT !.refs = 0]
                                                                 ELSE docs[i]]
  /\ left' = [n \in Names |-> IF telemetryRefs'[n] = Null THEN 0 ELSE telemetryRefs'[n]]
  /\ todo' = [i \in DOMAIN docs |-> docs[i].name]
  /\ UNCHANGED <<config, boots, failures, nodes, session, handler, collided>>

\* (Variant: the stashes stay.)
ClearNoStash(i) == docs[i].stash

ClearedStash(i) == Null

\* clearCandidates, for the candidates found at its start.
ClearCandidate ==
  /\ phase = "clear" /\ todo # <<>>
  /\ docs' = [docs EXCEPT ![ByName(Head(todo))].stash = ClearedStash(ByName(Head(todo)))]
  /\ todo' = Tail(todo)
  /\ UNCHANGED <<phase, config, boots, failures, telemetryRefs, nodes, session, handler, history>>

Cleared ==
  /\ phase = "clear" /\ todo = <<>>
  /\ phase' = "add" /\ todo' = config
  /\ UNCHANGED <<config, boots, failures, docs, telemetryRefs, nodes, session, handler, history>>

New(e)        == [slot |-> e.slot, name |-> e.name, stash |-> e.stash, refs |-> Null,
                  faults |-> <<>>]

\* (Variant: the record is written anew.)
UpdatedAnew(d, e) == New(e)

Updated(d, e) == [d EXCEPT !.slot = e.slot, !.name = e.name, !.stash = e.stash]

\* (Variant: only the name identifies a candidate.)
RegisterByName(e) ==
  docs' = IF ByName(e.name) = 0 THEN Append(docs, New(e))
          ELSE [docs EXCEPT ![ByName(e.name)] = Updated(@, e)]

\* The records that answer to an entry, by slot or by name.
Matches(e) == With("slot", e.slot) \cup With("name", e.name)

\* The update's $or on slot and name takes whichever match the query plan meets first.
Register(e) ==
  IF Matches(e) = {} THEN docs' = Append(docs, New(e))
  ELSE \E i \in Matches(e) : docs' = [docs EXCEPT ![i] = Updated(@, e)]

Collides(e) == \E i, j \in Matches(e) : i # j

\* addCandidate; when it fails it says so, and start() goes on to the next.
AddCandidate ==
  /\ phase = "add" /\ todo # <<>>
  /\ \/ /\ Register(Head(todo)) /\ UNCHANGED failures
        /\ collided' = IF Collides(Head(todo)) THEN collided \cup {Head(todo)} ELSE collided
     \/ /\ failures < MaxFailures /\ failures' = failures + 1
        /\ UNCHANGED <<docs, collided>>
  /\ todo' = Tail(todo)
  /\ UNCHANGED <<phase, config, boots, telemetryRefs, nodes, session, handler, left>>

\* deleteCandidatesWithMissingFields asks for fields that do not exist: a stash of null
\* exists, so nothing is deleted.
Missing(d) == FALSE

\* ... and the last steps of start().
DeleteMissing ==
  /\ phase = "add" /\ todo = <<>>
  /\ phase' = "up"
  /\ docs' = IF \E i \in DOMAIN docs : Missing(docs[i])
              THEN SelectSeq(docs, LAMBDA d : ~Missing(d)) ELSE docs
  /\ UNCHANGED <<config, todo, boots, failures, telemetryRefs, nodes, session, handler, history>>

StartUp == Begin \/ Clean \/ ClearCandidate \/ Cleared \/ AddCandidate \/ DeleteMissing

\* The process dies at any moment.
Die ==
  /\ phase' = "down" /\ todo' = <<>> /\ nodes' = [n \in Names |-> 0]
  /\ offline' = <<>> /\ pos' = 1 /\ step' = "idle" /\ sessionRead' = 0
  /\ reason' = <<>>
  /\ UNCHANGED <<config, boots, failures, docs, telemetryRefs, session, history>>

Crash == phase # "down" /\ boots < MaxBoots /\ Die
-----------------------------------------------------------------------------
(* Nodes.                                                                  *)

\* nodeRefs plus one, in an aggregation pipeline: null stays null.
Add1(refs) == IF refs = Null THEN Null ELSE refs + 1

\* mergeTelemetryNodeToCandidate.
Merged(d) == IF telemetryRefs[d.name] = Null THEN d
             ELSE [d EXCEPT !.refs = telemetryRefs[d.name]]

\* (Variant: a telemetry node begins without a reference.)
TelemetryRefsFromZero(n) == IF telemetryRefs[n] = Null THEN 0 ELSE telemetryRefs[n] + 1

\* reportTelemetryNodeOnline: a node that is unknown begins with one reference.
TelemetryRefs(n) == IF telemetryRefs[n] = Null THEN 1 ELSE telemetryRefs[n] + 1

ReportOnline(n) ==
  /\ phase = "up" /\ nodes[n] < MaxNodes
  /\ nodes' = [nodes EXCEPT ![n] = @ + 1]
  /\ LET i == ByName(n)
     IN  IF i = 0
         THEN /\ telemetryRefs' = [telemetryRefs EXCEPT ![n] = TelemetryRefs(n)]
              /\ UNCHANGED docs
         ELSE /\ docs' = [docs EXCEPT ![i].refs = Add1(Merged(docs[i]).refs)]
              /\ telemetryRefs' = [telemetryRefs EXCEPT ![n] = Null]
  /\ UNCHANGED <<boot, session, handler, history>>

\* With more references than one the candidate loses one; else it is marked offline, and has
\* none.
MoreOnline(refs) == refs # Null /\ refs > 1

ReportOffline(n) ==
  /\ phase = "up" /\ nodes[n] > 0
  /\ nodes' = [nodes EXCEPT ![n] = @ - 1]
  /\ LET i == ByName(n)
     IN  IF i = 0
         THEN /\ telemetryRefs' = [telemetryRefs EXCEPT ![n] = @ - 1]
              /\ UNCHANGED docs
         ELSE /\ docs' = [docs EXCEPT ![i].refs = IF MoreOnline(@) THEN @ - 1 ELSE 0]
              /\ UNCHANGED telemetryRefs
  /\ UNCHANGED <<boot, session, handler, history>>
-----------------------------------------------------------------------------
(* Faults.                                                                 *)

NewSession ==
  /\ session < MaxSession
  /\ session' = session + 1
  /\ UNCHANGED <<boot, docs, telemetryRefs, nodes, handler, history>>

outsideHandler == <<boot, telemetryRefs, nodes, session, history>>

\* One event at a time: sessions last hours.
SomeOffline ==
  /\ phase # "down" /\ step = "idle"
  /\ offline' \in Offences /\ pos' = 1 /\ step' = "session"
  /\ UNCHANGED <<outsideHandler, docs, sessionRead, reason>>

ReadSession ==
  /\ step = "session"
  /\ sessionRead' = session /\ step' = "find"
  /\ UNCHANGED <<outsideHandler, docs, offline, pos, reason>>

AlreadyFaulted(d, why) == \E k \in DOMAIN d.faults : d.faults[k] = why

\* One turn of the loop, up to the report.  A validator that is no candidate ends the handler.
\* The reason names the candidate, and the session before.
FindAccused ==
  /\ step = "find"
  /\ LET i == IF pos > Len(offline) THEN 0 ELSE ByStash(offline[pos])
     IN  IF i = 0 THEN step' = "idle" /\ UNCHANGED <<pos, reason>>
         ELSE LET why == <<docs[i].name, sessionRead - 1>>
              IN  IF AlreadyFaulted(docs[i], why)
                  THEN pos' = pos + 1 /\ UNCHANGED <<step, reason>>
                  ELSE step' = "push" /\ reason' = why /\ UNCHANGED pos
  /\ UNCHANGED <<outsideHandler, docs, offline, sessionRead>>

\* pushFaultEvent, which looks the stash up again.
PushFault ==
  /\ step = "push"
  /\ LET i == ByStash(offline[pos])
     IN  docs' = IF i = 0 \/ AlreadyFaulted(docs[i], reason) THEN docs
                 ELSE [docs EXCEPT ![i].faults = Append(@, reason)]
  /\ pos' = pos + 1 /\ step' = "find"
  /\ UNCHANGED <<outsideHandler, offline, sessionRead, reason>>
-----------------------------------------------------------------------------
RegistryNext ==
  \/ StartUp \/ Crash \/ NewSession \/ SomeOffline \/ ReadSession \/ FindAccused
  \/ PushFault
  \/ \E n \in Names : ReportOnline(n) \/ ReportOffline(n)

RegistrySpec == RegistryInit /\ [][RegistryNext]_registryVars
-----------------------------------------------------------------------------
(* Properties.                                                             *)

\* Every variable holds a value of its kind.
RegistryTypeOK ==
  /\ phase \in {"down", "clean", "clear", "add", "up"}
  /\ config \in Configs \cup {<<>>}
  /\ IF phase = "clear" THEN todo \in Seq(Names) ELSE todo \in Seq(Entries)
  /\ docs \in Seq(Doc)
  /\ telemetryRefs \in [Names -> Nat \cup {Null}] /\ nodes \in [Names -> 0 .. MaxNodes]
  /\ session \in 1 .. MaxSession /\ sessionRead \in 0 .. MaxSession
  /\ offline \in Offences \cup {<<>>} /\ pos \in 1 .. Len(offline) + 1
  /\ step \in {"idle", "session", "find", "push"} /\ reason \in Reasons \cup {<<>>}
  /\ boots \in 0 .. MaxBoots /\ failures \in 0 .. MaxFailures
  /\ left \in [Names -> Nat] /\ collided \subseteq Entries

\* Candidates may join, leave, come back, change their stash, take a new name or a new slot,
\* and a start may be cut short anywhere: two records share a slot or a name, by which all
\* other code looks a candidate up, only where the file once gave the slot of one record and
\* the name of another to one candidate.
OneRecordPerCandidate ==
  \A i, j \in DOMAIN docs : i # j =>
    /\ docs[i].slot = docs[j].slot => \E e \in collided : e.slot = docs[i].slot
    /\ docs[i].name = docs[j].name => \E e \in collided : e.name = docs[i].name

\* Once the process is up, the candidates with a stash are those of the file, but for as
\* many as could not be registered, and unless two records collided; a candidate that left
\* the file has none.
UpMeansConfigured ==
  phase = "up" /\ collided = {} =>
    LET active     == {<<docs[i].slot, docs[i].name, docs[i].stash>> : i \in Active(docs)}
        configured == {<<config[i].slot, config[i].name, config[i].stash>> : i \in DOMAIN config}
    IN  /\ active \subseteq configured
        /\ Cardinality(configured \ active) <= failures

\* The file has an entry of this slot or this name.
Configured(d) == \E k \in DOMAIN config : config[k].slot = d.slot \/ config[k].name = d.name

\* A candidate of the file that has a record keeps it, and with it its faults, through changes
\* of its stash, its name or its slot, registrations that fail, starts cut short, and after an
\* absence.
HistoryKept ==
  [][\A i \in DOMAIN docs : Configured(docs[i]) =>
       \E j \in DOMAIN docs' : /\ docs'[j].slot = docs[i].slot \/ docs'[j].name = docs[i].name
                               /\ IsPrefix(docs[i].faults, docs'[j].faults)]_docs

\* A comment of addCleanCandidates: "removes all candidates that are not in the config"
\* (core/src/index.ts:146); once the process is up, every record has a stash.
OthersAreRemoved == phase = "up" => \A i \in DOMAIN docs : docs[i].stash # Null

\* The references of a telemetry node are the nodes this process was told of, and what its
\* start failed to reset: nothing else is left over from a process that died, whatever it had
\* counted, and none is lost when the name becomes or was a candidate's.
TelemetryNodesCounted ==
  phase = "up" =>
    \A n \in Names : telemetryRefs[n] # Null => telemetryRefs[n] = nodes[n] + left[n]
=============================================================================
