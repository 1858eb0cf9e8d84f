------------------------------ MODULE Telemetry ------------------------------
(***************************************************************************)
(* The telemetry client: it follows which nodes are connected to the       *)
(* substrate-telemetry server and keeps, in the database, whether each     *)
(* node name is online and how many nodes go by it (nodeRefs).             *)
(*                                                                         *)
(* Every message of the feed starts a handler that nobody awaits, so       *)
(* handlers interleave at each database call; reportOffline besides starts *)
(* writes that its own handler does not wait for.  Two handlers of one     *)
(* name may spoil its record, which the history variable mixed remembers.  *)
(* A lost socket is dialed again, and the server then announces every      *)
(* connected node anew.                                                    *)
(***************************************************************************)
EXTENDS Integers, FiniteSets

CONSTANTS
  Ids,          \* telemetry ids; a node that reconnects to the server gets a new one
  Names,        \* telemetry names
  NameOf,       \* the name of each id
  Candidates,   \* the names that belong to candidates
  Sockets,      \* bound: sockets open at once
  Crowds,       \* bound: the ids that join in one behaviour are of one of these sets
  Handlers,     \* bound: messages handled at once
  MaxDrops,     \* bound: how often a socket is lost
  MaxRestarts   \* bound: how often the process restarts

ASSUME TelemetryAssumption ==
  /\ NameOf \in [Ids -> Names]
  /\ Candidates \subseteq Names
  /\ Crowds \subseteq SUBSET Ids
  /\ MaxDrops \in Nat
  /\ MaxRestarts \in Nat

VARIABLES
  present, used,   \* server: ids connected now, and ever
  told,            \* per socket, None or the ids it has announced
  dials,           \* reconnect() calls waiting to dial
  memNodes,        \* ids whose details are cached
  disconnected,    \* disconnectedNodes: "no", "recent", "long" after five minutes, or "brief": off
                   \* the map before these are over
  offlineNodes,    \* names reported offline
  handler,         \* per handler: the message and the stage it is at
  late,            \* per name, the writes of setCandidateOnlineNotValid still to come
  online,          \* database: the ONLINE validity, or onlineSince > 0
  offline,         \* database: offlineSince > 0
  nodeRefs,        \* database: nodes going by the name
  stored,          \* database: names with a candidate or telemetry node record
  mixed,           \* history: names of which this process handled an AddedNode while it
                   \* reported the name offline, or made a second record
  drops, restarts

server == <<present, used>>
memory == <<memNodes, disconnected, offlineNodes>>
db     == <<online, offline, nodeRefs, stored>>
vars   == <<server, told, dials, memory, handler, late, db, mixed, drops, restarts>>

Closed == [open |-> FALSE, ids |-> {}]
Kinds  == {"added", "removed", "other"}
Stages == {"idle", "check", "reportOffline", "decrement", "goOffline", "revalidate",
           "markOffline", "reportOnline", "addNew", "update", "offlineTime", "addRef", "settle"}
Idle   == [stage |-> "idle", kind |-> "other", id |-> CHOOSE i \in Ids : TRUE,
           name |-> CHOOSE n \in Names : TRUE]

\* The nodes the client takes to be connected under a name.
Known(n) == {i \in memNodes : NameOf[i] = n}

\* Names whose report of being offline is under way, and names that are being put online.
Reporting == {n \in Names : \/ late[n] # "none"
                            \/ \E h \in Handlers :
                                 /\ handler[h].name = n
                                 /\ handler[h].stage \in {"reportOffline", "decrement", "goOffline",
                                                         "revalidate", "markOffline"}}
Adding == {handler[h].name : h \in {g \in Handlers :
             handler[g].stage \in {"reportOnline", "addNew", "update", "offlineTime", "addRef",
                                  "settle"}}}
-----------------------------------------------------------------------------
Init ==
  /\ present = {} /\ used = {}
  /\ told = [s \in Sockets |-> Closed] /\ dials = 1
  /\ memNodes = {} /\ disconnected = [n \in Names |-> "no"] /\ offlineNodes = {}
  /\ handler = [h \in Handlers |-> Idle]
  /\ late = [n \in Names |-> "none"]
  /\ online = [n \in Names |-> FALSE] /\ offline = [n \in Names |-> FALSE]
  /\ nodeRefs = [n \in Names |-> 0] /\ stored = Candidates
  /\ mixed = {} /\ drops = 0 /\ restarts = 0
-----------------------------------------------------------------------------
(* The server and the clock.                                               *)

Join(i) ==
  /\ i \notin used /\ \E crowd \in Crowds : used \cup {i} \subseteq crowd
  /\ present' = present \cup {i} /\ used' = used \cup {i}
  /\ UNCHANGED <<told, dials, memory, handler, late, db, mixed, drops, restarts>>

Leave(i) ==
  /\ i \in present
  /\ present' = present \ {i}
  /\ UNCHANGED <<used, told, dials, memory, handler, late, db, mixed, drops, restarts>>

\* Five minutes pass; a report that was under way when the node left is done by then.
FiveMinutes(n) ==
  /\ disconnected[n] = "recent" /\ n \notin Reporting
  /\ disconnected' = [disconnected EXCEPT ![n] = "long"]
  /\ UNCHANGED <<server, told, dials, memNodes, offlineNodes, handler, late, db,
                 mixed, drops, restarts>>
-----------------------------------------------------------------------------
(* The sockets.                                                            *)

\* A dial opens a socket, or fails: then "error" and "close" each dial again.
Dial ==
  /\ dials > 0
  /\ \E s \in Sockets : /\ ~told[s].open
                        /\ told' = [told EXCEPT ![s] = [open |-> TRUE, ids |-> {}]]
  /\ dials' = dials - 1
  /\ UNCHANGED <<server, memory, handler, late, db, mixed, drops, restarts>>

DialFails ==
  /\ dials > 0 /\ drops < MaxDrops
  /\ dials' = dials + 1 /\ drops' = drops + 1
  /\ UNCHANGED <<server, told, memory, handler, late, db, mixed, restarts>>

\* An open socket closes, with or without an error before.
Drop(s) ==
  /\ told[s].open /\ drops < MaxDrops
  /\ told' = [told EXCEPT ![s] = Closed]
  /\ dials' \in {dials + 1, dials + 2}
  /\ drops' = drops + 1
  /\ UNCHANGED <<server, memory, handler, late, db, mixed, restarts>>

\* (Variant: the nodes known as disconnected outlive the process.)
RestartKeepsMap ==
  /\ restarts < MaxRestarts
  /\ restarts' = restarts + 1
  /\ told' = [s \in Sockets |-> Closed] /\ dials' = 1
  /\ memNodes' = {} /\ offlineNodes' = {}
  /\ handler' = [h \in Handlers |-> Idle]
  /\ late' = [n \in Names |-> "none"]
  /\ nodeRefs' = [n \in Names |-> 0] /\ mixed' = {}
  /\ UNCHANGED <<server, disconnected, online, offline, stored, drops>>

\* The process restarts: the maps are empty, cleanDB resets every nodeRefs and
\* clearCandidates forgives the candidates their offline time.
Restart ==
  /\ restarts < MaxRestarts
  /\ restarts' = restarts + 1
  /\ told' = [s \in Sockets |-> Closed] /\ dials' = 1
  /\ memNodes' = {} /\ disconnected' = [n \in Names |-> "no"] /\ offlineNodes' = {}
  /\ handler' = [h \in Handlers |-> Idle]
  /\ late' = [n \in Names |-> "none"]
  /\ nodeRefs' = [n \in Names |-> 0] /\ mixed' = {}
  /\ offline' = [n \in Names |-> offline[n] /\ n \notin Candidates]
  /\ UNCHANGED <<server, online, stored, drops>>
-----------------------------------------------------------------------------
(* Messages: handleTelemetryMessage.                                       *)

Goto(h, stage) == handler' = [handler EXCEPT ![h].stage = stage]

\* A message of the feed starts a handler, which first runs checkOffline.
Receive(s, h, kind, i) ==
  /\ told[s].open /\ handler[h].stage = "idle"
  /\ handler' = [handler EXCEPT ![h] = [stage |-> "check", kind |-> kind, id |-> i,
                                        name |-> NameOf[i]]]
  /\ UNCHANGED <<server, dials, memory, late, db, mixed, drops, restarts>>

ReceiveAdded(s, h) ==
  \E i \in present \ told[s].ids :
    /\ Receive(s, h, "added", i)
    /\ told' = [told EXCEPT ![s].ids = @ \cup {i}]

ReceiveRemoved(s, h) ==
  \E i \in told[s].ids \ present :
    /\ Receive(s, h, "removed", i)
    /\ told' = [told EXCEPT ![s].ids = @ \ {i}]

\* ImportedBlock and FeedVersion: of interest only for the checkOffline they bring.
ReceiveOther(s, h) == Receive(s, h, "other", Idle.id) /\ UNCHANGED told

outsideHandler == <<server, told, dials, drops, restarts>>

\* checkOffline takes a name that was gone for five minutes off the map and reports it.
CheckOffline(h) ==
  /\ handler[h].stage = "check"
  /\ \E n \in Names :
       /\ disconnected[n] = "long"
       /\ disconnected' = [disconnected EXCEPT ![n] = "no"]
       /\ handler' = [handler EXCEPT ![h].stage = "reportOffline", ![h].name = n]
       /\ mixed' = mixed \cup ({n} \cap Adding)
  /\ UNCHANGED <<outsideHandler, memNodes, offlineNodes, late, db>>

\* A handler that is putting the name online takes it off the map when it is done.
Fresh(n) == IF n \in Adding THEN "brief" ELSE "recent"

\* Nobody is left to report: handleAddedNode or handleRemovedNode begins.
HandleMessage(h) ==
  /\ handler[h].stage = "check"
  /\ \A n \in Names : disconnected[n] # "long"
  /\ LET i == handler[h].id IN
     \/ /\ handler[h].kind = "added"
        /\ memNodes' = memNodes \cup {i}
        /\ handler' = [handler EXCEPT ![h].stage = "reportOnline", ![h].name = NameOf[i]]
        /\ mixed' = mixed \cup ({NameOf[i]} \cap Reporting)
        /\ UNCHANGED disconnected
     \/ /\ handler[h].kind = "removed"
        /\ memNodes' = memNodes \ {i}
        /\ disconnected' = IF i \in memNodes
                           THEN [disconnected EXCEPT ![NameOf[i]] = Fresh(NameOf[i])]
                           ELSE disconnected
        /\ handler' = [handler EXCEPT ![h] = Idle] /\ UNCHANGED mixed
     \/ /\ handler[h].kind = "other"
        /\ handler' = [handler EXCEPT ![h] = Idle]
        /\ UNCHANGED <<memNodes, disconnected, mixed>>
  /\ UNCHANGED <<outsideHandler, offlineNodes, late, db>>
-----------------------------------------------------------------------------
(* reportOffline and reportTelemetryNodeOffline.                           *)

\* (Variant: nodeRefs is not looked at.)
ReportOfflineAtOnce(h) ==
  /\ handler[h].stage = "reportOffline"
  /\ LET n == handler[h].name IN
     /\ online' = [online EXCEPT ![n] = FALSE]
     /\ nodeRefs' = [nodeRefs EXCEPT ![n] = IF @ > 0 THEN @ - 1 ELSE 0]
  /\ Goto(h, "markOffline")
  /\ UNCHANGED <<outsideHandler, mixed, memory, late, offline, stored>>

\* Read the record.  With several nodes under the name, decrement nodeRefs; else the
\* name is offline, which a candidate's record learns from writes not awaited here.
ReportOffline(h) ==
  /\ handler[h].stage = "reportOffline"
  /\ LET n == handler[h].name IN
     \/ /\ n \in stored /\ nodeRefs[n] > 1
        /\ Goto(h, "decrement") /\ UNCHANGED <<late, db>>
     \/ /\ n \in Candidates /\ nodeRefs[n] <= 1
        /\ late' = [late EXCEPT ![n] = "invalid"]
        /\ Goto(h, "markOffline") /\ UNCHANGED db
     \/ /\ n \in stored \ Candidates /\ nodeRefs[n] <= 1
        /\ Goto(h, "goOffline") /\ UNCHANGED <<late, db>>
     \/ /\ n \notin stored
        /\ Goto(h, "markOffline") /\ UNCHANGED <<late, db>>
  /\ UNCHANGED <<outsideHandler, mixed, memory>>

\* reportTelemetryNodeOffline's update, by what it has read.
GoOffline(h) ==
  /\ handler[h].stage = "goOffline"
  /\ LET n == handler[h].name IN
     /\ offline' = [offline EXCEPT ![n] = TRUE]
     /\ online' = [online EXCEPT ![n] = FALSE]
     /\ nodeRefs' = [nodeRefs EXCEPT ![n] = @ - 1]
  /\ Goto(h, "markOffline")
  /\ UNCHANGED <<outsideHandler, mixed, memory, late, stored>>

DecrementRefs(h) ==
  /\ handler[h].stage = "decrement"
  /\ LET n == handler[h].name IN
     /\ nodeRefs' = [nodeRefs EXCEPT ![n] = @ - 1]
     /\ Goto(h, IF n \in Candidates THEN "revalidate" ELSE "markOffline")
  /\ UNCHANGED <<outsideHandler, mixed, memory, late, online, offline, stored>>

\* setCandidateOnlineValid after the decrement.
Revalidate(h) ==
  /\ handler[h].stage = "revalidate"
  /\ online' = [online EXCEPT ![handler[h].name] = TRUE]
  /\ Goto(h, "markOffline")
  /\ UNCHANGED <<outsideHandler, mixed, memory, late, offline, nodeRefs, stored>>

MarkOffline(h) ==
  /\ handler[h].stage = "markOffline"
  /\ offlineNodes' = offlineNodes \cup {handler[h].name}
  /\ Goto(h, "check")
  /\ UNCHANGED <<outsideHandler, mixed, memNodes, disconnected, late, db>>

\* setCandidateOnlineNotValid: the validity, then the rest of the record.
LateInvalid(n) ==
  /\ late[n] = "invalid"
  /\ late' = [late EXCEPT ![n] = "reset"]
  /\ online' = [online EXCEPT ![n] = FALSE]
  /\ UNCHANGED <<outsideHandler, mixed, memory, handler, offline, nodeRefs, stored>>

LateReset(n) ==
  /\ late[n] = "reset"
  /\ late' = [late EXCEPT ![n] = "none"]
  /\ offline' = [offline EXCEPT ![n] = TRUE]
  /\ nodeRefs' = [nodeRefs EXCEPT ![n] = 0]
  /\ UNCHANGED <<outsideHandler, mixed, memory, handler, online, stored>>
-----------------------------------------------------------------------------
(* reportOnline, reportTelemetryNodeOnline, and the end of handleAddedNode. *)

\* A candidate becomes online-valid; for another node, look whether it has a record.
ReportOnline(h) ==
  /\ handler[h].stage = "reportOnline"
  /\ LET n == handler[h].name IN
     \/ /\ n \in Candidates
        /\ online' = [online EXCEPT ![n] = TRUE]
        /\ Goto(h, "offlineTime")
     \/ /\ n \notin Candidates
        /\ Goto(h, IF n \in stored THEN "update" ELSE "addNew")
        /\ UNCHANGED online
  /\ UNCHANGED <<outsideHandler, mixed, memory, late, offline, nodeRefs, stored>>

\* addNewTelemetryNode.  When another handler was faster there are two records, and
\* every later query finds the first.
AddNew(h) ==
  /\ handler[h].stage = "addNew"
  /\ LET n == handler[h].name IN
     IF n \in stored THEN mixed' = mixed \cup {n} /\ UNCHANGED db
     ELSE /\ stored' = stored \cup {n} /\ UNCHANGED mixed
          /\ nodeRefs' = [nodeRefs EXCEPT ![n] = 1]
          /\ online' = [online EXCEPT ![n] = TRUE]
          /\ offline' = [offline EXCEPT ![n] = FALSE]
  /\ Goto(h, "settle")
  /\ UNCHANGED <<outsideHandler, memory, late>>

\* (Variants: the $inc left out; onlineSince left out.)
UpdateWithoutRef(h) ==
  /\ handler[h].stage = "update"
  /\ online' = [online EXCEPT ![handler[h].name] = TRUE]
  /\ Goto(h, "offlineTime")
  /\ UNCHANGED <<outsideHandler, mixed, memory, late, offline, nodeRefs, stored>>
UpdateRefOnly(h) ==
  /\ handler[h].stage = "update"
  /\ nodeRefs' = [nodeRefs EXCEPT ![handler[h].name] = @ + 1]
  /\ Goto(h, "offlineTime")
  /\ UNCHANGED <<outsideHandler, mixed, memory, late, online, offline, stored>>

\* updateExistingTelemetryNode
UpdateExisting(h) ==
  /\ handler[h].stage = "update"
  /\ LET n == handler[h].name IN
     /\ online' = [online EXCEPT ![n] = TRUE]
     /\ nodeRefs' = [nodeRefs EXCEPT ![n] = @ + 1]
  /\ Goto(h, "offlineTime")
  /\ UNCHANGED <<outsideHandler, mixed, memory, late, offline, stored>>

\* updateCandidateOfflineTime, updateTelemetryNodeOfflineTime
UpdateOfflineTime(h) ==
  /\ handler[h].stage = "offlineTime"
  /\ offline' = [offline EXCEPT ![handler[h].name] = FALSE]
  /\ Goto(h, IF handler[h].name \in Candidates THEN "addRef" ELSE "settle")
  /\ UNCHANGED <<outsideHandler, mixed, memory, late, online, nodeRefs, stored>>

\* updateCandidateOnlineTelemetryDetails
AddRef(h) ==
  /\ handler[h].stage = "addRef"
  /\ nodeRefs' = [nodeRefs EXCEPT ![handler[h].name] = @ + 1]
  /\ Goto(h, "settle")
  /\ UNCHANGED <<outsideHandler, mixed, memory, late, online, offline, stored>>

\* The name is neither offline nor disconnected any more.
Settle(h) ==
  /\ handler[h].stage = "settle"
  /\ offlineNodes' = offlineNodes \ {handler[h].name}
  /\ disconnected' = [disconnected EXCEPT ![handler[h].name] = "no"]
  /\ handler' = [handler EXCEPT ![h] = Idle]
  /\ UNCHANGED <<outsideHandler, mixed, memNodes, late, db>>
-----------------------------------------------------------------------------
Handle(h) ==
  \/ CheckOffline(h) \/ HandleMessage(h)
  \/ ReportOffline(h) \/ DecrementRefs(h) \/ GoOffline(h) \/ Revalidate(h) \/ MarkOffline(h)
  \/ ReportOnline(h) \/ AddNew(h) \/ UpdateExisting(h) \/ UpdateOfflineTime(h) \/ AddRef(h)
  \/ Settle(h)

Late(n) == LateInvalid(n) \/ LateReset(n)

Next ==
  \/ \E i \in Ids : Join(i) \/ Leave(i)
  \/ \E n \in Names : FiveMinutes(n) \/ Late(n)
  \/ Dial \/ DialFails \/ (\E s \in Sockets : Drop(s)) \/ Restart
  \/ \E s \in Sockets, h \in Handlers :
       ReceiveAdded(s, h) \/ ReceiveRemoved(s, h) \/ ReceiveOther(s, h)
  \/ \E h \in Handlers : Handle(h)

Spec == Init /\ [][Next]_vars

\* A dial succeeds in the end; the event loop and the database finish what was started;
\* blocks keep coming.  Strongly: five minutes pass, and the feed brings every join and
\* leave in its turn, however often a handler is busy with something else.
Fairness ==
  /\ WF_vars(Dial)
  /\ \A s \in Sockets :
       /\ SF_vars(\E h \in Handlers : ReceiveAdded(s, h) \/ ReceiveRemoved(s, h))
       /\ WF_vars(\E h \in Handlers : ReceiveOther(s, h))
  /\ \A h \in Handlers : WF_vars(Handle(h))
  /\ \A n \in Names : WF_vars(Late(n)) /\ SF_vars(FiveMinutes(n))

FairSpec == Spec /\ Fairness
-----------------------------------------------------------------------------
\* Every variable holds a value of its kind; in particular no nodeRefs goes below zero, but of
\* a name whose messages were mixed.
TypeOK ==
  /\ present \subseteq used /\ used \subseteq Ids
  /\ told \in [Sockets -> [open : BOOLEAN, ids : SUBSET used]]
  /\ dials \in Nat
  /\ memNodes \subseteq used
  /\ disconnected \in [Names -> {"no", "brief", "recent", "long"}]
  /\ offlineNodes \subseteq Names
  /\ handler \in [Handlers -> [stage : Stages, kind : Kinds, id : Ids, name : Names]]
  /\ late \in [Names -> {"none", "invalid", "reset"}]
  /\ online \in [Names -> BOOLEAN] /\ offline \in [Names -> BOOLEAN]
  /\ nodeRefs \in [Names -> Int] /\ \A n \in Names \ mixed : nodeRefs[n] >= 0
  /\ stored \subseteq Names /\ mixed \subseteq Names
  /\ drops \in 0 .. MaxDrops /\ restarts \in 0 .. MaxRestarts

\* A handler that has yet to count its node.
Uncounted(h) ==
  \/ handler[h].stage \in {"reportOnline", "addNew", "update", "addRef"}
  \/ handler[h].stage = "offlineTime" /\ handler[h].name \in Candidates

\* The nodeRefs of a name count at least the nodes the client knows under it, those that a
\* handler has still to add counted in: what reportOffline decides by never undercounts.
RefsCoverKnownNodes ==
  \A n \in Names \ mixed :
    Cardinality(Known(n)) <=
      nodeRefs[n] + Cardinality({h \in Handlers : handler[h].name = n /\ Uncounted(h)})

\* A name is declared offline only when the client knows no node of it.
OfflineOnlyWhenGone ==
  [][\A n \in Names \ mixed :
       (online[n] /\ ~online'[n]) \/ (~offline[n] /\ offline'[n]) => Known(n) = {}]_vars

\* A node that stays connected is online in the database from some time on.
ConnectedStaysOnline ==
  \A i \in Ids :
    <>[](i \in present) => <>[](online[NameOf[i]] \/ NameOf[i] \in mixed)
=============================================================================
