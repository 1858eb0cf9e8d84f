------------------------------- MODULE Scoring -------------------------------
(***************************************************************************)
(* Scores of the valid candidates.  A pass (scoreAllCandidates and the     *)
(* second half of scoreJob) reads the valid candidates, measures how their *)
(* values are distributed (setScoreMetadata), stores that for the session, *)
(* reads the latest metadata back, and places each candidate of its list   *)
(* in the distribution; the score goes to the candidate's row of the       *)
(* session.  Two passes may run at once, of the score job and of a round.  *)
(* Values, locations, validity and the session change between any two of   *)
(* their queries.                                                          *)
(*                                                                         *)
(* Of the components of a score there is one of each shape: rank, where    *)
(* more is better (as bonded and nominatorStake), offline, where less is   *)
(* (as inclusion, spanInclusion, discovered, nominated and faults), and    *)
(* location (as region, country and provider).  Left out: the client and   *)
(* the unclaimed eras, which add a constant, and the random factor of the  *)
(* total.  A score is in thousandths of its weight, rounded down.  The     *)
(* metadata that is stored last is taken for the one updated last: its     *)
(* time is taken a query earlier, so two passes that store at once might   *)
(* go by either.                                                           *)
(***************************************************************************)
EXTENDS Integers, FiniteSets, SequencesExt

CONSTANTS
  Passes,      \* what scores: the score job, a round
  Candidates,  \* in the order of the collection
  Values,      \* what may be known of a candidate
  NoLocation,  \* the city of a candidate without location
  Banned,      \* candidates of a blacklisted provider
  Starts,      \* what may be known of the candidates at first
  Null,
  MaxSession,  \* bound: the last session
  MaxEvents    \* bound: how often a candidate changes, a query fails or the process dies

Cands      == Range(Candidates)
Components == {"rank", "offline", "location"}
Places     == {v.city : v \in Values}

ASSUME ScoringAssumption ==
  /\ IsInjective(Candidates)
  /\ Values \subseteq [rank : Nat, offline : Nat, city : Places, valid : BOOLEAN]
  /\ Starts \subseteq [Cands -> Values]
  /\ Banned \subseteq Cands
  /\ MaxSession \in Nat \ {0} /\ MaxEvents \in Nat

VARIABLES
  values,    \* database: what is known of each candidate
  session,   \* chain: the current session
  meta,      \* database: the metadata updated last, or Null
  rows,      \* database: the scores of each candidate and session, in insertion order
  pc,        \* each pass: where it is,
  list,      \*   its candidates, as they were when read,
  measured,  \*   the metadata it makes, then the metadata it scores by,
  score,     \*   the score in hand,
  found,     \*   whether there was a row for it,
  events

passVars == <<pc, list, measured, score, found>>
vars     == <<values, session, meta, rows, passVars, events>>

Event == events < MaxEvents /\ events' = events + 1
Sound == UNCHANGED events
-----------------------------------------------------------------------------
(* Placing a value in a distribution (score.ts), in thousandths.           *)

Sorted(seq) == SortSeq(seq, LAMBDA a, b : a < b)

\* quantile: 1000 times the value at the q-th tenth of seq.
Quantile(seq, q) ==
  LET s    == Sorted(seq)
      pos  == (Len(s) - 1) * q
      base == pos \div 10 + 1
  IN  IF base + 1 \in DOMAIN s
      THEN 1000 * s[base] + 100 * (pos % 10) * (s[base + 1] - s[base])
      ELSE 1000 * s[base]

Scaled(v, low, high) ==
  IF 1000 * v <= low THEN 0
  ELSE IF 1000 * v >= high THEN 1000
  ELSE (1000 * (1000 * v - low)) \div (high - low)

RankScore(v, stats) == Scaled(v, Quantile(stats.rank, 1), Quantile(stats.rank, 9))

OfflineScore(v, stats) ==
  1000 - Scaled(v, Quantile(stats.offline, 1), Quantile(stats.offline, 9))

\* Between the fewest and the most nodes of a city.  A city the metadata does not know gives
\* NaN, so 0, so the full weight.
LocationScore(c, city, stats) ==
  LET counts == Range(stats.nodes)
  IN  IF c \in Banned THEN 0
      ELSE IF city = NoLocation THEN 250
      ELSE IF city \notin DOMAIN stats.nodes THEN 1000
      ELSE 1000 - Scaled(stats.nodes[city], 1000 * Min(counts), 1000 * Max(counts))

\* scoreCandidate: rank and offline are those of the copy d, the city is asked for.
ScoreOf(d, city, stats) ==
  [rank     |-> RankScore(d.rank, stats),
   offline  |-> OfflineScore(d.offline, stats),
   location |-> LocationScore(d.cand, city, stats)]

\* The valid candidates, copied (validCandidates).
Valid  == SelectSeq(Candidates, LAMBDA c : values[c].valid)
Copies == [i \in DOMAIN Valid |-> [cand |-> Valid[i], rank |-> values[Valid[i]].rank,
                                   offline |-> values[Valid[i]].offline]]

\* getBondedValues and the like, over copies.
Distribution(copies) == [session |-> 0, nodes |-> <<>>,
                         rank    |-> [i \in DOMAIN copies |-> copies[i].rank],
                         offline |-> [i \in DOMAIN copies |-> copies[i].offline]]

\* getLocationValues: how many of cs are where, those without location counted as well.
Nodes(cs) == [city \in {values[c].city : c \in cs} |-> Cardinality({c \in cs : values[c].city = city})]
-----------------------------------------------------------------------------
Init ==
  /\ values \in Starts /\ session = 1
  /\ meta = Null /\ rows = [c \in Cands |-> [s \in 1 .. MaxSession |-> <<>>]]
  /\ pc = [p \in Passes |-> "idle"] /\ list = [p \in Passes |-> <<>>]
  /\ measured = [p \in Passes |-> Null] /\ score = [p \in Passes |-> Null]
  /\ found = [p \in Passes |-> FALSE]
  /\ events = 0
-----------------------------------------------------------------------------
(* What changes around the passes.                                         *)

\* A job writes a new value; the check of a candidate turns out otherwise; a node tells
\* where it is.  Whichever record setLocation writes is the one updated last.
ChangeValues(c) ==
  /\ Event
  /\ \E v \in Values : v # values[c] /\ values' = [values EXCEPT ![c] = v]
  /\ UNCHANGED <<session, meta, rows, passVars>>

NewSession ==
  /\ session < MaxSession /\ session' = session + 1
  /\ UNCHANGED <<values, meta, rows, passVars, events>>

\* The process is killed, with all its passes.
Crash ==
  /\ Event
  /\ pc' = [p \in Passes |-> "idle"] /\ list' = [p \in Passes |-> <<>>]
  /\ measured' = [p \in Passes |-> Null] /\ score' = [p \in Passes |-> Null]
  /\ found' = [p \in Passes |-> FALSE]
  /\ UNCHANGED <<values, session, meta, rows>>
-----------------------------------------------------------------------------
(* A pass.                                                                 *)

outside == <<values, session>>

Goto(p, at) == pc' = [pc EXCEPT ![p] = at]

ReadList(p) ==
  /\ pc[p] = "idle" /\ Valid # <<>>
  /\ list' = [list EXCEPT ![p] = Copies] /\ Goto(p, "session")
  /\ UNCHANGED <<outside, meta, rows, measured, score, found, events>>

\* setScoreMetadata asks for the session; without one, or when the query throws, it returns
\* false, which nobody reads.
ReadSession(p) ==
  /\ pc[p] = "session"
  /\ \/ /\ Sound /\ Goto(p, "measure")
        /\ measured' = [measured EXCEPT ![p] = [Distribution(<<>>) EXCEPT !.session = session]]
     \/ Event /\ Goto(p, "read") /\ UNCHANGED measured
  /\ UNCHANGED <<outside, meta, rows, list, score, found>>

\* Its own list of valid candidates, which may be another by now, or empty.
Measure(p) ==
  /\ pc[p] = "measure"
  /\ IF Valid = <<>>
     THEN Goto(p, "read") /\ UNCHANGED measured
     ELSE /\ Goto(p, "locate")
          /\ measured' = [measured EXCEPT ![p] =
               [Distribution(Copies) EXCEPT !.session = measured[p].session,
                                            !.nodes = Nodes(Range(Valid))]]
  /\ UNCHANGED <<outside, meta, rows, list, score, found, events>>

\* (Variant: metadata of a session is written once.)
SaveMetadataOnce(p) ==
  /\ pc[p] = "locate"
  /\ meta' = IF meta # Null /\ meta.session = measured[p].session THEN meta ELSE measured[p]
  /\ Goto(p, "read")
  /\ UNCHANGED <<outside, rows, list, measured, score, found, events>>

\* setValidatorScoreMetadata inserts or updates the session's row: either way it is the one
\* updated last.
SaveMetadata(p) ==
  /\ pc[p] = "locate"
  /\ \/ Sound /\ meta' = measured[p]
     \/ Event /\ UNCHANGED meta
  /\ Goto(p, "read")
  /\ UNCHANGED <<outside, rows, list, measured, score, found>>

\* (Variant: there is always metadata.)
ReadMetadataUnchecked(p) ==
  /\ pc[p] = "read"
  /\ measured' = [measured EXCEPT ![p] = meta]
  /\ Goto(p, "find")
  /\ UNCHANGED <<outside, meta, rows, list, score, found, events>>

\* Without any metadata scoreCandidate throws and catches, for each candidate.
ReadMetadata(p) ==
  /\ pc[p] = "read"
  /\ measured' = [measured EXCEPT ![p] = meta]
  /\ IF meta = Null THEN Goto(p, "idle") /\ list' = [list EXCEPT ![p] = <<>>]
                    ELSE Goto(p, "find") /\ UNCHANGED list
  /\ UNCHANGED <<outside, meta, rows, score, found, events>>

Row(p) == rows[list[p][1].cand][measured[p].session]

Found(p) == Row(p) # <<>>

\* getCandidateLocation: of the location updated last.
CityOf(c) == values[c].city

\* The score, and whether the session has a row of the candidate (setValidatorScore).
FindRow(p) ==
  /\ pc[p] = "find"
  /\ LET d == list[p][1]
     IN  score' = [score EXCEPT ![p] = ScoreOf(d, CityOf(d.cand), measured[p])]
  /\ found' = [found EXCEPT ![p] = Found(p)]
  /\ Goto(p, "save")
  /\ UNCHANGED <<outside, meta, rows, list, measured, events>>

\* Insert, or update the first that matches; a failure is logged.  Then the next candidate.
SaveRow(p) ==
  /\ pc[p] = "save"
  /\ \/ /\ Sound
        /\ rows' = [rows EXCEPT ![list[p][1].cand][measured[p].session] =
                      IF found[p] THEN <<score[p]>> \o Tail(@) ELSE Append(@, score[p])]
     \/ Event /\ UNCHANGED rows
  /\ list' = [list EXCEPT ![p] = Tail(@)]
  /\ score' = [score EXCEPT ![p] = Null] /\ found' = [found EXCEPT ![p] = FALSE]
  /\ IF Len(list[p]) = 1
     THEN Goto(p, "idle") /\ measured' = [measured EXCEPT ![p] = Null]
     ELSE Goto(p, "find") /\ UNCHANGED measured
  /\ UNCHANGED <<outside, meta>>

Pass(p) == \/ ReadList(p) \/ ReadSession(p) \/ Measure(p) \/ SaveMetadata(p)
           \/ ReadMetadata(p) \/ FindRow(p) \/ SaveRow(p)
-----------------------------------------------------------------------------
Next ==
  \/ NewSession \/ Crash
  \/ \E c \in Cands : ChangeValues(c)
  \/ \E p \in Passes : Pass(p)

Spec == Init /\ [][Next]_vars

\* Cron starts the job and the rounds again and again, and their queries return.
FairSpec == Spec /\ \A p \in Passes : WF_vars(Pass(p))
-----------------------------------------------------------------------------
(* Properties.                                                             *)

Stats == [session : 1 .. MaxSession, rank : Seq(Nat), offline : Seq(Nat),
          nodes : UNION {[cs -> 1 .. Cardinality(Cands)] : cs \in SUBSET Places}]
Copy  == [cand : Cands, rank : Nat, offline : Nat]
Score == [Components -> Int]

\* Every variable holds a value of its kind; a pass that scores has a list and metadata.
TypeOK ==
  /\ values \in [Cands -> Values] /\ session \in 1 .. MaxSession
  /\ meta \in Stats \cup {Null}
  /\ rows \in [Cands -> [1 .. MaxSession -> Seq(Score)]]
  /\ pc \in [Passes -> {"idle", "session", "measure", "locate", "read", "find", "save"}]
  /\ list \in [Passes -> Seq(Copy)]
  /\ measured \in [Passes -> Stats \cup {Null}]
  /\ score \in [Passes -> Score \cup {Null}]
  /\ found \in [Passes -> BOOLEAN]
  /\ \A p \in Passes : pc[p] \in {"find", "save"} => list[p] # <<>> /\ measured[p] # Null
  /\ events \in 0 .. MaxEvents

\* What setScoreMetadata would store now, and the score a candidate should have.
CurrentStats == [Distribution(Copies) EXCEPT !.session = session, !.nodes = Nodes(Range(Valid))]

\* The row setValidatorScore updates is the one getLatestValidatorScore finds first.
UpToDate(c) ==
  values[c].valid =>
    /\ rows[c][session] # <<>>
    /\ rows[c][session][1] = ScoreOf([cand |-> c] @@ values[c], values[c].city, CurrentStats)

\* When nothing changes any more, every valid candidate ends up with the score that follows
\* from what is known: not from the metadata of an older session or list that a slow pass
\* stored, nor from a row that a failed query left behind.
ScoresCatchUp == <>[](\A c \in Cands : UpToDate(c))
=============================================================================
