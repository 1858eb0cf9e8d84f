----------------------------- MODULE ScanPromise -----------------------------
(***************************************************************************)
(* What the block scanner promises of its records: the index is an         *)
(* interval of blocks that only grows, and a block enters it only when the *)
(* payouts of its calls are recorded or were knowingly given up; rows stay *)
(* once stored; the row of a payout comes after those of its rewards.      *)
(* BlockIndex, with its loops, tasks, orphans and crashes, implements it.  *)
(***************************************************************************)
EXTENDS Integers

CONSTANTS
  Claims, PaidBy, Payout,
  CallsAt,   \* of each block, the calls of payoutStakers in it
  Failed,    \* claims with a call that failed on the chain
  NoIndex

VARIABLES
  head,      \* the chain's last block
  index,     \* NoIndex, or the interval of scanned blocks
  stored,    \* pairs of a claim and a row stored for it
  givenUp    \* claims left for something that could not be read

promiseVars == <<head, index, stored, givenUp>>

Rows == (UNION {PaidBy[c] : c \in Claims}) \cup {Payout}

Indexed(b) == index # NoIndex /\ b \in index.earliest .. index.latest

DoneWith(k) ==
  \/ k.claim \in givenUp
  \/ /\ <<k.claim, Payout>> \in stored
     /\ k.ok => \A s \in PaidBy[k.claim] : <<k.claim, s>> \in stored

Scanned(b) == \A k \in CallsAt[b] : DoneWith(k)

Init ==
  /\ head \in Nat /\ index = NoIndex
  /\ stored = {} /\ givenUp = {}

Grow == head' = head + 1 /\ UNCHANGED <<index, stored, givenUp>>

\* The row of the payout is the last, unless a call for the claim failed.
Store(c, new) ==
  /\ Payout \in new /\ c \notin Failed => \A s \in PaidBy[c] : <<c, s>> \in stored
  /\ stored' = stored \cup ({c} \X new)
  /\ UNCHANGED <<head, index, givenUp>>

GiveUp(cs) ==
  /\ givenUp' = givenUp \cup cs
  /\ UNCHANGED <<head, index, stored>>

\* The smallest interval with the index and block b.
Hull(b) ==
  IF index = NoIndex THEN [earliest |-> b, latest |-> b]
  ELSE [earliest |-> IF b < index.earliest THEN b ELSE index.earliest,
        latest   |-> IF b > index.latest THEN b ELSE index.latest]

\* It may grow by more than one block, when it could not be stored for a while.
Index(b) ==
  /\ b <= head
  /\ \A e \in Hull(b).earliest .. Hull(b).latest : Indexed(e) \/ Scanned(e)
  /\ index' = Hull(b)
  /\ UNCHANGED <<head, stored, givenUp>>

Widen == index' # NoIndex /\ \E b \in {index'.earliest, index'.latest} : Index(b)

Next ==
  \/ Grow
  \/ \E c \in Claims, new \in SUBSET Rows : Store(c, new)
  \/ \E cs \in SUBSET Claims : GiveUp(cs)
  \/ Widen

Spec == Init /\ [][Next]_promiseVars
=============================================================================
