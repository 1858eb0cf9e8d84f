------------------------------ MODULE EraLedger ------------------------------
(***************************************************************************)
(* What the two jobs that write down eras after the fact promise: an entry *)
(* is a draft until it is sealed; a sealed one is the truth about its era, *)
(* which has come by then, and is never touched again.  EraStatistics and  *)
(* ValidatorSets, with their failures and crashes, implement it.           *)
(***************************************************************************)
EXTENDS Integers

CONSTANTS
  Truth,    \* of each era, what is to be written down
  Drafts,   \* what may stand in its place meanwhile
  Ahead     \* by how many eras a draft may be early

VARIABLES
  now,      \* the latest era there is a truth of
  ledger,   \* of each era, what is written down, {} at first
  sealed    \* the eras that are written down for good

ledgerVars == <<now, ledger, sealed>>

Eras == DOMAIN Truth

Init ==
  /\ now \in Nat
  /\ ledger = [e \in Eras |-> {}]
  /\ sealed = {}

Tick == now' \in Nat /\ now' > now /\ UNCHANGED <<ledger, sealed>>

Draft(e, v) ==
  /\ e \notin sealed /\ e <= now + Ahead
  /\ ledger' = [ledger EXCEPT ![e] = v]
  /\ UNCHANGED <<now, sealed>>

Seal(e) ==
  /\ e <= now
  /\ ledger' = [ledger EXCEPT ![e] = Truth[e]]
  /\ sealed' = sealed \cup {e}
  /\ UNCHANGED now

Next ==
  \/ Tick
  \/ \E e \in Eras : Seal(e) \/ \E v \in Drafts[e] : Draft(e, v)

Spec == Init /\ [][Next]_ledgerVars
=============================================================================
