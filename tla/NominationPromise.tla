-------------------------- MODULE NominationPromise --------------------------
(***************************************************************************)
(* What the delayed-proxy workflow promises of each nominator: one call at *)
(* a time is scheduled; it is sent only after Delay blocks; the schedule   *)
(* is forgotten only once the call has been sent.  ProxyNomination, with   *)
(* its jobs, database rows and crashes, implements it.                     *)
(***************************************************************************)
EXTENDS Integers

CONSTANTS Nominators, Slates, Delay, None

VARIABLES
  now,        \* the latest block
  scheduled,  \* per nominator, None or the call scheduled and the block its delay counts from
  sent        \* the nominators whose scheduled call has been sent at least once

promiseVars == <<now, scheduled, sent>>

Init ==
  /\ now \in Nat
  /\ scheduled = [n \in Nominators |-> None]
  /\ sent = {}

Tick == now' = now + 1 /\ UNCHANGED <<scheduled, sent>>

\* The block is read before the call is scheduled: it may lie behind by then.
Schedule(n, s, b) ==
  /\ scheduled[n] = None
  /\ b \in 0 .. now
  /\ scheduled' = [scheduled EXCEPT ![n] = [slate |-> s, since |-> b]]
  /\ UNCHANGED <<now, sent>>

Send(n) ==
  /\ scheduled[n] # None
  /\ scheduled[n].since + Delay <= now
  /\ sent' = sent \cup {n}
  /\ UNCHANGED <<now, scheduled>>

Settle(n) ==
  /\ n \in sent
  /\ scheduled' = [scheduled EXCEPT ![n] = None]
  /\ sent' = sent \ {n}
  /\ UNCHANGED now

Next ==
  \/ Tick
  \/ \E n \in Nominators, s \in Slates, b \in 0 .. now : Schedule(n, s, b)
  \/ \E n \in Nominators : Send(n) \/ Settle(n)

Spec == Init /\ [][Next]_promiseVars
=============================================================================
