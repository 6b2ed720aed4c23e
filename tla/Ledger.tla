------------------------------- MODULE Ledger -------------------------------
(***************************************************************************)
(* What the wallet service promises: a ledger in which a reference is used *)
(* for at most one booking, a booking is a single atomic step, and a debit *)
(* is booked exactly when the funds cover it.                              *)
(***************************************************************************)
EXTENDS Integers

CONSTANTS Users, References, Amounts

VARIABLES
  funds,    \* the money of each user
  owed,     \* the commission each user owes
  settled   \* how the booking under each reference ended: "open" if it did not

ledgerVars == <<funds, owed, settled>>

Init ==
  /\ funds = [u \in Users |-> 0]
  /\ owed = [u \in Users |-> 0]
  /\ settled = [f \in References |-> "open"]

Settle(f, outcome) ==
  /\ settled[f] = "open"
  /\ settled' = [settled EXCEPT ![f] = outcome]

Credit(u, f, a) ==
  /\ funds' = [funds EXCEPT ![u] = @ + a]
  /\ UNCHANGED owed
  /\ Settle(f, "success")

Debit(u, f, a) ==
  /\ funds[u] >= a
  /\ funds' = [funds EXCEPT ![u] = @ - a]
  /\ UNCHANGED owed
  /\ Settle(f, "success")

Refuse(u, f, a) ==
  /\ funds[u] < a
  /\ UNCHANGED <<funds, owed>>
  /\ Settle(f, "failed")

Owe(u, a) ==
  /\ a > 0
  /\ owed' = [owed EXCEPT ![u] = @ + a]
  /\ UNCHANGED <<funds, settled>>

Next == \E u \in Users, a \in Amounts :
  \/ Owe(u, a)
  \/ \E f \in References : Credit(u, f, a) \/ Debit(u, f, a) \/ Refuse(u, f, a)

Spec == Init /\ [][Next]_ledgerVars
=============================================================================
