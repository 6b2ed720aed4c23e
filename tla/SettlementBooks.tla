--------------------------- MODULE SettlementBooks ---------------------------
(***************************************************************************)
(* The money of all wallets while tasks are being paid for.                *)
(***************************************************************************)
EXTENDS Settlement, Functions, FiniteSets

(* Sums over the users and over the acknowledgements need finitely many. *)
ASSUME FiniteBooks == IsFiniteSet(Users) /\ IsFiniteSet(Jobs)

(* Debited from a poster and not (or not yet) credited to an executor. *)
InTransit(j) ==
  IF applied[Call(j, "debit")] = 1 /\ applied[Call(j, "credit")] = 0
    THEN pay[j].terms.incentive ELSE 0

(* Payments neither make nor destroy money: what is missing from the       *)
(* wallets is in transit under a payment that is in progress, has thrown   *)
(* or has stopped, at the terms its acknowledgement found.                 *)
MoneyConserved ==
  SumFunction(balance) + SumFunction([j \in Jobs |-> InTransit(j)]) = SumFunction(Opening)

(* What the acknowledgement j made u owe. *)
CommissionOwed(j, u) ==
  IF pay[j].executor = u /\ pc[Call(j, "debt")] = "returned"
    THEN pay[j].terms.incentive \div 10 ELSE 0

(* The debts are the commissions of the cash acknowledgements that         *)
(* recorded one, at the terms the acknowledgement found.                   *)
DebtIsCommission == \A u \in Users :
  debt[u] = SumFunction([j \in Jobs |-> CommissionOwed(j, u)])
=============================================================================
