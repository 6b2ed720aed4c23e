----------------------------- MODULE WalletBooks -----------------------------
(***************************************************************************)
(* The wallet service seen as a ledger: the refinement of Ledger, and the  *)
(* reconciliation of balances with the transactions that moved them.       *)
(***************************************************************************)
EXTENDS Wallet, Functions, FiniteSets

(* A sum over the references needs finitely many of them. *)
ASSUME FiniteReferences == IsFiniteSet(References)

(***************************************************************************)
(* A booking is settled by the update of the wallet, before the status of  *)
(* its document says so: by the increment when it succeeds, and by the     *)
(* failed condition of the decrement when it is refused.                   *)
(***************************************************************************)
Refused(f) == \/ tx[f].status = "failed"
              \/ \E r \in Requests : pc[r] = "markFailed" /\ call[r].ref = f

Settled(F) == [f \in F |->
  CASE applied[f] > 0 -> "success"
    [] applied[f] = 0 /\ Refused(f) -> "failed"
    [] OTHER -> "open"]

(* The ledger of the references F. *)
Books(F) == INSTANCE Ledger WITH
  References <- F, funds <- balance, owed <- debt, settled <- Settled(F)

(* Any interleaving of the service's database operations looks like a      *)
(* ledger that books each reference once and atomically.                   *)
RefinesLedger ==
  /\ Books(References)!Init
  /\ [][Books(References)!Next]_(Books(References)!ledgerVars)

(* What the transaction under f did to the wallet of u, as often as it did. *)
Effect(f, u) ==
  IF tx[f] = NoTx \/ tx[f].user # u THEN 0
  ELSE applied[f] * (IF tx[f].type = "credit" THEN tx[f].amount ELSE -tx[f].amount)

(* A balance is always the sum of the transactions that say they moved it, *)
(* even while requests are half-way or have stopped: no increment is lost  *)
(* to a debit or to a deposit that runs at the same time, none lands in     *)
(* another wallet, and no second creation of a wallet empties it.           *)
BalanceReconciles == \A u \in Users :
  balance[u] = SumFunction([f \in References |-> Effect(f, u)])
=============================================================================
