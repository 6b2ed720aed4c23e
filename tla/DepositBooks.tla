---------------------------- MODULE DepositBooks ----------------------------
(***************************************************************************)
(* The wallet service next to deposits, seen as a ledger that is paid in   *)
(* from outside.                                                           *)
(***************************************************************************)
EXTENDS Deposit, WalletBooks

(* The references that only the wallet service writes. *)
Others == References \ Deposits

(* The charged amount reaches the wallet, and nothing else does. *)
Deposited(d) ==
  /\ balance' = [balance EXCEPT ![tx[d].user] = @ + tx[d].amount]
  /\ UNCHANGED debt
  /\ Settled(Others)' = Settled(Others)

(* However the webhook interleaves with credits and debits, also when it   *)
(* credits a deposit twice, the service remains an atomic ledger for all    *)
(* other references: a step is one booking of theirs or one whole deposit.  *)
LedgerWithDeposits ==
  /\ Books(Others)!Init
  /\ [][Books(Others)!Next \/ \E d \in Deposits : Deposited(d)]_(Books(Others)!ledgerVars)
=============================================================================
