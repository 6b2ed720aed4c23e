------------------------------ MODULE MCDeposit ------------------------------
(***************************************************************************)
(* One deposit, three deliveries of Paystack's reports about it (a failed  *)
(* attempt, the success, and a repetition of either) and a debit of the    *)
(* wallet that takes the deposit.  The deposit may ask for a negative      *)
(* amount, for which Paystack makes no page.                               *)
(***************************************************************************)
EXTENDS DepositBooks

CONSTANTS u1, f1

MCAmounts == {-1, 1}

MCWorkload == {[op |-> "debit", user |-> u1, ref |-> f1, amount |-> 1]}
=============================================================================
