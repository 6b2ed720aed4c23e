------------------------------ MODULE MCWallet ------------------------------
(***************************************************************************)
(* Two users, two references and three requests.  The workload makes two   *)
(* requests share a reference (a retry, or a double click), compete for    *)
(* one balance, create the same wallet, use another user's reference, and   *)
(* credit a negative amount, which a client may ask for.                   *)
(***************************************************************************)
EXTENDS WalletBooks, TLC

CONSTANTS u1, u2, f1, f2

Pay(op, u, f, a) == [op |-> op, user |-> u, ref |-> f, amount |-> a]

MCAmounts == {-1, 1, 2}

MCWorkload ==
  {Pay("credit", u1, f1, 2), Pay("debit", u1, f1, 1), Pay("debit", u1, f2, 1),
   Pay("debit", u1, f2, 2), Pay("credit", u2, f2, -1), Pay("debit", u2, f2, 1),
   Pay("debt", u1, None, 1), Pay("get", u1, None, 0), Pay("create", u1, None, 0)}

(* Requests are interchangeable: no call and no property names one. *)
Interchangeable == Permutations(Requests)
=============================================================================
