------------------------------- MODULE Wallet -------------------------------
(***************************************************************************)
(* WalletService: wallets, transactions and the ledger operations on them. *)
(*                                                                         *)
(* Every call of the service is an asynchronous function that gives way at *)
(* each database operation, and a single database operation is atomic.     *)
(* A request is therefore a small process: one action per database         *)
(* operation, with a program counter that names the next one.  Requests    *)
(* interleave freely, and any of them may stop for good between two        *)
(* operations (the process died, or the driver raised an error).           *)
(***************************************************************************)
EXTENDS Integers

CONSTANTS
  Users,       \* owners of wallets
  References,  \* transaction references
  Amounts,     \* amounts in kobo that a body or an incentive may carry, of any sign
  Requests,    \* identities of service calls: each is used at most once
  Workload,    \* the calls that clients may make
  None         \* an absent value

(***************************************************************************)
(* The arguments of a call.  "credit" and "debit" are createTransaction    *)
(* with either type, "debt" is recordDebt, "get" is getOrCreateWallet, and *)
(* "create" is createWalletForUser as registration calls it.  Nobody       *)
(* checks the bodies of topup and debit or the incentive of a task, so the *)
(* amount of a payment may be zero or negative; a commission is recorded   *)
(* only when it is positive.                                               *)
(***************************************************************************)
Payments == [op : {"credit", "debit"}, user : Users, ref : References, amount : Amounts]
Debts    == [op : {"debt"}, user : Users, ref : {None}, amount : {a \in Amounts : a > 0}]
Openings == [op : {"get", "create"}, user : Users, ref : {None}, amount : {0}]
Calls    == Payments \cup Debts \cup Openings

ASSUME WalletAssumption ==
  /\ Amounts \subseteq Int
  /\ Workload \subseteq Calls
  /\ None \notin Users

VARIABLES
  wallets,   \* the users that own a wallet document
  balance,   \* balance_kobo of each user's wallet
  debt,      \* debt_kobo of each user's wallet
  tx,        \* the transaction document stored under each reference
  pc,        \* the next step of each request
  call,      \* the arguments of each request
  crashed,   \* the requests that stopped half-way
  applied    \* history: how often the amount under a reference moved money

store      == <<wallets, balance, debt, tx>>
walletVars == <<wallets, balance, debt, tx, pc, call, crashed, applied>>

NoTx == [status |-> "absent", user |-> None, type |-> None, amount |-> 0]

TxDoc == [status : {"pending", "success", "failed"}, user : Users,
          type : {"credit", "debit"}, amount : Amounts]

Labels == {"idle", "findWallet", "recheckWallet", "insertWallet", "findTx", "insertTx",
           "apply", "markSuccess", "markFailed", "recordDebt", "returned", "threw"}

Answered == {"returned", "threw"}

(* A request that holds a pending transaction it inserted itself. *)
Settling(r) == pc[r] \in {"apply", "markSuccess", "markFailed"}

(***************************************************************************)
(* The wallets in `owners' exist with the given balances, nothing runs.    *)
(***************************************************************************)
InitWith(owners, opening) ==
  /\ wallets = owners
  /\ balance = opening
  /\ debt    = [u \in Users |-> 0]
  /\ tx      = [f \in References |-> NoTx]
  /\ pc      = [r \in Requests |-> "idle"]
  /\ call    = [r \in Requests |-> None]
  /\ crashed = {}
  /\ applied = [f \in References |-> 0]

Init == InitWith({}, [u \in Users |-> 0])

Ready(r, label) == pc[r] = label /\ r \notin crashed

Goto(r, label) == pc' = [pc EXCEPT ![r] = label]

(* What a call does once it knows its wallet. *)
AfterWallet(op) ==
  CASE op \in {"credit", "debit"} -> "findTx"
    [] op = "debt"                -> "recordDebt"
    [] OTHER                      -> "returned"

-----------------------------------------------------------------------------
(* A client calls the service.  createWalletForUser starts at its own lookup, *)
(* everything else goes through getOrCreateWallet.                            *)
Start(r, c) ==
  /\ Ready(r, "idle")
  /\ call' = [call EXCEPT ![r] = c]
  /\ Goto(r, IF c.op = "create" THEN "recheckWallet" ELSE "findWallet")
  /\ UNCHANGED <<store, crashed, applied>>

FindWalletUnseen(r) ==      \* mutant: a miss is not followed by the creation
  /\ Ready(r, "findWallet")
  /\ Goto(r, AfterWallet(call[r].op))
  /\ UNCHANGED <<store, call, crashed, applied>>

(* getOrCreateWallet looks the wallet up; a miss goes to createWalletForUser, *)
(* which looks it up once more ...                                            *)
FindWallet(r) ==
  /\ Ready(r, "findWallet")
  /\ Goto(r, IF call[r].user \in wallets THEN AfterWallet(call[r].op) ELSE "recheckWallet")
  /\ UNCHANGED <<store, call, crashed, applied>>

RecheckWallet(r) ==
  /\ Ready(r, "recheckWallet")
  /\ Goto(r, IF call[r].user \in wallets THEN AfterWallet(call[r].op) ELSE "insertWallet")
  /\ UNCHANGED <<store, call, crashed, applied>>

InsertWalletAgain(r) ==     \* mutant: an upsert in place of the insert resets a wallet
  /\ Ready(r, "insertWallet")
  /\ wallets' = wallets \cup {call[r].user}
  /\ balance' = [balance EXCEPT ![call[r].user] = 0]
  /\ debt' = [debt EXCEPT ![call[r].user] = 0]
  /\ Goto(r, AfterWallet(call[r].op))
  /\ UNCHANGED <<tx, call, crashed, applied>>

(* ... and inserts an empty wallet, unless the unique index on the user   *)
(* finds that another request inserted one first: a duplicate-key error.  *)
InsertWallet(r) ==
  /\ Ready(r, "insertWallet")
  /\ IF call[r].user \in wallets
       THEN Goto(r, "threw") /\ UNCHANGED store
       ELSE /\ wallets' = wallets \cup {call[r].user}
            /\ balance' = [balance EXCEPT ![call[r].user] = 0]
            /\ debt' = [debt EXCEPT ![call[r].user] = 0]
            /\ Goto(r, AfterWallet(call[r].op))
            /\ UNCHANGED tx
  /\ UNCHANGED <<call, crashed, applied>>

-----------------------------------------------------------------------------
(* createTransaction: a document under the same reference is the answer. *)
FindTx(r) ==
  /\ Ready(r, "findTx")
  /\ Goto(r, IF tx[call[r].ref] # NoTx THEN "returned" ELSE "insertTx")
  /\ UNCHANGED <<store, call, crashed, applied>>

InsertTxAgain(r) ==         \* mutant: no unique index on the reference
  /\ Ready(r, "insertTx")
  /\ tx' = [tx EXCEPT ![call[r].ref] =
              [status |-> "pending", user |-> call[r].user,
               type |-> call[r].op, amount |-> call[r].amount]]
  /\ Goto(r, "apply")
  /\ UNCHANGED <<wallets, balance, debt, call, crashed, applied>>

(* The pending document is inserted, unless the unique index on the        *)
(* reference finds one that appeared since the lookup.                     *)
InsertTx(r) ==
  /\ Ready(r, "insertTx")
  /\ IF tx[call[r].ref] # NoTx
       THEN Goto(r, "threw") /\ UNCHANGED tx
       ELSE /\ tx' = [tx EXCEPT ![call[r].ref] =
                        [status |-> "pending", user |-> call[r].user,
                         type |-> call[r].op, amount |-> call[r].amount]]
            /\ Goto(r, "apply")
  /\ UNCHANGED <<wallets, balance, debt, call, crashed, applied>>

(* Credit: the increment has no condition. *)
ApplyCredit(r) ==
  /\ Ready(r, "apply")
  /\ call[r].op = "credit"
  /\ balance' = [balance EXCEPT ![call[r].user] = @ + call[r].amount]
  /\ applied' = [applied EXCEPT ![call[r].ref] = @ + 1]
  /\ Goto(r, "markSuccess")
  /\ UNCHANGED <<wallets, debt, tx, call, crashed>>

ApplyDebitUnchecked(r) ==   \* mutant: the decrement without its condition
  /\ Ready(r, "apply")
  /\ call[r].op = "debit"
  /\ balance' = [balance EXCEPT ![call[r].user] = @ - call[r].amount]
  /\ applied' = [applied EXCEPT ![call[r].ref] = @ + 1]
  /\ Goto(r, "markSuccess")
  /\ UNCHANGED <<wallets, debt, tx, call, crashed>>

(* Debit: one conditional update, so the test and the decrement are a step. *)
ApplyDebit(r) ==
  /\ Ready(r, "apply")
  /\ call[r].op = "debit"
  /\ IF balance[call[r].user] >= call[r].amount
       THEN /\ balance' = [balance EXCEPT ![call[r].user] = @ - call[r].amount]
            /\ applied' = [applied EXCEPT ![call[r].ref] = @ + 1]
            /\ Goto(r, "markSuccess")
       ELSE Goto(r, "markFailed") /\ UNCHANGED <<balance, applied>>
  /\ UNCHANGED <<wallets, debt, tx, call, crashed>>

MarkSuccess(r) ==
  /\ Ready(r, "markSuccess")
  /\ tx' = [tx EXCEPT ![call[r].ref].status = "success"]
  /\ Goto(r, "returned")
  /\ UNCHANGED <<wallets, balance, debt, call, crashed, applied>>

MarkFailedAsSuccess(r) ==   \* mutant: the refused debit is saved as a success
  /\ Ready(r, "markFailed")
  /\ tx' = [tx EXCEPT ![call[r].ref].status = "success"]
  /\ Goto(r, "threw")
  /\ UNCHANGED <<wallets, balance, debt, call, crashed, applied>>

MarkFailedUnsaved(r) ==     \* mutant: the error is thrown before the save
  /\ Ready(r, "markFailed")
  /\ Goto(r, "threw")
  /\ UNCHANGED <<store, call, crashed, applied>>

(* "Insufficient balance" *)
MarkFailed(r) ==
  /\ Ready(r, "markFailed")
  /\ tx' = [tx EXCEPT ![call[r].ref].status = "failed"]
  /\ Goto(r, "threw")
  /\ UNCHANGED <<wallets, balance, debt, call, crashed, applied>>

-----------------------------------------------------------------------------
RecordDebtNegated(r) ==     \* mutant: the commission is taken off the debt
  /\ Ready(r, "recordDebt")
  /\ debt' = [debt EXCEPT ![call[r].user] = @ - call[r].amount]
  /\ Goto(r, "returned")
  /\ UNCHANGED <<wallets, balance, tx, call, crashed, applied>>

(* recordDebt: an unconditional increment. *)
RecordDebt(r) ==
  /\ Ready(r, "recordDebt")
  /\ debt' = [debt EXCEPT ![call[r].user] = @ + call[r].amount]
  /\ Goto(r, "returned")
  /\ UNCHANGED <<wallets, balance, tx, call, crashed, applied>>

(* The request never takes another step: its process died, or a database   *)
(* operation failed and the error left the handler.                        *)
Crash(r) ==
  /\ pc[r] \notin {"idle"} \cup Answered
  /\ r \notin crashed
  /\ crashed' = crashed \cup {r}
  /\ UNCHANGED <<store, pc, call, applied>>

Handle(r) ==
  \/ FindWallet(r) \/ RecheckWallet(r) \/ InsertWallet(r)
  \/ FindTx(r) \/ InsertTx(r)
  \/ ApplyCredit(r) \/ ApplyDebit(r)
  \/ MarkSuccess(r) \/ MarkFailed(r)
  \/ RecordDebt(r)

Next == \E r \in Requests :
          (\E c \in Workload : Start(r, c)) \/ Handle(r) \/ Crash(r)

Spec == Init /\ [][Next]_walletVars

-----------------------------------------------------------------------------
(* Every variable has the shape its schema gives it; the balance is any    *)
(* integer here, since the schema puts no minimum on balance_kobo.         *)
TypeOK ==
  /\ wallets \subseteq Users
  /\ balance \in [Users -> Int]
  /\ debt \in [Users -> Nat]
  /\ tx \in [References -> TxDoc \cup {NoTx}]
  /\ pc \in [Requests -> Labels]
  /\ call \in [Requests -> Calls \cup {None}]
  /\ crashed \subseteq Requests
  /\ applied \in [References -> Nat]

(* A credit whose negative amount has been added to the wallet of u. *)
NegativeCredit(f, u) ==
  applied[f] > 0 /\ tx[f].user = u /\ tx[f].type = "credit" /\ tx[f].amount < 0

(* No interleaving of debits and wallet creations takes a balance below    *)
(* zero, of whatever sign the amounts are: a wallet in the red has been    *)
(* credited with a negative amount, which nothing in the code refuses.     *)
NoOverdraft == \A u \in Users :
  balance[u] < 0 => \E f \in References : NegativeCredit(f, u)

(* However many requests carry a reference, at once or one after another,  *)
(* its amount moves money at most once.                                    *)
AppliedOnce == \A f \in References : applied[f] <= 1

(* The status of a transaction never lies about the money: success means   *)
(* that the amount moved, failed (or no document) that it did not.         *)
StatusTellsMoney == \A f \in References :
  /\ tx[f].status = "success" => applied[f] = 1
  /\ tx[f].status \in {"absent", "failed"} => applied[f] = 0

(* A pending transaction always belongs to the one request that inserted   *)
(* it; so one that stays pending for ever is the trace of a stopped request. *)
PendingHasOwner == \A f \in References : tx[f].status = "pending" =>
  \E r \in Requests : /\ Settling(r) /\ call[r].ref = f
                      /\ \A s \in Requests \ {r} : ~(Settling(s) /\ call[s].ref = f)

DocumentHasWallet == \A f \in References : tx[f] # NoTx => tx[f].user \in wallets

NothingWithoutWallet == \A u \in Users \ wallets : balance[u] = 0 /\ debt[u] = 0

(* A wallet exists before anything is booked on it, and its creation by    *)
(* two requests at once never follows a booking: whoever has no wallet has *)
(* no transaction, no money and no debt.                                   *)
MoneyHasWallet == DocumentHasWallet /\ NothingWithoutWallet

(* A settled transaction is never reopened, rewritten or moved to another  *)
(* wallet, and no document ever disappears.                                *)
SettledIsFinal == [][\A f \in References :
  /\ tx[f].status \in {"success", "failed"} => tx'[f] = tx[f]
  /\ tx[f] # NoTx => [tx'[f] EXCEPT !.status = "pending"] = [tx[f] EXCEPT !.status = "pending"]
  ]_walletVars
=============================================================================
