----------------------------- MODULE Settlement -----------------------------
(***************************************************************************)
(* acknowledgeTask as a whole: the task handlers (Tasks) composed with the *)
(* wallet service (Wallet) that settles what the poster owes.  The poster  *)
(* acknowledges a finished task; an in-app task debits the poster and then *)
(* credits the executor, a cash task records the commission as a debt of   *)
(* the executor.  Every other handler of tasks goes on meanwhile: a second *)
(* acknowledgement of the same task, a cancellation, an edit of the terms, *)
(* and whatever takes the task back to an earlier status.                  *)
(*                                                                         *)
(* The wallet calls of acknowledgement j are the requests <<j, "debit">>,  *)
(* <<j, "credit">> and <<j, "debt">>, and the references it generates are  *)
(* named after the call that uses them.  A slot acknowledges at most once. *)
(***************************************************************************)
EXTENDS Wallet

CONSTANTS
  Tasks, Jobs, Ops, Terms,  \* as in Tasks
  Opening                   \* the balance every user has at first

VARIABLES
  task, job, finished, crossed,  \* as in Tasks
  pay                            \* how far the payment of each acknowledgement is

T == INSTANCE Tasks

Call(j, op) == <<j, op>>

SettlementCalls == {Call(j, op) : j \in Jobs, op \in {"debit", "credit", "debt"}}

ASSUME SettlementAssumption ==
  /\ SettlementCalls = Requests
  /\ \A j \in Jobs : {Call(j, "debit"), Call(j, "credit")} \subseteq References
  /\ Workload = {}
  /\ None \notin Terms /\ None \notin T!Handlers
  /\ Terms \subseteq [method : {"CASH", "IN_APP"}, incentive : Amounts]
  /\ \A x \in Terms : x.incentive \div 10 > 0 => x.incentive \div 10 \in Amounts
  /\ Ops \subseteq T!Handlers
  /\ Opening \in [Users -> Nat]

taskPart       == <<task, job, finished, crossed>>
settlementVars == <<walletVars, taskPart, pay>>

PayLabels == {"none", "debit", "credit", "debt", "done", "threw"}

NoPay == [at |-> "none", id |-> None, poster |-> None, executor |-> None, terms |-> None]

CommissionOfHundred(terms) == terms.incentive  \* mutant: the percentage is forgotten

(* Math.floor(incentive * 0.1) *)
Commission(terms) == terms.incentive \div 10

(***************************************************************************)
(* Tasks that are worked on, or reported finished, by an executor, and     *)
(* whose posters have funded their wallet; a user without money may or may *)
(* not have a wallet yet.  A task in these statuses without an executor is *)
(* reachable too, after requests that crossed: completeTask updates the    *)
(* task its request names, which need not be the one it found.             *)
(***************************************************************************)
SettlementInit ==
  /\ task \in [Tasks -> {d \in T!Doc : /\ d.status \in {"ongoing", "finished"}
                                       /\ d.declinedBy = {}
                                       /\ d.acceptedBy # d.poster
                                       /\ Opening[d.poster] > 0}]
  /\ crossed = {t \in Tasks : task[t].acceptedBy = None}
  /\ finished = {t \in Tasks : task[t].status = "finished"}
  /\ job = [j \in Jobs |-> T!NoJob]
  /\ \E owners \in SUBSET Users :
       /\ \A u \in Users : Opening[u] > 0 => u \in owners
       /\ InitWith(owners, Opening)
  /\ pay = [j \in Jobs |-> NoPay]

PayAt(j, label) == pay[j].at = label

PayGoto(j, label) == pay' = [pay EXCEPT ![j].at = label]

-----------------------------------------------------------------------------
(* Requests on tasks, up to the update of an acknowledgement. *)
TaskStep ==
  /\ \/ \E j \in Jobs, op \in Ops, u \in Users, t \in Tasks, x \in Terms \cup {None} :
          T!Find(j, op, u, t, x) /\ (op = "acknowledge" => pay[j] = NoPay)
     \/ \E j \in Jobs : T!HandleUnpaid(j) \/ T!Abort(j)
  /\ UNCHANGED <<walletVars, pay>>

(* The task becomes completed before anything is paid.  From here on the   *)
(* handler works with the executor and the terms of the document it found. *)
(* Without an executor a cash payment throws at once: recordDebt cannot    *)
(* create a wallet for nobody, and the notification cannot address anyone. *)
CompleteFirst(j) ==
  /\ T!Acknowledge(j)
  /\ LET found == job[j].found IN
     pay' = [pay EXCEPT ![j] =
       [at |-> IF found.terms.method = "IN_APP" THEN "debit"
               ELSE IF found.acceptedBy = None THEN "threw"
               ELSE IF Commission(found.terms) > 0 THEN "debt" ELSE "done",
        id |-> job[j].id, poster |-> job[j].user,
        executor |-> found.acceptedBy, terms |-> found.terms]]
  /\ UNCHANGED walletVars

(* The wallet call of a step of the payment: it is made once, ... *)
Ask(j, op, user, amount) ==
  /\ PayAt(j, op)
  /\ Start(Call(j, op), [op |-> op, user |-> user, amount |-> amount,
                         ref |-> IF op = "debt" THEN None ELSE Call(j, op)])
  /\ UNCHANGED <<taskPart, pay>>

(* ... and the handler goes on when it returned, or throws what it threw. *)
Await(j, op, next) ==
  /\ PayAt(j, op)
  /\ pc[Call(j, op)] \in Answered
  /\ PayGoto(j, IF pc[Call(j, op)] = "returned" THEN next ELSE "threw")
  /\ UNCHANGED <<walletVars, taskPart>>

AskDebit(j)    == Ask(j, "debit", pay[j].poster, pay[j].terms.incentive)
AwaitDebitHeedless(j) ==       \* mutant: the answer of the debit is not looked at
  /\ PayAt(j, "debit")
  /\ pc[Call(j, "debit")] \in Answered
  /\ PayGoto(j, "credit")
  /\ UNCHANGED <<walletVars, taskPart>>

AwaitDebitLast(j) ==           \* mutant: the handler ends with the debit
  Await(j, "debit", "done")

AwaitDebit(j)  == Await(j, "debit", "credit")

AskCreditOfTask(j) ==          \* mutant: the task is read again for the credit
  pay[j].executor # None /\ Ask(j, "credit", pay[j].executor, task[pay[j].id].terms.incentive)

AskCredit(j)   == pay[j].executor # None /\ Ask(j, "credit", pay[j].executor, pay[j].terms.incentive)
AwaitCredit(j) == Await(j, "credit", "done")

(* Nobody to credit: creating a wallet without a user fails validation. *)
CreditNobody(j) ==
  /\ PayAt(j, "credit")
  /\ pay[j].executor = None
  /\ PayGoto(j, "threw")
  /\ UNCHANGED <<walletVars, taskPart>>

AskDebt(j)     == Ask(j, "debt", pay[j].executor, Commission(pay[j].terms))
AwaitDebt(j)   == Await(j, "debt", "done")

PayStep(j) ==
  \/ AskDebit(j) \/ AwaitDebit(j)
  \/ AskCredit(j) \/ CreditNobody(j) \/ AwaitCredit(j)
  \/ AskDebt(j) \/ AwaitDebt(j)

WalletStep ==
  /\ \E r \in Requests : Handle(r) \/ Crash(r)
  /\ UNCHANGED <<taskPart, pay>>

SettlementNext ==
  \/ TaskStep
  \/ \E j \in Jobs : CompleteFirst(j) \/ PayStep(j)
  \/ WalletStep

SettlementSpec == SettlementInit /\ [][SettlementNext]_settlementVars

(* A step of a payment or wallet call that is alive. *)
Progress ==
  \/ \E j \in Jobs : PayStep(j)
  \/ (\E r \in Requests : Handle(r)) /\ UNCHANGED <<taskPart, pay>>

(* The event loop does not idle while such a step is possible.  Each is    *)
(* taken once, so none of them can be put off for ever.                    *)
SettlementFairSpec == SettlementSpec /\ WF_settlementVars(Progress)

-----------------------------------------------------------------------------
(* An executor is credited only with money a poster was debited: no        *)
(* acknowledgement that threw "Insufficient balance", and none that stopped *)
(* before the debit, ever pays out.                                        *)
CreditBackedByDebit == \A j \in Jobs :
  tx[Call(j, "credit")] # NoTx =>
    /\ applied[Call(j, "debit")] = 1
    /\ tx[Call(j, "debit")].amount = tx[Call(j, "credit")].amount

(* A task is paid for by one acknowledgement only, whatever cancellations  *)
(* and edits do to it before and after: to pay twice takes requests that   *)
(* crossed, as two acknowledgements that find the task before either       *)
(* completes it, or a completion that arrives after the acknowledgement    *)
(* and takes the task back to finished.                                    *)
PaidOnce == \A i, j \in Jobs :
  /\ pay[i] # NoPay
  /\ pay[j] # NoPay
  /\ pay[i].id = pay[j].id
  => i = j \/ pay[i].id \in crossed

(* Once the poster's debit has been answered, the executor is paid, unless *)
(* the credit could not be made: the handler threw or its call stopped.    *)
DebitIsPassedOn == \A j \in Jobs :
  applied[Call(j, "debit")] = 1 ~>
    \/ applied[Call(j, "credit")] = 1
    \/ pay[j].at = "threw"
    \/ \E op \in {"debit", "credit"} : Call(j, op) \in crashed
=============================================================================
