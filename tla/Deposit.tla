------------------------------- MODULE Deposit -------------------------------
(***************************************************************************)
(* Deposits: WalletService.Initialize, which records a pending credit and  *)
(* asks Paystack for a payment page, and handlePaystackEvent, which the    *)
(* webhook runs when Paystack reports how the charge ended.                *)
(*                                                                         *)
(* A deposit is a slot d: a request of the wallet service (for its         *)
(* getOrCreateWallet) and the fresh reference psk_<uuid> it books under.   *)
(* Paystack is external: it makes a payment page when it is asked, for a   *)
(* positive amount only; charges whoever pays there, also when its answer  *)
(* was late or never saved and Initialize has reported an error; reports   *)
(* failed attempts as well as the successful one; and delivers a report    *)
(* any number of times, in any order, while earlier deliveries are still   *)
(* being handled.                                                          *)
(***************************************************************************)
EXTENDS Wallet

CONSTANTS
  Deposits,    \* deposit slots: both request identities and references
  Hooks        \* webhook deliveries, each handled at most once (a bound)

ASSUME DepositAssumption ==
  /\ Deposits \subseteq Requests
  /\ Deposits \subseteq References
  /\ \A c \in Workload : c.ref \notin Deposits

VARIABLES
  init,     \* the next step of each Initialize call after its wallet lookup
  order,    \* the amount each deposit asks for
  pages,    \* the deposits for which Paystack has made a payment page
  reports,  \* what Paystack has to report of each deposit
  hook,     \* the webhook deliveries: their next step, report and snapshot
  dead      \* the Initialize calls and the deliveries that stopped half-way

depositVars == <<walletVars, init, order, pages, reports, hook, dead>>

Reports    == {"charge.success", "charge.failed"}

IdleHook == [at |-> "idle", event |-> None, ref |-> None]

DepositInit ==
  /\ Init
  /\ init    = [d \in Deposits |-> "idle"]
  /\ order   = [d \in Deposits |-> None]
  /\ pages   = {}
  /\ reports = [d \in Deposits |-> {}]
  /\ hook    = [h \in Hooks |-> IdleHook]
  /\ dead    = {}

InitAt(d, label) == init[d] = label /\ d \notin dead
InitGoto(d, label) == init' = [init EXCEPT ![d] = label]

HookAt(h, label) == hook[h].at = label /\ h \notin dead
HookGoto(h, label) == hook' = [hook EXCEPT ![h].at = label]

-----------------------------------------------------------------------------
(* Initialize starts by getOrCreateWallet, run as request d of the wallet  *)
(* service.                                                                *)
InitStart(d, u, a) ==
  /\ InitAt(d, "idle")
  /\ Start(d, [op |-> "get", user |-> u, ref |-> None, amount |-> 0])
  /\ order' = [order EXCEPT ![d] = a]
  /\ InitGoto(d, "wallet")
  /\ UNCHANGED <<pages, reports, hook, dead>>

(* The wallet is there, or its creation lost a race and Initialize throws. *)
InitResume(d) ==
  /\ InitAt(d, "wallet")
  /\ pc[d] \in Answered
  /\ InitGoto(d, IF pc[d] = "returned" THEN "insert" ELSE "threw")
  /\ UNCHANGED <<walletVars, order, pages, reports, hook, dead>>

(* The pending credit under the fresh reference. *)
InitInsert(d) ==
  /\ InitAt(d, "insert")
  /\ tx' = [tx EXCEPT ![d] = [status |-> "pending", user |-> call[d].user,
                              type |-> "credit", amount |-> order[d]]]
  /\ InitGoto(d, "post")
  /\ UNCHANGED <<wallets, balance, debt, pc, call, crashed, applied, order, pages, reports,
                 hook, dead>>

(* Paystack makes the page or refuses; its answer arrives, or it does not   *)
(* and the call throws: an error, or the timeout of twenty seconds.        *)
InitPost(d) ==
  /\ InitAt(d, "post")
  /\ \/ pages' = pages
     \/ order[d] > 0 /\ pages' = pages \cup {d}
  /\ \/ d \in pages' /\ InitGoto(d, "save")
     \/ InitGoto(d, "fail")
  /\ UNCHANGED <<walletVars, order, reports, hook, dead>>

(* The answer is saved in the metadata; the status is not modified, so it  *)
(* is not written.  An error of this save leads to the catch block too.    *)
InitSave(d) ==
  /\ InitAt(d, "save")
  /\ \/ InitGoto(d, "returned")
     \/ InitGoto(d, "fail")
  /\ UNCHANGED <<walletVars, order, pages, reports, hook, dead>>

(* The catch block: the document is marked failed, whatever it says by now, *)
(* and an error of that save is swallowed.                                  *)
InitFail(d) ==
  /\ InitAt(d, "fail")
  /\ tx' \in {tx, [tx EXCEPT ![d].status = "failed"]}
  /\ InitGoto(d, "threw")
  /\ UNCHANGED <<wallets, balance, debt, pc, call, crashed, applied, order, pages, reports,
                 hook, dead>>

InitStep(d) == InitResume(d) \/ InitInsert(d) \/ InitPost(d) \/ InitSave(d) \/ InitFail(d)

-----------------------------------------------------------------------------
(* External: whoever has the payment page fails to pay there, or pays, or   *)
(* first one and then the other, at any time after the page was made.      *)
ChargeEnds(d, event) ==
  /\ d \in pages
  /\ reports' = [reports EXCEPT ![d] = @ \cup {event}]
  /\ reports' # reports
  /\ UNCHANGED <<walletVars, init, order, pages, hook, dead>>

(* External: a delivery, the first or a repeated one, reaches the webhook. *)
Deliver(h, d, event) ==
  /\ HookAt(h, "idle")
  /\ event \in reports[d]
  /\ hook' = [hook EXCEPT ![h] =
       [at |-> IF event = "charge.success" THEN "find" ELSE "fail", event |-> event, ref |-> d]]
  /\ UNCHANGED <<walletVars, init, order, pages, reports, dead>>

HookFindPending(h) ==       \* mutant: only a pending transaction is settled
  /\ HookAt(h, "find")
  /\ HookGoto(h, IF tx[hook[h].ref].status = "pending" THEN "mark" ELSE "done")
  /\ UNCHANGED <<walletVars, init, order, pages, reports, dead>>

(* The transaction is read, and only its status as read decides. *)
HookFind(h) ==
  /\ HookAt(h, "find")
  /\ HookGoto(h, IF tx[hook[h].ref] = NoTx \/ tx[hook[h].ref].status = "success"
                 THEN "done" ELSE "mark")
  /\ UNCHANGED <<walletVars, init, order, pages, reports, dead>>

HookMarkLast(h) ==          \* mutant: the status is saved, the credit left to a retry
  /\ HookAt(h, "mark")
  /\ tx' = [tx EXCEPT ![hook[h].ref].status = "success"]
  /\ HookGoto(h, "done")
  /\ UNCHANGED <<wallets, balance, debt, pc, call, crashed, applied, init, order,
                 pages, reports, dead>>

(* The status is saved before the wallet is credited. *)
HookMark(h) ==
  /\ HookAt(h, "mark")
  /\ tx' = [tx EXCEPT ![hook[h].ref].status = "success"]
  /\ HookGoto(h, "credit")
  /\ UNCHANGED <<wallets, balance, debt, pc, call, crashed, applied, init, order,
                 pages, reports, dead>>

HookCreditConverted(h) ==   \* mutant: the amount is taken for naira
  /\ HookAt(h, "credit")
  /\ LET d == hook[h].ref IN
       /\ balance' = [balance EXCEPT ![tx[d].user] = @ + 100 * order[d]]
       /\ applied' = [applied EXCEPT ![d] = @ + 1]
  /\ HookGoto(h, "done")
  /\ UNCHANGED <<wallets, debt, tx, pc, call, crashed, init, order, pages, reports, dead>>

(* The wallet of the transaction is credited with the charged amount, which *)
(* is the amount the page was made for.                                     *)
HookCredit(h) ==
  /\ HookAt(h, "credit")
  /\ LET d == hook[h].ref IN
       /\ balance' = [balance EXCEPT ![tx[d].user] = @ + order[d]]
       /\ applied' = [applied EXCEPT ![d] = @ + 1]
  /\ HookGoto(h, "done")
  /\ UNCHANGED <<wallets, debt, tx, pc, call, crashed, init, order, pages, reports, dead>>

HookFailAsSuccess(h) ==     \* mutant: a failed charge goes on to the credit
  /\ HookAt(h, "fail")
  /\ HookGoto(h, "credit")
  /\ UNCHANGED <<walletVars, init, order, pages, reports, dead>>

(* charge.failed: one update that looks at no status. *)
HookFail(h) ==
  /\ HookAt(h, "fail")
  /\ tx' = IF tx[hook[h].ref] = NoTx THEN tx
           ELSE [tx EXCEPT ![hook[h].ref].status = "failed"]
  /\ HookGoto(h, "done")
  /\ UNCHANGED <<wallets, balance, debt, pc, call, crashed, applied, init, order,
                 pages, reports, dead>>

HookStep(h) == HookFind(h) \/ HookMark(h) \/ HookCredit(h) \/ HookFail(h)

(* A call to Initialize or a delivery stops half-way. *)
Die(x) ==
  /\ x \notin dead
  /\ \/ x \in Deposits /\ init[x] \notin {"idle"} \cup Answered
     \/ x \in Hooks /\ hook[x].at \notin {"idle", "done"}
  /\ dead' = dead \cup {x}
  /\ UNCHANGED <<walletVars, init, order, pages, reports, hook>>

-----------------------------------------------------------------------------
WalletStep ==
  /\ \/ \E r \in Requests \ Deposits, c \in Workload : Start(r, c)
     \/ \E r \in Requests : Handle(r) \/ Crash(r)
  /\ UNCHANGED <<init, order, pages, reports, hook, dead>>

DepositNext ==
  \/ WalletStep
  \/ \E d \in Deposits :
       \/ \E u \in Users, a \in Amounts : InitStart(d, u, a)
       \/ InitStep(d)
       \/ \E event \in Reports : ChargeEnds(d, event)
       \/ \E h \in Hooks, event \in Reports : Deliver(h, d, event)
  \/ \E h \in Hooks : HookStep(h)
  \/ \E x \in Deposits \cup Hooks : Die(x)

DepositSpec == DepositInit /\ [][DepositNext]_depositVars

(* The event loop runs what is alive.  Nothing is assumed of Paystack. *)
DepositFairSpec ==
  /\ DepositSpec
  /\ \A h \in Hooks : WF_depositVars(HookStep(h))

-----------------------------------------------------------------------------
(* A wallet is credited for a deposit only after Paystack charged for it,  *)
(* however the reports of failed attempts are mixed with it.               *)
NoCreditWithoutCharge == \A d \in Deposits :
  applied[d] > 0 => "charge.success" \in reports[d]

(* A deposit marked as a success whose money has not arrived is in the     *)
(* hands of a delivery: a second delivery only answers "already processed" *)
(* when a first one is about to credit, or stopped just before.            *)
SuccessIsBeingCredited == \A d \in Deposits :
  tx[d].status = "success" /\ applied[d] = 0 =>
    \E h \in Hooks : hook[h].at = "credit" /\ hook[h].ref = d

(* A successful charge that reaches the webhook ends in the wallet, after  *)
(* any failed attempts and any repeated deliveries, unless a delivery of   *)
(* it stopped half-way.                                                    *)
ChargeReachesWallet == \A h \in Hooks, d \in Deposits :
  hook[h].at = "find" /\ hook[h].ref = d ~>
    \/ applied[d] > 0
    \/ \E g \in Hooks \cap dead : hook[g].ref = d
=============================================================================
