-------------------------- MODULE SettlementProofs --------------------------
(***************************************************************************)
(* Proofs about the payment of an acknowledged task, for any tasks, users,  *)
(* terms and number of acknowledgements, next to every other request on     *)
(* the tasks.                                                               *)
(***************************************************************************)
EXTENDS SettlementBooks, LedgerProofs

(* A request on a task knows what its handler goes on to use. *)
JobFits == \A j \in Jobs :
  /\ job[j] # T!NoJob => /\ job[j].op \in T!Handlers /\ job[j].id \in Tasks
                         /\ job[j].user \in Users /\ job[j].found.declinedBy \subseteq Users
  /\ job[j].op = "edit" => job[j].terms \in Terms
  /\ job[j].op = "acknowledge" => /\ job[j].found.acceptedBy \in Users \cup {None}
                                  /\ job[j].found.terms \in Terms
                                  /\ pay[j] = NoPay

Pay == [at : PayLabels \ {"none"}, id : Tasks, poster : Users,
        executor : Users \cup {None}, terms : Terms]

SettlementTypeOK ==
  /\ task \in [Tasks -> T!Doc]
  /\ DOMAIN job = Jobs
  /\ pay \in [Jobs -> Pay \cup {NoPay}]

(* The statuses in which a handler finds its task. *)
StatusFound(op) ==
  CASE op = "accept"               -> {"pending", "declined"}
    [] op \in {"decline", "start"} -> {"accepted"}
    [] op = "complete"             -> {"ongoing"}
    [] op = "acknowledge"          -> {"finished"}
    [] OTHER                       -> T!Statuses

(* A request on a task that no requests crossed is the only one for it, and *)
(* the task still has the status it was found in.                           *)
AloneFinds == \A j \in Jobs : job[j] # T!NoJob /\ job[j].id \notin crossed =>
  /\ task[job[j].id].status \in StatusFound(job[j].op)
  /\ \A k \in Jobs : job[k] # T!NoJob /\ job[k].id = job[j].id => k = j

(* A task that is paid for is over, unless requests crossed. *)
PaidIsOver == \A j \in Jobs : pay[j] # NoPay /\ pay[j].id \notin crossed =>
  task[pay[j].id].status \in {"completed", "canceled"}

OweNobody == \A j \in Jobs : pay[j].at = "debt" =>
  pay[j].executor # None /\ Commission(pay[j].terms) > 0

(* A wallet call is what its acknowledgement asks for, under a reference    *)
(* that no other call uses; the credit is asked for when the debit returned. *)
CallsArePayments == \A j \in Jobs, op \in {"debit", "credit", "debt"} :
  pc[Call(j, op)] # "idle" =>
    /\ pay[j] # NoPay
    /\ call[Call(j, op)].op = op
    /\ op # "debt" => /\ call[Call(j, op)].ref = Call(j, op)
                      /\ call[Call(j, op)].amount = pay[j].terms.incentive

DebitComesFirst == \A j \in Jobs :
  PayAt(j, "credit") \/ pc[Call(j, "credit")] # "idle" => pc[Call(j, "debit")] = "returned"

(* A call finds no document under its fresh reference, and returns only     *)
(* when the one that it inserted is a success.                              *)
Unbooked == {"idle", "findWallet", "recheckWallet", "insertWallet", "findTx", "insertTx"}

OwnDocument == \A r \in Requests \cap References :
  /\ pc[r] \in Unbooked => tx[r] = NoTx
  /\ tx[r] # NoTx => tx[r].amount = call[r].amount
  /\ pc[r] = "returned" /\ call[r] \in Payments => tx[r].status = "success"

SettlementInv ==
  /\ WalletInv(References)
  /\ SettlementTypeOK
  /\ JobFits
  /\ AloneFinds
  /\ PaidIsOver
  /\ PaidOnce
  /\ OweNobody
  /\ CallsArePayments
  /\ DebitComesFirst
  /\ OwnDocument

-----------------------------------------------------------------------------
(* Wallet calls are told apart by their acknowledgement and their step. *)
LEMMA CallNames ==
  /\ \A j \in Jobs, op \in {"debit", "credit", "debt"} : Call(j, op) \in Requests
  /\ \A j \in Jobs, op \in {"debit", "credit"} : Call(j, op) \in References
  /\ \A r \in Requests : \E j \in Jobs, op \in {"debit", "credit", "debt"} : r = Call(j, op)
  /\ \A i, j, op, oq : Call(i, op) = Call(j, oq) => i = j /\ op = oq
BY SettlementAssumption DEF SettlementCalls, Call

LEMMA OwnReference ==
  ASSUME SettlementInv, NEW r \in Requests, pc[r] # "idle", call[r] \in Payments
  PROVE  call[r].ref = r /\ r \in References
<1>1. PICK j \in Jobs, op \in {"debit", "credit", "debt"} : r = Call(j, op)
  BY CallNames
<1>2. call[r].op = op /\ op # "debt"
  BY <1>1, CallShape DEF SettlementInv, CallsArePayments
<1> QED
  BY <1>1, <1>2, CallNames DEF SettlementInv, CallsArePayments

(* What a step of a wallet call leaves as it was. *)
LEMMA ServiceMoves ==
  ASSUME SettlementInv, NEW r \in Requests, Handle(r) \/ Crash(r)
  PROVE  /\ call' = call
         /\ \A q \in Requests \ {r} : pc'[q] = pc[q]
         /\ pc[r] \notin {"idle", "returned", "threw"} /\ pc'[r] # "idle"
         /\ OwnDocument'
<1> USE DEF SettlementInv
<1>1. TypeOK /\ LabelFitsCall
  BY DEF WalletInv
<1>2. /\ call' = call
      /\ \A q \in Requests \ {r} : pc'[q] = pc[q]
      /\ pc[r] \notin {"idle", "returned", "threw"} /\ pc'[r] # "idle"
  BY <1>1 DEF TypeOK, Handle, FindWallet, RecheckWallet, InsertWallet, FindTx, InsertTx,
    ApplyCredit, ApplyDebit, MarkSuccess, MarkFailed, RecordDebt, Crash, Ready, Goto, AfterWallet, Answered
<1>3. ASSUME tx' = tx,
             pc'[r] \in Unbooked => pc[r] \in Unbooked,
             pc'[r] = "returned" => call[r] \notin Payments
      PROVE  OwnDocument'
  BY <1>2, <1>3 DEF OwnDocument
<1>4. CASE FindWallet(r) \/ RecheckWallet(r) \/ InsertWallet(r)
  <2>1. call[r] \in Calls /\ pc[r] \in Unbooked /\ tx' = tx
    BY <1>1, <1>2, <1>4 DEF LabelFitsCall, FindWallet, RecheckWallet, InsertWallet, Ready, Unbooked, store
  <2>2. pc'[r] = "returned" => call[r] \notin Payments
    BY <1>1, <1>4, <2>1, CallShape DEF TypeOK, FindWallet, RecheckWallet, InsertWallet, Ready, Goto, AfterWallet
  <2> QED
    BY <1>2, <1>3, <2>1, <2>2
<1>5. CASE FindTx(r)
  <2>1. call[r] \in Payments /\ call[r].ref = r /\ r \in References
    BY <1>1, <1>5, OwnReference DEF FindTx, Ready, LabelFitsCall
  <2>2. tx[r] = NoTx
    BY <1>5, <2>1 DEF FindTx, Ready, OwnDocument, Unbooked
  <2> QED
    BY <1>1, <1>3, <1>5, <2>1, <2>2 DEF FindTx, Ready, Goto, TypeOK, Unbooked, store
<1>6. CASE InsertTx(r)
  <2>1. call[r] \in Payments /\ call[r].ref = r /\ r \in References
    BY <1>1, <1>6, OwnReference DEF InsertTx, Ready, LabelFitsCall
  <2>2. tx[r] = NoTx
    BY <1>6, <2>1 DEF InsertTx, Ready, OwnDocument, Unbooked
  <2>3. /\ tx'[r].amount = call[r].amount /\ pc'[r] = "apply"
        /\ \A f \in References \ {r} : tx'[f] = tx[f]
    BY <1>1, <1>6, <2>1, <2>2 DEF InsertTx, Ready, Goto, TypeOK
  <2> QED
    BY <1>2, <2>3 DEF OwnDocument, Unbooked
<1>7. CASE ApplyCredit(r) \/ ApplyDebit(r)
  BY <1>1, <1>3, <1>7 DEF ApplyCredit, ApplyDebit, Ready, Goto, TypeOK, Unbooked
<1>8. CASE MarkSuccess(r) \/ MarkFailed(r)
  <2>1. call[r] \in Payments /\ call[r].ref = r /\ r \in References
    BY <1>1, <1>8, OwnReference DEF MarkSuccess, MarkFailed, Ready, LabelFitsCall, Settling
  <2>2. tx[r].status = "pending" /\ tx[r] \in TxDoc /\ tx[r] # NoTx
    BY <1>8, <2>1, TxShape DEF WalletInv, SettlerOwnsPending, Settling, MarkSuccess, MarkFailed, Ready, TypeOK
  <2>3. /\ tx'[r].amount = tx[r].amount
        /\ MarkSuccess(r) => tx'[r].status = "success"
    BY <1>1, <1>8, <2>1, <2>2 DEF MarkSuccess, MarkFailed, TypeOK, TxDoc
  <2>4. \A f \in References \ {r} : tx'[f] = tx[f]
    BY <1>1, <1>8, <2>1 DEF MarkSuccess, MarkFailed, TypeOK
  <2>5. (pc'[r] = "returned" /\ MarkSuccess(r)) \/ pc'[r] = "threw"
    BY <1>1, <1>8 DEF MarkSuccess, MarkFailed, Ready, Goto, TypeOK
  <2> QED
    BY <1>2, <2>2, <2>3, <2>4, <2>5 DEF OwnDocument, Unbooked
<1>9. CASE RecordDebt(r)
  <2>1. call[r] \notin Payments
    BY <1>1, <1>9, CallShape DEF RecordDebt, Ready, LabelFitsCall
  <2> QED
    BY <1>1, <1>3, <1>9, <2>1 DEF RecordDebt, Ready, Goto, TypeOK, Unbooked
<1>10. CASE Crash(r)
  BY <1>3, <1>2, <1>10 DEF Crash, store, Unbooked
<1> QED
  BY <1>2, <1>4, <1>5, <1>6, <1>7, <1>8, <1>9, <1>10 DEF Handle

(* A step of the wallet service. *)
LEMMA ServiceKeepsPayments ==
  ASSUME SettlementInv, WalletStep
  PROVE  SettlementInv'
<1>1. PICK r \in Requests : Handle(r) \/ Crash(r)
  BY DEF WalletStep
<1>2. WalletInv(References)'
  BY <1>1, ServiceKeeps DEF SettlementInv
<1>3. /\ call' = call
      /\ \A q \in Requests \ {r} : pc'[q] = pc[q]
      /\ pc[r] \notin {"idle", "returned", "threw"} /\ pc'[r] # "idle"
      /\ OwnDocument'
      /\ task' = task /\ job' = job /\ crossed' = crossed /\ pay' = pay
  BY <1>1, ServiceMoves DEF WalletStep, taskPart
<1>4. SettlementTypeOK' /\ JobFits' /\ AloneFinds' /\ PaidIsOver' /\ PaidOnce' /\ OweNobody'
  BY <1>3 DEF SettlementInv, SettlementTypeOK, JobFits, AloneFinds, PaidIsOver, PaidOnce, OweNobody
<1>5. CallsArePayments'
  <2>1. \A q \in Requests : pc'[q] # "idle" => pc[q] # "idle"
    BY <1>3
  <2>2. \A j \in Jobs, op \in {"debit", "credit", "debt"} : Call(j, op) \in Requests
    BY CallNames
  <2> QED
    BY <1>3, <2>1, <2>2 DEF SettlementInv, CallsArePayments
<1>6. DebitComesFirst'
  BY <1>3, CallNames DEF SettlementInv, DebitComesFirst, PayAt
<1> QED
  BY <1>2, <1>3, <1>4, <1>5, <1>6 DEF SettlementInv

-----------------------------------------------------------------------------
(* What an acknowledgement that is under way has to pay. *)
LEMMA PayShape ==
  ASSUME SettlementInv, NEW j \in Jobs, pay[j].at # "none"
  PROVE  /\ pay[j] \in Pay /\ pay[j] # NoPay
         /\ pay[j].terms.incentive \in Amounts
         /\ pay[j].at = "debt" => Commission(pay[j].terms) \in Amounts /\ Commission(pay[j].terms) > 0
<1>1. pay[j] \in Pay /\ pay[j] # NoPay
  BY DEF SettlementInv, SettlementTypeOK, NoPay, Pay
<1>2. pay[j].terms \in Terms
  BY <1>1 DEF Pay
<1>3. pay[j].terms.incentive \in Amounts
  BY <1>2, SettlementAssumption
<1>4. pay[j].at = "debt" => Commission(pay[j].terms) \in Amounts /\ Commission(pay[j].terms) > 0
  BY <1>2, SettlementAssumption DEF SettlementInv, OweNobody, Commission
<1> QED
  BY <1>1, <1>3, <1>4

(* A wallet call is made. *)
LEMMA AskKeeps ==
  ASSUME SettlementInv, NEW j \in Jobs, NEW op \in {"debit", "credit", "debt"},
         NEW u \in Users, NEW a \in Amounts, Ask(j, op, u, a),
         op # "debt" => a = pay[j].terms.incentive,
         op = "debt" => a > 0
  PROVE  SettlementInv'
<1> DEFINE r == Call(j, op)
           c == [op |-> op, user |-> u, amount |-> a, ref |-> IF op = "debt" THEN None ELSE r]
<1>0. r \in Requests /\ (op # "debt" => r \in References) /\ TypeOK
  BY CallNames DEF SettlementInv, WalletInv
<1>1. /\ c \in Calls /\ (c \in Payments => c.ref \in References)
      /\ c \in Payments => op # "debt"
      /\ c.op = op /\ c.amount = a /\ (op # "debt" => c.ref = r)
  BY <1>0 DEF Calls, Payments, Debts
<1> HIDE DEF c
<1>2. Start(r, c) /\ pay[j].at = op /\ pay[j].at # "none"
      /\ task' = task /\ job' = job /\ crossed' = crossed /\ pay' = pay
  BY DEF Ask, PayAt, taskPart, c
<1> HIDE DEF r
<1>3. WalletInv(References)'
  BY <1>0, <1>1, <1>2, ServiceKeeps DEF SettlementInv
<1>4. /\ pc[r] = "idle" /\ pc'[r] \in {"findWallet", "recheckWallet"} /\ call'[r] = c
      /\ \A q \in Requests \ {r} : pc'[q] = pc[q] /\ call'[q] = call[q]
      /\ tx' = tx
  BY <1>0, <1>2 DEF Start, Ready, Goto, TypeOK, store
<1>5. SettlementTypeOK' /\ JobFits' /\ AloneFinds' /\ PaidIsOver' /\ PaidOnce' /\ OweNobody'
  BY <1>2 DEF SettlementInv, SettlementTypeOK, JobFits, AloneFinds, PaidIsOver, PaidOnce, OweNobody
<1>6. CallsArePayments'
  <2> SUFFICES ASSUME NEW k \in Jobs, NEW o \in {"debit", "credit", "debt"}, pc'[Call(k, o)] # "idle"
               PROVE  /\ pay[k] # NoPay
                      /\ call'[Call(k, o)].op = o
                      /\ o # "debt" => /\ call'[Call(k, o)].ref = Call(k, o)
                                       /\ call'[Call(k, o)].amount = pay[k].terms.incentive
    BY <1>2 DEF CallsArePayments
  <2>1. CASE Call(k, o) = r
    BY <1>1, <1>2, <1>4, <2>1, CallNames, PayShape DEF r
  <2>2. CASE Call(k, o) # r
    <3>1. call'[Call(k, o)] = call[Call(k, o)] /\ pc[Call(k, o)] # "idle"
      BY <1>4, <2>2, CallNames
    <3> QED
      BY <3>1 DEF SettlementInv, CallsArePayments
  <2> QED
    BY <2>1, <2>2
<1>7. DebitComesFirst'
  <2> SUFFICES ASSUME NEW k \in Jobs, pay[k].at = "credit" \/ pc'[Call(k, "credit")] # "idle"
               PROVE  pc'[Call(k, "debit")] = "returned"
    BY <1>2 DEF DebitComesFirst, PayAt
  <2>1. pc[Call(k, "debit")] = "returned"
    <3>1. CASE pay[k].at = "credit" \/ pc[Call(k, "credit")] # "idle"
      BY <3>1 DEF SettlementInv, DebitComesFirst, PayAt
    <3>2. CASE pay[k].at # "credit" /\ pc[Call(k, "credit")] = "idle"
      <4>1. Call(k, "credit") = r
        BY <1>4, <3>2, CallNames
      <4> QED
        BY <1>2, <3>2, <4>1, CallNames DEF r
    <3> QED
      BY <3>1, <3>2
  <2> QED
    BY <1>4, <2>1, CallNames
<1>8. OwnDocument'
  BY <1>0, <1>4 DEF SettlementInv, OwnDocument, Unbooked
<1> QED
  BY <1>3, <1>5, <1>6, <1>7, <1>8 DEF SettlementInv

(* A step that leaves the service and the tasks alone. *)
LEMMA PayingKeeps ==
  ASSUME SettlementInv, UNCHANGED walletVars, UNCHANGED taskPart, NEW j \in Jobs,
         NEW label \in {"credit", "done", "threw"}, PayGoto(j, label), pay[j].at # "none",
         label = "credit" => pc[Call(j, "debit")] = "returned"
  PROVE  SettlementInv'
<1>1. /\ WalletInv(References)'
      /\ pc' = pc /\ call' = call /\ tx' = tx /\ task' = task /\ job' = job /\ crossed' = crossed
  BY IdlingKeeps DEF SettlementInv, walletVars, taskPart
<1>2. pay[j] \in Pay /\ pay[j] # NoPay
  BY PayShape
<1>3. /\ pay' \in [Jobs -> Pay \cup {NoPay}]
      /\ pay'[j].at = label /\ pay'[j].id = pay[j].id /\ pay'[j].terms = pay[j].terms
      /\ pay'[j] # NoPay
      /\ \A k \in Jobs \ {j} : pay'[k] = pay[k]
  <2>1. /\ [pay[j] EXCEPT !.at = label] \in Pay
        /\ [pay[j] EXCEPT !.at = label].at = label
        /\ [pay[j] EXCEPT !.at = label].id = pay[j].id
        /\ [pay[j] EXCEPT !.at = label].terms = pay[j].terms
    BY <1>2 DEF Pay, PayLabels
  <2>2. /\ pay'[j] = [pay[j] EXCEPT !.at = label]
        /\ \A k \in Jobs \ {j} : pay'[k] = pay[k]
        /\ DOMAIN pay' = Jobs /\ pay' = [k \in Jobs |-> pay'[k]]
    BY DEF PayGoto, SettlementInv, SettlementTypeOK
  <2>3. pay'[j] # NoPay
    BY <2>1, <2>2 DEF NoPay
  <2> QED
    BY <2>1, <2>2, <2>3 DEF SettlementInv, SettlementTypeOK
<1>4. SettlementTypeOK' /\ JobFits' /\ AloneFinds' /\ PaidIsOver' /\ PaidOnce' /\ OweNobody'
  <2>1. JobFits'
    <3>1. job[j].op # "acknowledge"
      BY <1>2 DEF SettlementInv, JobFits
    <3> QED
      BY <1>1, <1>3, <3>1 DEF SettlementInv, JobFits
  <2> QED
    BY <1>1, <1>2, <1>3, <2>1 DEF SettlementInv, SettlementTypeOK, AloneFinds, PaidIsOver, PaidOnce, OweNobody
<1>5. CallsArePayments' /\ DebitComesFirst' /\ OwnDocument'
  BY <1>1, <1>2, <1>3 DEF SettlementInv, CallsArePayments, DebitComesFirst, OwnDocument, PayAt
<1> QED
  BY <1>1, <1>4, <1>5 DEF SettlementInv

(* The steps of a payment. *)
LEMMA PaymentKeeps ==
  ASSUME SettlementInv, NEW j \in Jobs, PayStep(j)
  PROVE  SettlementInv'
<1>1. CASE AskDebit(j)
  <2>1. pay[j].at # "none"
    BY <1>1 DEF AskDebit, Ask, PayAt
  <2> QED
    BY <1>1, <2>1, PayShape, AskKeeps DEF AskDebit, Pay
<1>2. CASE AskCredit(j)
  <2>1. pay[j].at # "none"
    BY <1>2 DEF AskCredit, Ask, PayAt
  <2> QED
    BY <1>2, <2>1, PayShape, AskKeeps DEF AskCredit, Pay
<1>3. CASE AskDebt(j)
  <2>1. pay[j].at = "debt"
    BY <1>3 DEF AskDebt, Ask, PayAt
  <2> QED
    BY <1>3, <2>1, PayShape, AskKeeps DEF AskDebt, Pay, SettlementInv, OweNobody
<1>4. CASE AwaitDebit(j)
  BY <1>4, PayingKeeps DEF AwaitDebit, Await, PayAt
<1>5. CASE AwaitCredit(j)
  BY <1>5, PayingKeeps DEF AwaitCredit, Await, PayAt
<1>6. CASE AwaitDebt(j)
  BY <1>6, PayingKeeps DEF AwaitDebt, Await, PayAt
<1>7. CASE CreditNobody(j)
  BY <1>7, PayingKeeps DEF CreditNobody, PayAt
<1> QED
  BY <1>1, <1>2, <1>3, <1>4, <1>5, <1>6, <1>7 DEF PayStep

-----------------------------------------------------------------------------
(* A request writes the task it names. *)
LEMMA WriteShape ==
  ASSUME SettlementInv, NEW j \in Jobs, job[j] # T!NoJob, NEW doc \in T!Doc, T!Write(j, doc)
  PROVE  /\ task' \in [Tasks -> T!Doc]
         /\ job[j].id \in Tasks
         /\ task'[job[j].id] = doc
         /\ \A t \in Tasks \ {job[j].id} : task'[t] = task[t]
         /\ DOMAIN job' = Jobs /\ job'[j] = T!NoJob
         /\ \A k \in Jobs \ {j} : job'[k] = job[k]
<1>1. job[j].id \in Tasks /\ task[job[j].id] \in T!Doc
  BY DEF SettlementInv, JobFits, SettlementTypeOK
<1>2. task[job[j].id] # T!NoTask
  BY <1>1 DEF T!Doc, T!NoTask, T!Statuses
<1> QED
  BY <1>1, <1>2 DEF T!Write, SettlementInv, SettlementTypeOK

(* A task step keeps the wallets and the payments. *)
LEMMA TasksKeep ==
  ASSUME SettlementInv, UNCHANGED walletVars, pay' = pay,
         task' \in [Tasks -> T!Doc], DOMAIN job' = Jobs, crossed \subseteq crossed',
         JobFits', AloneFinds', PaidIsOver'
  PROVE  SettlementInv'
<1>1. /\ WalletInv(References)'
      /\ pc' = pc /\ call' = call /\ tx' = tx
  BY IdlingKeeps DEF SettlementInv, walletVars
<1>2. SettlementTypeOK' /\ PaidOnce' /\ OweNobody'
  BY DEF SettlementInv, SettlementTypeOK, PaidOnce, OweNobody
<1>3. CallsArePayments' /\ DebitComesFirst' /\ OwnDocument'
  BY <1>1 DEF SettlementInv, CallsArePayments, DebitComesFirst, OwnDocument, PayAt
<1> QED
  BY <1>1, <1>2, <1>3 DEF SettlementInv

(* No handler takes the empty slot for its request. *)
LEMMA EmptySlot ==
  /\ T!NoJob.op = None
  /\ T!NoJob.op \notin T!Handlers
  /\ {"accept", "cancel", "decline", "start", "complete", "acknowledge", "edit"} = T!Handlers
BY SettlementAssumption DEF T!NoJob, T!Handlers

(* What a lookup remembers. *)
LEMMA RememberedFits ==
  ASSUME NEW d \in T!Doc
  PROVE  /\ LET found == T!Remembered("acknowledge", d)
            IN  found.acceptedBy \in Users \cup {None} /\ found.terms \in Terms
         /\ \A op \in T!Handlers : T!Remembered(op, d).declinedBy \subseteq Users
BY DEF T!Remembered, T!Unread, T!Doc, T!Handlers

LEMMA StatusMatches ==
  ASSUME NEW op \in T!Handlers, NEW u, NEW t, NEW x, T!Matches(op, u, t, x), task[x] \in T!Doc
  PROVE  task[x].status \in StatusFound(op)
<1>1. task[x].status \in T!Statuses
  BY DEF T!Doc
<1> QED
  BY <1>1 DEF T!Handlers, StatusFound, T!Matches, T!MatchesAccept, T!MatchesDecline, T!MatchesStart,
    T!MatchesComplete, T!MatchesAcknowledge

(* A request that stays alone when its task is left in its status. *)
LEMMA AloneStays ==
  ASSUME AloneFinds, crossed \subseteq crossed', NEW j \in Jobs,
         job'[j] # T!NoJob, job'[j] = job[j], job[j].id \notin crossed',
         task'[job[j].id].status = task[job[j].id].status,
         \A k \in Jobs : job'[k] = job[k] \/ job'[k] = T!NoJob \/ job'[k].id # job[j].id
  PROVE  /\ task'[job'[j].id].status \in StatusFound(job'[j].op)
         /\ \A k \in Jobs : job'[k] # T!NoJob /\ job'[k].id = job'[j].id => k = j
BY DEF AloneFinds

(* A request arrives. *)
LEMMA FindKeeps ==
  ASSUME SettlementInv, UNCHANGED walletVars, pay' = pay,
         NEW j \in Jobs, NEW op \in Ops, NEW u \in Users, NEW t \in Tasks,
         NEW x \in Terms \cup {None}, T!Find(j, op, u, t, x), op = "acknowledge" => pay[j] = NoPay
  PROVE  SettlementInv'
<1>1. PICK y \in Tasks :
        /\ T!Matches(op, u, t, y)
        /\ job' = [job EXCEPT ![j] = [op |-> op, user |-> u, id |-> t,
                                      found |-> T!Remembered(op, task[y]), terms |-> x]]
        /\ crossed' = IF y # t \/ \E k \in Jobs : job[k].id = t THEN crossed \cup {t} ELSE crossed
  BY DEF T!Find
<1>2. /\ task' = task /\ (op = "edit" => x \in Terms)
      /\ task[y] \in T!Doc /\ op \in T!Handlers /\ job[j] = T!NoJob
      /\ crossed \subseteq crossed'
  BY <1>1, SettlementAssumption DEF T!Find, SettlementInv, SettlementTypeOK
<1>3. /\ DOMAIN job' = Jobs
      /\ job'[j].op = op /\ job'[j].user = u /\ job'[j].id = t /\ job'[j].terms = x
      /\ op = "acknowledge" => /\ job'[j].found.acceptedBy \in Users \cup {None}
                               /\ job'[j].found.terms \in Terms
      /\ job'[j].found.declinedBy \subseteq Users
      /\ \A k \in Jobs \ {j} : job'[k] = job[k]
  BY <1>1, <1>2, RememberedFits DEF SettlementInv, SettlementTypeOK
<1>4. JobFits'
  BY <1>2, <1>3 DEF SettlementInv, JobFits
<1>5. AloneFinds'
  <2> SUFFICES ASSUME NEW i \in Jobs, job'[i] # T!NoJob, job'[i].id \notin crossed'
               PROVE  /\ task'[job'[i].id].status \in StatusFound(job'[i].op)
                      /\ \A k \in Jobs : job'[k] # T!NoJob /\ job'[k].id = job'[i].id => k = i
    BY DEF AloneFinds
  <2>1. CASE i = j
    <3>1. y = t /\ \A k \in Jobs : job[k].id # t
      BY <1>1, <1>3, <2>1
    <3>2. task[t].status \in StatusFound(op)
      BY <1>1, <1>2, <3>1, StatusMatches
    <3> QED
      BY <1>2, <1>3, <2>1, <3>1, <3>2
  <2>2. CASE i # j
    <3>1. job'[i] = job[i] /\ job[i].id # t
      BY <1>1, <1>3, <2>2 DEF SettlementInv, SettlementTypeOK
    <3>2. \A k \in Jobs : job'[k] = job[k] \/ job'[k].id # job[i].id
      BY <1>3, <3>1
    <3> QED
      BY <1>2, <3>1, <3>2, AloneStays DEF SettlementInv
  <2> QED
    BY <2>1, <2>2
<1>6. PaidIsOver'
  BY <1>2 DEF SettlementInv, PaidIsOver
<1> QED
  BY <1>2, <1>3, <1>4, <1>5, <1>6, TasksKeep DEF SettlementInv, SettlementTypeOK

(* A handler that pays for nothing writes its task. *)
LEMMA UnpaidWrites ==
  ASSUME SettlementInv, NEW j \in Jobs, T!HandleUnpaid(j)
  PROVE  /\ job[j] # T!NoJob /\ job[j].id \in Tasks /\ job[j].op # "acknowledge"
         /\ crossed' = crossed
         /\ \E doc \in T!Doc :
              /\ T!Write(j, doc)
              /\ \/ doc.status \in {"canceled", task[job[j].id].status}
                 \/ StatusFound(job[j].op) \cap {"completed", "canceled"} = {}
<1> DEFINE old == task[job[j].id]
<1>1. job[j] # T!NoJob /\ job[j].op \in T!Handlers /\ job[j].op # "acknowledge" /\ crossed' = crossed
  BY EmptySlot DEF T!HandleUnpaid, T!Accept, T!Cancel, T!Decline, T!Start, T!Complete, T!Edit, T!Updating, T!Write
<1>2. /\ job[j].id \in Tasks /\ job[j].user \in Users /\ job[j].found.declinedBy \subseteq Users
      /\ old \in T!Doc
      /\ job[j].op = "edit" => job[j].terms \in Terms
  BY <1>1 DEF SettlementInv, JobFits, SettlementTypeOK
<1>3. CASE T!Accept(j)
  <2>1. [old EXCEPT !.status = "accepted", !.acceptedBy = job[j].user] \in T!Doc
    BY <1>2 DEF T!Doc, T!Statuses
  <2> QED
    BY <1>1, <1>2, <1>3, <2>1 DEF T!Accept, T!Updating, StatusFound
<1>4. CASE T!Decline(j)
  <2>1. [old EXCEPT !.status = "declined", !.declinedBy = job[j].found.declinedBy \cup {job[j].user}] \in T!Doc
    BY <1>2 DEF T!Doc, T!Statuses
  <2> QED
    BY <1>1, <1>2, <1>4, <2>1 DEF T!Decline, T!Updating, StatusFound
<1>5. CASE T!Start(j)
  <2>1. [old EXCEPT !.status = "ongoing"] \in T!Doc
    BY <1>2 DEF T!Doc, T!Statuses
  <2> QED
    BY <1>1, <1>2, <1>5, <2>1 DEF T!Start, T!Updating, StatusFound
<1>6. CASE T!Complete(j)
  <2>1. [old EXCEPT !.status = "finished"] \in T!Doc
    BY <1>2 DEF T!Doc, T!Statuses
  <2> QED
    BY <1>1, <1>2, <1>6, <2>1 DEF T!Complete, T!Updating, StatusFound
<1>7. CASE T!Cancel(j)
  <2>1. /\ [old EXCEPT !.status = "canceled"] \in T!Doc
        /\ [old EXCEPT !.status = "canceled"].status = "canceled"
    BY <1>2 DEF T!Doc, T!Statuses
  <2> QED
    BY <1>1, <1>2, <1>7, <2>1 DEF T!Cancel
<1>8. CASE T!Edit(j)
  <2>1. /\ [old EXCEPT !.terms = job[j].terms] \in T!Doc
        /\ [old EXCEPT !.terms = job[j].terms].status = old.status
    BY <1>2, <1>8 DEF T!Doc, T!Edit, T!Updating
  <2> QED
    BY <1>1, <1>2, <1>8, <2>1 DEF T!Edit
<1> QED
  BY <1>3, <1>4, <1>5, <1>6, <1>7, <1>8 DEF T!HandleUnpaid

(* After a write the other requests that were alone still are: they are on  *)
(* other tasks.                                                             *)
LEMMA WriteLeavesAlone ==
  ASSUME SettlementInv, NEW j \in Jobs, job[j] # T!NoJob, NEW doc \in T!Doc, T!Write(j, doc)
  PROVE  AloneFinds'
<1>1. /\ job[j].id \in Tasks /\ job'[j] = T!NoJob
      /\ \A t \in Tasks \ {job[j].id} : task'[t] = task[t]
      /\ \A k \in Jobs \ {j} : job'[k] = job[k]
  BY WriteShape
<1>2. crossed' = crossed
  BY DEF T!Write
<1> SUFFICES ASSUME NEW i \in Jobs, job'[i] # T!NoJob, job'[i].id \notin crossed'
             PROVE  /\ task'[job'[i].id].status \in StatusFound(job'[i].op)
                    /\ \A k \in Jobs : job'[k] # T!NoJob /\ job'[k].id = job'[i].id => k = i
  BY DEF AloneFinds
<1>3. /\ i # j /\ job'[i] = job[i] /\ \A k \in Jobs : job'[k] = job[k] \/ job'[k] = T!NoJob
  BY <1>1
<1>4. job[i].id \in Tasks /\ job[i].id # job[j].id
  BY <1>2, <1>3 DEF SettlementInv, JobFits, AloneFinds
<1> QED
  BY <1>1, <1>2, <1>3, <1>4, AloneStays DEF SettlementInv

LEMMA TaskStepKeeps ==
  ASSUME SettlementInv, TaskStep
  PROVE  SettlementInv'
<1>1. UNCHANGED walletVars /\ pay' = pay
  BY DEF TaskStep
<1>2. ASSUME NEW j \in Jobs, NEW op \in Ops, NEW u \in Users, NEW t \in Tasks,
             NEW x \in Terms \cup {None}, T!Find(j, op, u, t, x), op = "acknowledge" => pay[j] = NoPay
      PROVE  SettlementInv'
  BY <1>1, <1>2, FindKeeps
<1>3. ASSUME NEW j \in Jobs, T!HandleUnpaid(j)
      PROVE  SettlementInv'
  <2>1. PICK doc \in T!Doc :
          /\ T!Write(j, doc)
          /\ \/ doc.status \in {"canceled", task[job[j].id].status}
             \/ StatusFound(job[j].op) \cap {"completed", "canceled"} = {}
    BY <1>3, UnpaidWrites
  <2>2. job[j] # T!NoJob /\ job[j].id \in Tasks /\ crossed' = crossed
    BY <1>3, UnpaidWrites
  <2>3. /\ task' \in [Tasks -> T!Doc]
        /\ task'[job[j].id] = doc
        /\ \A t \in Tasks \ {job[j].id} : task'[t] = task[t]
        /\ DOMAIN job' = Jobs /\ job'[j] = T!NoJob
        /\ \A k \in Jobs \ {j} : job'[k] = job[k]
    BY <2>1, <2>2, WriteShape
  <2>4. JobFits'
    BY <1>1, <2>3, EmptySlot DEF SettlementInv, JobFits
  <2>5. AloneFinds'
    BY <2>1, <2>2, WriteLeavesAlone
  <2>6. PaidIsOver'
    <3> SUFFICES ASSUME NEW i \in Jobs, pay[i] # NoPay, pay[i].id \notin crossed
                 PROVE  task'[pay[i].id].status \in {"completed", "canceled"}
      BY <1>1, <2>2 DEF PaidIsOver
    <3>1. pay[i].id \in Tasks /\ task[pay[i].id].status \in {"completed", "canceled"}
      BY DEF SettlementInv, SettlementTypeOK, PaidIsOver, Pay
    <3>2. CASE pay[i].id # job[j].id
      BY <2>3, <3>1, <3>2
    <3>3. CASE pay[i].id = job[j].id
      <4>1. task[job[j].id].status \in StatusFound(job[j].op)
        BY <2>2, <3>3 DEF SettlementInv, AloneFinds
      <4>2. doc.status \in {"canceled", task[job[j].id].status}
        BY <2>1, <3>1, <3>3, <4>1
      <4> QED
        BY <2>3, <3>1, <3>3, <4>2
    <3> QED
      BY <3>2, <3>3
  <2> QED
    BY <1>1, <2>2, <2>3, <2>4, <2>5, <2>6, TasksKeep
<1>4. ASSUME NEW j \in Jobs, T!Abort(j)
      PROVE  SettlementInv'
  <2>1. /\ task' = task /\ crossed' = crossed /\ DOMAIN job' = Jobs /\ job'[j] = T!NoJob
        /\ \A k \in Jobs \ {j} : job'[k] = job[k]
    BY <1>4 DEF T!Abort, SettlementInv, SettlementTypeOK
  <2>2. JobFits'
    BY <1>1, <2>1, EmptySlot DEF SettlementInv, JobFits
  <2>3. AloneFinds' /\ PaidIsOver'
    BY <1>1, <2>1 DEF SettlementInv, AloneFinds, PaidIsOver
  <2> QED
    BY <1>1, <2>1, <2>2, <2>3, TasksKeep DEF SettlementInv, SettlementTypeOK
<1> QED
  BY <1>2, <1>3, <1>4 DEF TaskStep

(* The task is completed, and its payment begins. *)
LEMMA CompleteFirstKeeps ==
  ASSUME SettlementInv, NEW j \in Jobs, CompleteFirst(j)
  PROVE  SettlementInv'
<1> DEFINE id == job[j].id
           found == job[j].found
<1>1. /\ job[j].op = "acknowledge" /\ job[j] # T!NoJob /\ id \in Tasks /\ job[j].user \in Users
      /\ found.acceptedBy \in Users \cup {None} /\ found.terms \in Terms
      /\ pay[j] = NoPay /\ task[id] \in T!Doc
  BY EmptySlot DEF CompleteFirst, T!Acknowledge, T!Updating, SettlementInv, JobFits, SettlementTypeOK
<1>2. PICK doc \in T!Doc : T!Write(j, doc) /\ doc.status = "completed"
  <2>1. /\ [task[id] EXCEPT !.status = "completed"] \in T!Doc
        /\ [task[id] EXCEPT !.status = "completed"].status = "completed"
    BY <1>1 DEF T!Doc, T!Statuses
  <2> QED
    BY <2>1 DEF CompleteFirst, T!Acknowledge
<1>3. /\ task' \in [Tasks -> T!Doc]
      /\ task'[id] = doc
      /\ \A t \in Tasks \ {id} : task'[t] = task[t]
      /\ DOMAIN job' = Jobs /\ job'[j] = T!NoJob
      /\ \A k \in Jobs \ {j} : job'[k] = job[k]
  BY <1>1, <1>2, WriteShape
<1> DEFINE label == IF found.terms.method = "IN_APP" THEN "debit"
                    ELSE IF found.acceptedBy = None THEN "threw"
                    ELSE IF Commission(found.terms) > 0 THEN "debt" ELSE "done"
<1>4. /\ label \in PayLabels \ {"none", "credit"}
      /\ label = "debt" => found.acceptedBy # None /\ Commission(found.terms) > 0
      /\ pay' = [pay EXCEPT ![j] = [at |-> label, id |-> id, poster |-> job[j].user,
                                    executor |-> found.acceptedBy, terms |-> found.terms]]
  BY DEF CompleteFirst, PayLabels
<1> HIDE DEF label
<1>5. /\ pay' \in [Jobs -> Pay \cup {NoPay}]
      /\ pay'[j] # NoPay /\ pay'[j].at = label /\ pay'[j].id = id
      /\ pay'[j].executor = found.acceptedBy /\ pay'[j].terms = found.terms
      /\ \A k \in Jobs \ {j} : pay'[k] = pay[k]
  BY <1>1, <1>4 DEF SettlementInv, SettlementTypeOK, Pay, NoPay
<1>6. /\ WalletInv(References)'
      /\ pc' = pc /\ call' = call /\ tx' = tx
  BY IdlingKeeps DEF CompleteFirst, SettlementInv, walletVars
<1>7. SettlementTypeOK' /\ OweNobody'
  BY <1>3, <1>4, <1>5 DEF SettlementInv, SettlementTypeOK, OweNobody
<1>8. JobFits'
  BY <1>3, <1>5, EmptySlot DEF SettlementInv, JobFits
<1>9. AloneFinds' /\ PaidIsOver' /\ PaidOnce'
  <2>1. crossed' = crossed /\ \A k \in Jobs : pay[k] # NoPay => pay[k].id \in Tasks
    BY <1>2 DEF T!Write, SettlementInv, SettlementTypeOK, Pay
  <2>2. AloneFinds'
    BY <1>1, <1>2, WriteLeavesAlone
  <2>3. PaidIsOver'
    BY <1>1, <1>2, <1>3, <1>5, <2>1 DEF SettlementInv, PaidIsOver
  <2>4. id \notin crossed => task[id].status = "finished"
    BY <1>1 DEF SettlementInv, AloneFinds, StatusFound
  <2>5. \A k \in Jobs : pay[k] # NoPay /\ pay[k].id = id => id \in crossed
    BY <2>4 DEF SettlementInv, PaidIsOver
  <2>6. PaidOnce'
    BY <1>1, <1>5, <2>1, <2>5 DEF SettlementInv, PaidOnce
  <2> QED
    BY <2>2, <2>3, <2>6
<1>10. CallsArePayments' /\ DebitComesFirst' /\ OwnDocument'
  BY <1>1, <1>5, <1>4, <1>6 DEF SettlementInv, CallsArePayments, DebitComesFirst, OwnDocument, PayAt
<1> QED
  BY <1>6, <1>7, <1>8, <1>9, <1>10 DEF SettlementInv

(* Tasks with their executors, funded posters, no request under way. *)
LEMMA SettlementInitHolds == SettlementInit => SettlementInv
<1> SUFFICES ASSUME SettlementInit PROVE SettlementInv
  OBVIOUS
<1>1. /\ WalletInv(References) /\ pc = [r \in Requests |-> "idle"] /\ tx = [f \in References |-> NoTx]
      /\ call = [r \in Requests |-> None]
  BY InitHolds, SettlementAssumption DEF SettlementInit, InitWith
<1>2. SettlementTypeOK /\ JobFits
  BY EmptySlot DEF SettlementInit, SettlementTypeOK, JobFits
<1>3. AloneFinds /\ PaidIsOver /\ PaidOnce /\ OweNobody
  BY DEF SettlementInit, AloneFinds, PaidIsOver, PaidOnce, OweNobody, NoPay
<1>4. CallsArePayments /\ DebitComesFirst
  BY <1>1, CallNames DEF SettlementInit, CallsArePayments, DebitComesFirst, PayAt, NoPay
<1>5. OwnDocument
  BY <1>1 DEF OwnDocument
<1> QED
  BY <1>1, <1>2, <1>3, <1>4, <1>5 DEF SettlementInv

(* The invariant holds however the requests on a task, all of them,         *)
(* interleave with each other and with the wallet calls.                    *)
THEOREM SettlementInvariantHolds == SettlementSpec => []SettlementInv
<1>1. SettlementInv /\ [SettlementNext]_settlementVars => SettlementInv'
  <2>1. SettlementInv /\ UNCHANGED settlementVars => SettlementInv'
    <3> SUFFICES ASSUME SettlementInv, UNCHANGED settlementVars PROVE SettlementInv'
      OBVIOUS
    <3>1. /\ UNCHANGED walletVars /\ pay' = pay /\ task' = task /\ job' = job /\ crossed' = crossed
      BY DEF settlementVars, taskPart
    <3>2. JobFits' /\ AloneFinds' /\ PaidIsOver'
      BY <3>1 DEF SettlementInv, JobFits, AloneFinds, PaidIsOver
    <3> QED
      BY <3>1, <3>2, TasksKeep DEF SettlementInv, SettlementTypeOK
  <2> QED
    BY <2>1, TaskStepKeeps, CompleteFirstKeeps, PaymentKeeps, ServiceKeepsPayments DEF SettlementNext
<1> QED
  BY <1>1, SettlementInitHolds, PTL DEF SettlementSpec

-----------------------------------------------------------------------------
(* A credit has a document only when the debit has moved the same amount. *)
LEMMA CreditIsBacked == SettlementInv => CreditBackedByDebit
<1> SUFFICES ASSUME SettlementInv, NEW j \in Jobs, tx[Call(j, "credit")] # NoTx
             PROVE  /\ applied[Call(j, "debit")] = 1
                    /\ tx[Call(j, "debit")].amount = tx[Call(j, "credit")].amount
  BY DEF CreditBackedByDebit
<1> DEFINE d == Call(j, "debit")
           c == Call(j, "credit")
<1>1. d \in Requests \cap References /\ c \in Requests \cap References
  BY CallNames
<1>2. pc[c] # "idle" /\ tx[c].amount = call[c].amount
  BY <1>1 DEF SettlementInv, OwnDocument, Unbooked
<1>3. pc[d] = "returned"
  BY <1>2 DEF SettlementInv, DebitComesFirst
<1>4. call[d].op = "debit" /\ call[d].amount = pay[j].terms.incentive
      /\ call[c].amount = pay[j].terms.incentive
  BY <1>2, <1>3 DEF SettlementInv, CallsArePayments
<1>5. call[d] \in Payments
  BY <1>1, <1>3, <1>4 DEF SettlementInv, WalletInv, LabelFitsCall, Calls, Debts, Openings
<1>6. tx[d].status = "success" /\ tx[d] # NoTx
  BY <1>1, <1>3, <1>5, TxShape DEF SettlementInv, OwnDocument
<1>7. applied[d] = 1 /\ tx[d].amount = call[d].amount
  BY <1>1, <1>6 DEF SettlementInv, WalletInv, TrueWithin, OwnDocument
<1> QED
  BY <1>2, <1>4, <1>7

(* An executor is credited only with the amount that a poster was debited,  *)
(* wherever handlers and wallet calls stop (acknowledgeTask).               *)
THEOREM CreditsAreBacked == SettlementSpec => []CreditBackedByDebit
BY CreditIsBacked, SettlementInvariantHolds, PTL

(* A task is paid for once, unless requests for it crossed, whatever other  *)
(* handlers do to it before and after (acknowledgeTask, completeTask).      *)
THEOREM TasksArePaidOnce == SettlementSpec => []PaidOnce
BY SettlementInvariantHolds, PTL DEF SettlementInv

-----------------------------------------------------------------------------
(* The money of all wallets.  A cash acknowledgement asks for a debt of its *)
(* executor, which is the commission of the terms it found.                 *)
DebtIsAsked == \A j \in Jobs : pc[Call(j, "debt")] # "idle" =>
  /\ call[Call(j, "debt")].user = pay[j].executor
  /\ call[Call(j, "debt")].amount = Commission(pay[j].terms)

PaymentBooks ==
  /\ WalletPart
  /\ DebtIsAsked
  /\ MoneyConserved
  /\ DebtIsCommission

(* Before a payment begins, none of its calls has been made. *)
LEMMA NothingPaidYet ==
  ASSUME SettlementInv, NEW j \in Jobs, pay[j] = NoPay
  PROVE  /\ \A op \in {"debit", "credit", "debt"} : pc[Call(j, op)] = "idle"
         /\ applied[Call(j, "debit")] = 0 /\ applied[Call(j, "credit")] = 0
<1>1. \A op \in {"debit", "credit", "debt"} : pc[Call(j, op)] = "idle"
  BY DEF SettlementInv, CallsArePayments
<1>2. \A op \in {"debit", "credit"} : tx[Call(j, op)] = NoTx
  BY <1>1, CallNames DEF SettlementInv, OwnDocument, Unbooked
<1> QED
  BY <1>1, <1>2, CallNames, TxShape DEF SettlementInv, WalletInv, TrueWithin

(* What the sums add up are numbers. *)
TermsAreMoney == \A j \in Jobs : pay[j] # NoPay =>
  pay[j].terms.incentive \in Int /\ pay[j].terms.incentive \div 10 \in Int

SumsAreOfMoney ==
  /\ balance \in [Users -> Int]
  /\ \A j \in Jobs : InTransit(j) \in Int
  /\ \A j \in Jobs, u \in Users : CommissionOwed(j, u) \in Int

LEMMA SumsTyped == SettlementInv => SumsAreOfMoney /\ TermsAreMoney
<1> SUFFICES ASSUME SettlementInv
             PROVE  SumsAreOfMoney /\ TermsAreMoney
  OBVIOUS
<1>1. ASSUME NEW j \in Jobs, pay[j] # NoPay
      PROVE  pay[j].terms.incentive \in Int /\ pay[j].terms.incentive \div 10 \in Int
  <2>1. pay[j].terms \in Terms
    BY <1>1 DEF SettlementInv, SettlementTypeOK, Pay
  <2>2. pay[j].terms.incentive \in Int
    BY <2>1, SettlementAssumption, WalletAssumption
  <2> QED
    BY <2>2
<1>2. ASSUME NEW j \in Jobs
      PROVE  InTransit(j) \in Int /\ \A u \in Users : CommissionOwed(j, u) \in Int
  <2>1. CASE pay[j] = NoPay
    BY <2>1, NothingPaidYet DEF InTransit, CommissionOwed
  <2>2. CASE pay[j] # NoPay
    BY <1>1, <2>2 DEF InTransit, CommissionOwed
  <2> QED
    BY <2>1, <2>2
<1> QED
  BY <1>1, <1>2 DEF SettlementInv, WalletInv, TypeOK, SumsAreOfMoney, TermsAreMoney

(* The sums stay as they are when all their terms do, ... *)
LEMMA MoneyStays ==
  ASSUME MoneyConserved, balance' = balance, \A j \in Jobs : InTransit(j)' = InTransit(j)
  PROVE  MoneyConserved'
<1>1. [j \in Jobs |-> InTransit(j)'] = [j \in Jobs |-> InTransit(j)]
  OBVIOUS
<1> QED
  BY <1>1 DEF MoneyConserved

LEMMA DebtStays ==
  ASSUME DebtIsCommission, debt' = debt,
         \A j \in Jobs, u \in Users : CommissionOwed(j, u)' = CommissionOwed(j, u)
  PROVE  DebtIsCommission'
<1> SUFFICES ASSUME NEW u \in Users
             PROVE  debt'[u] = SumFunction([j \in Jobs |-> CommissionOwed(j, u)'])
  BY DEF DebtIsCommission
<1>1. [j \in Jobs |-> CommissionOwed(j, u)'] = [j \in Jobs |-> CommissionOwed(j, u)]
  OBVIOUS
<1> QED
  BY <1>1 DEF DebtIsCommission

(* ... when what leaves a wallet goes into transit, or arrives from it, ... *)
LEMMA MoneyMoves ==
  ASSUME SumsAreOfMoney, SumsAreOfMoney', MoneyConserved,
         NEW u \in Users, NEW j \in Jobs, NEW a \in Int,
         balance' = [balance EXCEPT ![u] = @ + a],
         InTransit(j)' = InTransit(j) - a,
         \A i \in Jobs \ {j} : InTransit(i)' = InTransit(i)
  PROVE  MoneyConserved'
<1> DEFINE w == [i \in Jobs |-> InTransit(i)]
           v == [i \in Jobs |-> InTransit(i)']
<1>1. /\ w \in [Jobs -> Int] /\ v \in [Jobs -> Int] /\ v[j] = w[j] - a
      /\ \A i \in Jobs \ {j} : v[i] = w[i]
  BY DEF SumsAreOfMoney
<1>2. /\ balance \in [Users -> Int] /\ balance' \in [Users -> Int] /\ balance'[u] = balance[u] + a
      /\ \A x \in Users \ {u} : balance'[x] = balance[x]
  BY DEF SumsAreOfMoney
<1>3. SumFunction(balance) + SumFunction(w) = SumFunction(Opening)
  BY DEF MoneyConserved
<1> DEFINE before == balance
           after == balance'
<1> HIDE DEF w, v
<1>4. SumFunction(v) = SumFunction(w) + v[j] - w[j] /\ SumFunction(w) \in Int
  BY <1>1, SumChange, SumType, FiniteBooks
<1>5. SumFunction(balance') = SumFunction(balance) + balance'[u] - balance[u] /\ SumFunction(balance) \in Int
  <2>1. /\ before \in [Users -> Int] /\ after \in [Users -> Int]
        /\ \A x \in Users \ {u} : after[x] = before[x]
    BY <1>2
  <2> HIDE DEF before, after
  <2>2. SumFunction(after) = SumFunction(before) + after[u] - before[u] /\ SumFunction(before) \in Int
    BY <2>1, SumChange, SumType, FiniteBooks
  <2> QED
    BY <2>2 DEF before, after
<1>6. w[j] \in Int /\ balance[u] \in Int
  BY <1>1, <1>2
<1>7. SumFunction(balance') + SumFunction(v) = SumFunction(Opening)
  BY <1>1, <1>2, <1>3, <1>4, <1>5, <1>6
<1> QED
  BY <1>7 DEF v, MoneyConserved

(* ... and when a commission is recorded where it is owed. *)
LEMMA DebtMoves ==
  ASSUME SumsAreOfMoney, SumsAreOfMoney', DebtIsCommission, debt \in [Users -> Nat],
         NEW u \in Users, NEW j \in Jobs, NEW a \in Int,
         debt' = [debt EXCEPT ![u] = @ + a],
         CommissionOwed(j, u)' = CommissionOwed(j, u) + a,
         \A x \in Users \ {u} : CommissionOwed(j, x)' = CommissionOwed(j, x),
         \A i \in Jobs \ {j}, x \in Users : CommissionOwed(i, x)' = CommissionOwed(i, x)
  PROVE  DebtIsCommission'
<1> SUFFICES ASSUME NEW x \in Users
             PROVE  debt'[x] = SumFunction([i \in Jobs |-> CommissionOwed(i, x)'])
  BY DEF DebtIsCommission
<1> DEFINE w == [i \in Jobs |-> CommissionOwed(i, x)]
           v == [i \in Jobs |-> CommissionOwed(i, x)']
           b == IF x = u THEN a ELSE 0
<1>1. /\ w \in [Jobs -> Int] /\ v \in [Jobs -> Int] /\ v[j] = w[j] + b
      /\ \A i \in Jobs \ {j} : v[i] = w[i]
  BY DEF SumsAreOfMoney
<1>2. debt'[x] = debt[x] + b /\ debt[x] = SumFunction(w) /\ b \in Int /\ debt[x] \in Int
  BY DEF DebtIsCommission
<1> HIDE DEF w, v, b
<1>3. SumFunction(v) = SumFunction(w) + v[j] - w[j] /\ w[j] \in Int
  BY <1>1, SumChange, FiniteBooks
<1>4. debt'[x] = SumFunction(v)
  BY <1>1, <1>2, <1>3
<1> QED
  BY <1>4 DEF v

(* A step that leaves the service alone keeps the terms of every payment.   *)
LEMMA WaitingKeepsBooks ==
  ASSUME SettlementInv, PaymentBooks, UNCHANGED walletVars,
         \A j \in Jobs : \/ pay[j] = NoPay
                         \/ pay'[j].terms = pay[j].terms /\ pay'[j].executor = pay[j].executor
  PROVE  PaymentBooks'
<1>0. pc' = pc /\ call' = call /\ applied' = applied /\ balance' = balance /\ debt' = debt
  BY DEF walletVars
<1>1. WalletPart'
  BY IdlingKeepsWallets DEF PaymentBooks
<1>2. DebtIsAsked'
  <2> SUFFICES ASSUME NEW j \in Jobs, pc[Call(j, "debt")] # "idle"
               PROVE  /\ call[Call(j, "debt")].user = pay'[j].executor
                      /\ call[Call(j, "debt")].amount = Commission(pay'[j].terms)
    BY <1>0 DEF DebtIsAsked
  <2>1. pay[j] # NoPay
    BY NothingPaidYet
  <2> QED
    BY <2>1 DEF PaymentBooks, DebtIsAsked
<1>3. MoneyConserved'
  <2>1. \A j \in Jobs : InTransit(j)' = InTransit(j)
    <3> SUFFICES ASSUME NEW j \in Jobs PROVE InTransit(j)' = InTransit(j)
      OBVIOUS
    <3>1. CASE pay[j] = NoPay
      BY <1>0, <3>1, NothingPaidYet DEF InTransit
    <3>2. CASE pay[j] # NoPay
      BY <1>0, <3>2 DEF InTransit
    <3> QED
      BY <3>1, <3>2
  <2> QED
    BY <1>0, <2>1, MoneyStays DEF PaymentBooks
<1>4. DebtIsCommission'
  <2>1. \A j \in Jobs, u \in Users : CommissionOwed(j, u)' = CommissionOwed(j, u)
    <3> SUFFICES ASSUME NEW j \in Jobs, NEW u \in Users
                 PROVE  CommissionOwed(j, u)' = CommissionOwed(j, u)
      OBVIOUS
    <3>1. CASE pay[j] = NoPay
      BY <1>0, <3>1, NothingPaidYet DEF CommissionOwed
    <3>2. CASE pay[j] # NoPay
      BY <1>0, <3>2 DEF CommissionOwed
    <3> QED
      BY <3>1, <3>2
  <2> QED
    BY <1>0, <2>1, DebtStays DEF PaymentBooks
<1> QED
  BY <1>1, <1>2, <1>3, <1>4 DEF PaymentBooks

(* Making a wallet call moves nothing yet. *)
LEMMA AskKeepsBooks ==
  ASSUME SettlementInv, SettlementInv', PaymentBooks, NEW j \in Jobs, NEW op \in {"debit", "credit", "debt"},
         NEW u \in Users, NEW a \in Amounts, Ask(j, op, u, a),
         op = "debt" => u = pay[j].executor /\ a = Commission(pay[j].terms) /\ a > 0
  PROVE  PaymentBooks'
<1> DEFINE r == Call(j, op)
           c == [op |-> op, user |-> u, amount |-> a, ref |-> IF op = "debt" THEN None ELSE r]
<1>0. /\ r \in Requests /\ (op # "debt" => r \in References)
      /\ TypeOK /\ WalletInv(References) /\ WalletInv(References)'
  BY CallNames DEF SettlementInv, WalletInv
<1>1. c \in Calls /\ c.user = u /\ c.amount = a
  BY <1>0 DEF Calls, Payments, Debts
<1> HIDE DEF c
<1>2. Start(r, c) /\ pay' = pay
  BY DEF Ask, taskPart, c
<1> HIDE DEF r
<1>3. WalletPart'
  BY <1>0, <1>1, <1>2, WalletsKeep DEF PaymentBooks
<1>4. /\ pc[r] = "idle" /\ pc'[r] \notin {"idle", "returned"} /\ call'[r] = c
      /\ \A q \in Requests \ {r} : pc'[q] = pc[q] /\ call'[q] = call[q]
      /\ balance' = balance /\ debt' = debt /\ applied' = applied
  BY <1>0, <1>2 DEF Start, Ready, Goto, TypeOK, store
<1>5. DebtIsAsked'
  <2> SUFFICES ASSUME NEW k \in Jobs, pc'[Call(k, "debt")] # "idle"
               PROVE  /\ call'[Call(k, "debt")].user = pay[k].executor
                      /\ call'[Call(k, "debt")].amount = Commission(pay[k].terms)
    BY <1>2 DEF DebtIsAsked
  <2>1. CASE Call(k, "debt") = r
    <3>1. k = j /\ op = "debt"
      BY <2>1, CallNames DEF r
    <3> QED
      BY <1>1, <1>4, <2>1, <3>1
  <2>2. CASE Call(k, "debt") # r
    BY <1>4, <2>2, CallNames DEF PaymentBooks, DebtIsAsked
  <2> QED
    BY <2>1, <2>2
<1>6. MoneyConserved'
  BY <1>2, <1>4, MoneyStays DEF PaymentBooks, InTransit
<1>7. DebtIsCommission'
  <2>1. \A k \in Jobs : pc'[Call(k, "debt")] = "returned" <=> pc[Call(k, "debt")] = "returned"
    BY <1>4, CallNames
  <2>2. \A k \in Jobs, x \in Users : CommissionOwed(k, x)' = CommissionOwed(k, x)
    BY <1>2, <2>1 DEF CommissionOwed
  <2> QED
    BY <1>4, <2>2, DebtStays DEF PaymentBooks
<1> QED
  BY <1>3, <1>5, <1>6, <1>7 DEF PaymentBooks

(* A wallet call that moves money debits what then is in transit, or        *)
(* credits what was.                                                        *)
LEMMA ApplyKeepsMoney ==
  ASSUME SettlementInv, SettlementInv', PaymentBooks, NEW r \in Requests, pay' = pay,
         \/ ApplyCredit(r)
         \/ ApplyDebit(r) /\ balance[call[r].user] >= call[r].amount
  PROVE  MoneyConserved'
<1>1. /\ pc[r] = "apply" /\ TypeOK /\ call[r] \in Payments
      /\ tx[call[r].ref].status = "pending" /\ applied[call[r].ref] = 0
  BY DEF ApplyCredit, ApplyDebit, Ready, SettlementInv, WalletInv, LabelFitsCall, SettlerOwnsPending, Settling
<1>2. PICK j \in Jobs, op \in {"debit", "credit", "debt"} : r = Call(j, op)
  BY CallNames
<1>3. /\ op \in {"debit", "credit"} /\ call[r].op = op /\ call[r].ref = r /\ r \in References
      /\ call[r].amount = pay[j].terms.incentive
      /\ call[r].user \in Users /\ call[r].amount \in Int
  <2>1. call[r].op = op /\ call[r].op \in {"debit", "credit"} /\ call[r].user \in Users
        /\ call[r].amount \in Int
    BY <1>1, <1>2, CallShape DEF SettlementInv, CallsArePayments
  <2>2. call[r].ref = r /\ r \in References
    BY <1>1, OwnReference
  <2> QED
    BY <1>1, <1>2, <2>1, <2>2 DEF SettlementInv, CallsArePayments
<1> DEFINE d == Call(j, "debit")
           c == Call(j, "credit")
           x == call[r].amount
<1>4. /\ applied'[r] = 1 /\ \A f \in References \ {r} : applied'[f] = applied[f]
      /\ balance' = [balance EXCEPT ![call[r].user] = @ + (IF op = "credit" THEN x ELSE -x)]
  <2>1. applied' = [applied EXCEPT ![r] = @ + 1]
    BY <1>3 DEF ApplyCredit, ApplyDebit
  <2>2. balance[call[r].user] \in Int
    BY <1>1, <1>3 DEF TypeOK
  <2>3. balance' = [balance EXCEPT ![call[r].user] = @ + (IF op = "credit" THEN x ELSE -x)]
    <3>1. CASE ApplyCredit(r)
      BY <1>3, <3>1 DEF ApplyCredit
    <3>2. CASE ApplyDebit(r) /\ balance[call[r].user] >= call[r].amount
      <4>1. op = "debit" /\ balance' = [balance EXCEPT ![call[r].user] = @ - x]
        BY <1>3, <3>2 DEF ApplyDebit
      <4>2. balance[call[r].user] - x = balance[call[r].user] + (-x)
        BY <1>3, <2>2
      <4> HIDE DEF x
      <4> QED
        BY <4>1, <4>2
    <3> QED
      BY <3>1, <3>2
  <2> QED
    BY <1>1, <1>3, <2>1, <2>3 DEF TypeOK
<1>5. d \in References /\ c \in References /\ d # c
  BY CallNames
<1>6. tx[c] # NoTx => applied[d] = 1
  BY CreditIsBacked DEF CreditBackedByDebit
<1>7. applied[c] # 0 => tx[c] # NoTx
  BY <1>5, TxShape DEF SettlementInv, WalletInv, TrueWithin
<1>8. InTransit(j)' = InTransit(j) - (IF op = "credit" THEN x ELSE -x)
  <2>1. CASE op = "debit"
    <3>1. applied[d] = 0 /\ applied[c] = 0 /\ applied'[d] = 1 /\ applied'[c] = 0
      BY <1>1, <1>2, <1>3, <1>4, <1>5, <1>6, <1>7, <2>1
    <3> QED
      BY <1>3, <2>1, <3>1 DEF InTransit
  <2>2. CASE op = "credit"
    <3>1. applied[d] = 1 /\ applied[c] = 0 /\ applied'[c] = 1
      BY <1>1, <1>2, <1>3, <1>4, <1>5, <1>6, <2>2, TxShape
    <3> QED
      BY <1>3, <2>2, <3>1 DEF InTransit
  <2> QED
    BY <1>3, <2>1, <2>2
<1>9. \A i \in Jobs \ {j} : InTransit(i)' = InTransit(i)
  <2> SUFFICES ASSUME NEW i \in Jobs \ {j} PROVE InTransit(i)' = InTransit(i)
    OBVIOUS
  <2>1. /\ Call(i, "debit") \in References \ {r} /\ Call(i, "credit") \in References \ {r}
    BY <1>2, CallNames
  <2> QED
    BY <1>4, <2>1 DEF InTransit
<1>10. (IF op = "credit" THEN x ELSE -x) \in Int
  BY <1>3
<1>11. SumsAreOfMoney /\ SumsAreOfMoney'
  BY SumsTyped, PTL
<1>12. PICK u \in Users, s \in Int : u = call[r].user /\ s = IF op = "credit" THEN x ELSE -x
  BY <1>3, <1>10
<1> QED
  BY <1>4, <1>8, <1>9, <1>11, <1>12, MoneyMoves DEF PaymentBooks

(* The call that records a debt is the one whose commission was owed to be. *)
LEMMA RecordKeepsDebt ==
  ASSUME SettlementInv, SettlementInv', PaymentBooks, NEW r \in Requests, pay' = pay, RecordDebt(r)
  PROVE  DebtIsCommission'
<1>1. pc[r] = "recordDebt" /\ TypeOK /\ call[r] \in Debts
  BY DEF RecordDebt, Ready, SettlementInv, WalletInv, LabelFitsCall
<1>2. PICK j \in Jobs, op \in {"debit", "credit", "debt"} : r = Call(j, op)
  BY CallNames
<1>3. PICK u \in Users, a \in Int :
        /\ r = Call(j, "debt") /\ u = call[r].user /\ a = call[r].amount
        /\ u = pay[j].executor /\ a = pay[j].terms.incentive \div 10
  BY <1>1, <1>2, CallShape DEF SettlementInv, CallsArePayments, PaymentBooks, DebtIsAsked, Commission
<1>4. /\ debt' = [debt EXCEPT ![u] = @ + a] /\ pc'[r] = "returned"
      /\ \A q \in Requests \ {r} : pc'[q] = pc[q]
  BY <1>1, <1>3 DEF RecordDebt, Goto, TypeOK
<1>5. CommissionOwed(j, u)' = CommissionOwed(j, u) + a
  BY <1>1, <1>3, <1>4 DEF CommissionOwed
<1>6. \A x \in Users \ {u} : CommissionOwed(j, x)' = CommissionOwed(j, x)
  BY <1>3 DEF CommissionOwed
<1>7. \A i \in Jobs \ {j}, x \in Users : CommissionOwed(i, x)' = CommissionOwed(i, x)
  <2> SUFFICES ASSUME NEW i \in Jobs \ {j}, NEW x \in Users
               PROVE  CommissionOwed(i, x)' = CommissionOwed(i, x)
    OBVIOUS
  <2>1. Call(i, "debt") \in Requests \ {r}
    BY <1>3, CallNames
  <2> QED
    BY <1>4, <2>1 DEF CommissionOwed
<1>8. SumsAreOfMoney /\ SumsAreOfMoney'
  BY SumsTyped, PTL
<1> QED
  BY <1>1, <1>3, <1>4, <1>5, <1>6, <1>7, <1>8, DebtMoves DEF PaymentBooks, TypeOK

(* Every step of a wallet call keeps the books. *)
LEMMA ServiceKeepsBooks ==
  ASSUME SettlementInv, SettlementInv', PaymentBooks, WalletStep
  PROVE  PaymentBooks'
<1>1. PICK r \in Requests : Handle(r) \/ Crash(r)
  BY DEF WalletStep
<1>2. /\ call' = call /\ pay' = pay
      /\ \A q \in Requests \ {r} : pc'[q] = pc[q]
      /\ pc[r] \notin {"idle", "returned", "threw"} /\ pc'[r] # "idle"
      /\ WalletInv(References) /\ WalletInv(References)' /\ TypeOK /\ LabelFitsCall
  BY <1>1, ServiceMoves DEF WalletStep, SettlementInv, WalletInv
<1>3. WalletPart'
  BY <1>1, <1>2, WalletsKeep DEF PaymentBooks
<1>4. DebtIsAsked'
  BY <1>2, CallNames DEF PaymentBooks, DebtIsAsked
<1>5. /\ InsertWallet(r) => balance' = balance /\ debt' = debt /\ applied' = applied
      /\ ~(balance[call[r].user] >= call[r].amount) /\ ApplyDebit(r) => balance' = balance /\ applied' = applied
  BY <1>2, CallerKnown DEF InsertWallet, ApplyDebit, Ready, store, TypeOK, PaymentBooks, WalletPart, NothingWithoutWallet
<1>6. MoneyConserved'
  <2>1. CASE ApplyCredit(r) \/ (ApplyDebit(r) /\ balance[call[r].user] >= call[r].amount)
    BY <1>2, <2>1, ApplyKeepsMoney
  <2>2. CASE ~(ApplyCredit(r) \/ (ApplyDebit(r) /\ balance[call[r].user] >= call[r].amount))
    <3>1. balance' = balance /\ applied' = applied
      BY <1>1, <1>5, <2>2 DEF Handle, FindWallet, RecheckWallet, FindTx, InsertTx, MarkSuccess, MarkFailed,
        RecordDebt, Crash, store
    <3> QED
      BY <1>2, <3>1, MoneyStays DEF PaymentBooks, InTransit
  <2> QED
    BY <2>1, <2>2
<1>7. DebtIsCommission'
  <2>1. CASE RecordDebt(r)
    BY <1>2, <2>1, RecordKeepsDebt
  <2>2. CASE ~RecordDebt(r)
    <3>1. debt' = debt
      BY <1>1, <1>5, <2>2 DEF Handle, FindWallet, RecheckWallet, FindTx, InsertTx, ApplyCredit, ApplyDebit,
        MarkSuccess, MarkFailed, Crash, store
    <3>2. ASSUME NEW j \in Jobs
          PROVE  pc'[Call(j, "debt")] = "returned" <=> pc[Call(j, "debt")] = "returned"
      <4>1. CASE Call(j, "debt") # r
        BY <1>2, <4>1, CallNames
      <4>2. CASE Call(j, "debt") = r
        <5>1. call[r].op = "debt" /\ call[r] \notin Payments
          BY <1>2, <4>2, CallShape DEF SettlementInv, CallsArePayments
        <5>2. pc'[r] # "returned"
          BY <1>1, <1>2, <2>2, <5>1 DEF Handle, FindWallet, RecheckWallet, InsertWallet, FindTx, InsertTx,
            ApplyCredit, ApplyDebit, MarkSuccess, MarkFailed, Crash, Ready, Goto, AfterWallet, TypeOK,
            LabelFitsCall, Settling
        <5> QED
          BY <1>2, <4>2, <5>2
      <4> QED
        BY <4>1, <4>2
    <3>3. \A j \in Jobs, u \in Users : CommissionOwed(j, u)' = CommissionOwed(j, u)
      BY <1>2, <3>2 DEF CommissionOwed
    <3> QED
      BY <3>1, <3>3, DebtStays DEF PaymentBooks
  <2> QED
    BY <2>1, <2>2
<1> QED
  BY <1>3, <1>4, <1>6, <1>7 DEF PaymentBooks

(* A step of a payment does. *)
LEMMA PaymentKeepsBooks ==
  ASSUME SettlementInv, SettlementInv', PaymentBooks, NEW j \in Jobs, PayStep(j)
  PROVE  PaymentBooks'
<1>1. CASE AskDebit(j)
  BY <1>1, PayShape, AskKeepsBooks DEF AskDebit, Ask, PayAt, Pay
<1>2. CASE AskCredit(j)
  BY <1>2, PayShape, AskKeepsBooks DEF AskCredit, Ask, PayAt, Pay
<1>3. CASE AskDebt(j)
  <2>1. pay[j].at = "debt"
    BY <1>3 DEF AskDebt, Ask, PayAt
  <2> QED
    BY <1>3, <2>1, PayShape, AskKeepsBooks DEF AskDebt, Pay, SettlementInv, OweNobody
<1>4. CASE AwaitDebit(j) \/ AwaitCredit(j) \/ AwaitDebt(j) \/ CreditNobody(j)
  <2>1. UNCHANGED walletVars /\ pay[j].at # "none"
    BY <1>4 DEF AwaitDebit, AwaitCredit, AwaitDebt, CreditNobody, Await, PayAt
  <2>2. \A label : PayGoto(j, label) =>
          \A i \in Jobs : pay'[i].terms = pay[i].terms /\ pay'[i].executor = pay[i].executor
    BY <2>1, PayShape DEF PayGoto, SettlementInv, SettlementTypeOK, Pay
  <2> QED
    BY <1>4, <2>1, <2>2, WaitingKeepsBooks DEF AwaitDebit, AwaitCredit, AwaitDebt, CreditNobody, Await
<1> QED
  BY <1>1, <1>2, <1>3, <1>4 DEF PayStep

(* Nothing has been paid at first. *)
LEMMA BooksAtFirst ==
  ASSUME SettlementInit
  PROVE  PaymentBooks
<1>1. PICK owners \in SUBSET Users : (\A u \in Users : Opening[u] > 0 => u \in owners) /\ InitWith(owners, Opening)
  BY DEF SettlementInit
<1>2. WalletPart
  <2>1. \A u \in Users \ owners : Opening[u] = 0
    <3> SUFFICES ASSUME NEW u \in Users \ owners PROVE Opening[u] = 0
      OBVIOUS
    <3>1. Opening[u] \in Nat
      BY SettlementAssumption
    <3>2. ~(Opening[u] > 0)
      BY <1>1
    <3> QED
      BY <3>1, <3>2
  <2> QED
    BY <1>1, <2>1, SettlementAssumption, InitWallets
<1>3. /\ balance = Opening /\ debt = [u \in Users |-> 0]
      /\ \A r \in Requests : pc[r] = "idle"
      /\ \A f \in References : applied[f] = 0
  BY <1>1 DEF InitWith
<1>4. DebtIsAsked
  BY <1>3, CallNames DEF DebtIsAsked
<1>5. MoneyConserved
  <2>1. [j \in Jobs |-> InTransit(j)] = [j \in Jobs |-> 0]
    BY <1>3, CallNames DEF InTransit
  <2>2. SumFunction([j \in Jobs |-> 0]) = 0
    BY SumOfZeros, FiniteBooks
  <2>3. SumFunction(Opening) \in Int
    <3>1. Opening \in [Users -> Int]
      BY SettlementAssumption
    <3> QED
      BY <3>1, SumType, FiniteBooks
  <2> QED
    BY <1>3, <2>1, <2>2, <2>3 DEF MoneyConserved
<1>6. DebtIsCommission
  <2> SUFFICES ASSUME NEW u \in Users
               PROVE  debt[u] = SumFunction([j \in Jobs |-> CommissionOwed(j, u)])
    BY DEF DebtIsCommission
  <2>1. [j \in Jobs |-> CommissionOwed(j, u)] = [j \in Jobs |-> 0]
    BY <1>3, CallNames DEF CommissionOwed
  <2>2. SumFunction([j \in Jobs |-> 0]) = 0
    BY SumOfZeros, FiniteBooks
  <2> QED
    BY <1>3, <2>1, <2>2
<1> QED
  BY <1>2, <1>4, <1>5, <1>6 DEF PaymentBooks

(* The books of the settlement balance in every reachable state. *)
THEOREM BooksHold == SettlementSpec => []PaymentBooks
<1>1. SettlementInit => PaymentBooks
  BY BooksAtFirst
<1>2. SettlementInv /\ SettlementInv' /\ PaymentBooks /\ [SettlementNext]_settlementVars => PaymentBooks'
  <2> SUFFICES ASSUME SettlementInv, SettlementInv', PaymentBooks, [SettlementNext]_settlementVars
               PROVE  PaymentBooks'
    OBVIOUS
  <2>1. CASE TaskStep \/ UNCHANGED settlementVars
    <3>1. UNCHANGED walletVars /\ pay' = pay
      BY <2>1 DEF TaskStep, settlementVars
    <3> QED
      BY <3>1, WaitingKeepsBooks
  <2>2. ASSUME NEW j \in Jobs, CompleteFirst(j)
        PROVE  PaymentBooks'
    <3>1. pay[j] = NoPay
      BY <2>2, EmptySlot DEF CompleteFirst, T!Acknowledge, T!Updating, SettlementInv, JobFits
    <3>2. UNCHANGED walletVars /\ \A i \in Jobs \ {j} : pay'[i] = pay[i]
      BY <2>2 DEF CompleteFirst, SettlementInv, SettlementTypeOK
    <3> QED
      BY <3>1, <3>2, WaitingKeepsBooks
  <2> QED
    BY <2>1, <2>2, PaymentKeepsBooks, ServiceKeepsBooks DEF SettlementNext
<1> QED
  BY <1>1, <1>2, SettlementInvariantHolds, PTL DEF SettlementSpec

(* No payment takes a balance below zero, however it races with others,     *)
(* unless a negative amount was credited to that user: the incentive of a   *)
(* task is checked by nobody.                                               *)
THEOREM PayersStaySolvent == SettlementSpec => []NoOverdraft
BY BooksHold, PTL DEF PaymentBooks, WalletPart

(* Payments neither make nor destroy money, for any number of tasks,        *)
(* acknowledgements and users: what a poster was debited is in an           *)
(* executor's wallet or in transit under that acknowledgement.              *)
THEOREM MoneyIsConserved == SettlementSpec => []MoneyConserved
BY BooksHold, PTL DEF PaymentBooks

(* Every user owes the commissions of the cash acknowledgements that        *)
(* recorded one, and nothing else (recordDebt).                             *)
THEOREM DebtsAreCommissions == SettlementSpec => []DebtIsCommission
BY BooksHold, PTL DEF PaymentBooks

-----------------------------------------------------------------------------
(* Whatever requests on tasks and wallet calls interleave, all that         *)
(* a step does to the money of the users is one booking of the ledger: no   *)
(* reference is booked twice, and no debit without the funds.               *)
THEOREM PaymentsAreBookings ==
  SettlementSpec => [][Books(References)!Next]_(Books(References)!ledgerVars)
<1>1. /\ SettlementInv /\ SettlementInv' /\ PaymentBooks /\ PaymentBooks'
      /\ [SettlementNext]_settlementVars
      => [Books(References)!Next]_(Books(References)!ledgerVars)
  <2> SUFFICES ASSUME SettlementInv, SettlementInv', PaymentBooks, PaymentBooks',
                      [SettlementNext]_settlementVars
               PROVE  Books(References)!Next \/ UNCHANGED Books(References)!ledgerVars
    OBVIOUS
  <2>1. WalletInv(References) /\ WalletPart /\ TypeOK'
    BY DEF SettlementInv, PaymentBooks, WalletInv
  <2>2. CASE UNCHANGED walletVars
    BY <2>2, IdlingIsQuiet
  <2>3. ASSUME NEW r \in Requests, (\E c \in Calls : Start(r, c)) \/ Handle(r) \/ Crash(r)
        PROVE  Books(References)!Next \/ UNCHANGED Books(References)!ledgerVars
    BY <2>1, <2>3, ServiceStepBooks
  <2>4. ASSUME NEW j \in Jobs, AskDebit(j) \/ AskCredit(j) \/ AskDebt(j)
        PROVE  \E r \in Requests, c \in Calls : Start(r, c)
    <3>1. pay[j].at # "none"
      BY <2>4 DEF AskDebit, AskCredit, AskDebt, Ask, PayAt
    <3>2. /\ pay[j] \in Pay /\ pay[j].terms.incentive \in Amounts
          /\ AskDebt(j) => /\ pay[j].executor # None /\ Commission(pay[j].terms) \in Amounts
                            /\ Commission(pay[j].terms) > 0
      BY <3>1, PayShape DEF AskDebt, Ask, PayAt, SettlementInv, OweNobody
    <3>3. PICK op \in {"debit", "credit", "debt"}, u \in Users, a \in Amounts :
            Ask(j, op, u, a) /\ (op = "debt" => a > 0)
      BY <2>4, <3>2 DEF AskDebit, AskCredit, AskDebt, Pay
    <3>4. Call(j, op) \in Requests /\ (op # "debt" => Call(j, op) \in References)
      BY CallNames
    <3>5. [op |-> op, user |-> u, amount |-> a, ref |-> IF op = "debt" THEN None ELSE Call(j, op)] \in Calls
      BY <3>3, <3>4 DEF Calls, Payments, Debts
    <3> QED
      BY <3>3, <3>4, <3>5 DEF Ask
  <2> QED
    BY <2>2, <2>3, <2>4 DEF SettlementNext, TaskStep, CompleteFirst, PayStep, AwaitDebit, AwaitCredit, AwaitDebt,
      Await, CreditNobody, WalletStep, settlementVars
<1> QED
  BY <1>1, SettlementInvariantHolds, BooksHold, PTL DEF SettlementSpec
=============================================================================
