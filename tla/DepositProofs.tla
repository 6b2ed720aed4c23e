---------------------------- MODULE DepositProofs ----------------------------
(***************************************************************************)
(* Proofs about deposits next to the rest of the wallet service, for any   *)
(* users, amounts, deposits, deliveries and workload.                      *)
(***************************************************************************)
EXTENDS DepositBooks, LedgerProofs

InitLabels == {"idle", "wallet", "insert", "post", "save", "fail", "returned", "threw"}

HookLabels == {"idle", "find", "mark", "credit", "fail", "done"}

DepositTypeOK ==
  /\ init \in [Deposits -> InitLabels]
  /\ order \in [Deposits -> Amounts \cup {None}]
  /\ pages \subseteq Deposits
  /\ reports \in [Deposits -> SUBSET Reports]
  /\ hook \in [Hooks -> [at : HookLabels, event : Reports \cup {None},
                         ref : Deposits \cup {None}]]

(* A deposit knows its user and its amount once it is under way, has a      *)
(* document once Paystack is asked, and is reported on only when Paystack   *)
(* has made its page.                                                       *)
StageOfDeposit == \A d \in Deposits :
  /\ init[d] # "idle" => pc[d] # "idle" /\ order[d] \in Amounts
  /\ init[d] \in {"post", "save", "fail", "returned"} => tx[d] # NoTx
  /\ d \in pages => /\ init[d] \in {"save", "fail", "returned", "threw"}
                    /\ tx[d] # NoTx
                    /\ order[d] > 0
  /\ reports[d] # {} => d \in pages

(* A delivery brings a report that Paystack has made, and one that settles  *)
(* brings a success.                                                        *)
HookBringsReport == \A h \in Hooks : hook[h].at # "idle" =>
  /\ hook[h].ref \in Deposits
  /\ hook[h].event \in reports[hook[h].ref]
  /\ hook[h].at \in {"find", "mark", "credit"} => hook[h].event = "charge.success"

DepositInv ==
  /\ WalletInv(Others)
  /\ DepositTypeOK
  /\ StageOfDeposit
  /\ HookBringsReport
  /\ NoCreditWithoutCharge
  /\ SuccessIsBeingCredited

-----------------------------------------------------------------------------
(* The wallet service and the deposits do not write each other's documents. *)
LEMMA ServiceLeavesDeposits ==
  ASSUME DepositInv, NEW r \in Requests,
         (\E c \in Calls : Start(r, c)) \/ Handle(r) \/ Crash(r)
  PROVE  /\ \A d \in Deposits : tx'[d] = tx[d] /\ applied'[d] = applied[d]
         /\ \A q \in Requests : pc[q] # "idle" => pc'[q] # "idle"
<1> USE DEF DepositInv
<1>1. /\ TypeOK
      /\ Settling(r) \/ pc[r] = "insertTx" => call[r].ref \in References \ Deposits
  BY CallShape DEF WalletInv, LabelFitsCall, CallsWithin, Settling, Others
<1>2. \A q \in Requests : pc[q] # "idle" => pc'[q] # "idle"
  BY <1>1 DEF TypeOK, Start, Handle, FindWallet, RecheckWallet, InsertWallet, FindTx, InsertTx,
    ApplyCredit, ApplyDebit, MarkSuccess, MarkFailed, RecordDebt, Crash, Ready, Goto, AfterWallet
<1>3. CASE tx' = tx /\ applied' = applied
  BY <1>2, <1>3
<1>4. CASE InsertTx(r)
  BY <1>1, <1>2, <1>4, DepositAssumption DEF InsertTx, Ready, TypeOK
<1>5. CASE ApplyCredit(r) \/ ApplyDebit(r)
  BY <1>1, <1>2, <1>5, DepositAssumption DEF ApplyCredit, ApplyDebit, Ready, Settling, TypeOK
<1>6. CASE MarkSuccess(r) \/ MarkFailed(r)
  BY <1>1, <1>2, <1>6, DepositAssumption DEF MarkSuccess, MarkFailed, Ready, Settling, TypeOK
<1> QED
  BY <1>3, <1>4, <1>5, <1>6 DEF Handle, Start, FindWallet, RecheckWallet, InsertWallet, FindTx,
    RecordDebt, Crash, store

LEMMA DepositsLeaveService ==
  ASSUME WalletInv(Others),
         tx' \in [References -> TxDoc \cup {NoTx}],
         applied' \in [References -> Nat],
         \A f \in Others : tx'[f] = tx[f] /\ applied'[f] = applied[f],
         balance' \in [Users -> Int],
         UNCHANGED <<wallets, debt, pc, call, crashed>>
  PROVE  WalletInv(Others)'
<1>1. \A r \in Requests : Settling(r) => call[r].ref \in Others
  BY SettlerWithin DEF Others
<1>2. TypeOK'
  BY DEF WalletInv, TypeOK
<1>3. LabelFitsCall' /\ CallsWithin(Others)' /\ OneSettler'
  BY DEF WalletInv, LabelFitsCall, CallsWithin, OneSettler, Settling
<1>4. SettlerOwnsPending'
  BY <1>1 DEF WalletInv, SettlerOwnsPending, Settling
<1>5. HeldWithin(Others)' /\ TrueWithin(Others)'
  BY DEF WalletInv, HeldWithin, TrueWithin, Settling
<1> QED
  BY <1>2, <1>3, <1>4, <1>5 DEF WalletInv

(* A document of a deposit gets another status, or the deposit another     *)
(* document.                                                               *)
LEMMA DepositDocument ==
  ASSUME TypeOK, NEW d \in Deposits
  PROVE  /\ d \in References /\ d \notin Others
         /\ tx[d] # NoTx => tx[d] \in TxDoc
         /\ \A s \in {"success", "failed"} :
              tx[d] # NoTx /\ tx' = [tx EXCEPT ![d].status = s] =>
                /\ tx' \in [References -> TxDoc \cup {NoTx}]
                /\ tx'[d] \in TxDoc /\ tx'[d].status = s
                /\ \A f \in References \ {d} : tx'[f] = tx[f]
<1>1. d \in References /\ d \notin Others
  BY DepositAssumption DEF Others
<1>2. tx[d] # NoTx => tx[d] \in TxDoc
  BY <1>1 DEF TypeOK
<1>3. ASSUME NEW s \in {"success", "failed"}, tx[d] # NoTx, tx' = [tx EXCEPT ![d].status = s]
      PROVE  /\ tx' \in [References -> TxDoc \cup {NoTx}]
             /\ tx'[d] \in TxDoc /\ tx'[d].status = s
             /\ \A f \in References \ {d} : tx'[f] = tx[f]
  <2>1. [tx[d] EXCEPT !.status = s] \in TxDoc /\ [tx[d] EXCEPT !.status = s].status = s
    BY <1>2, <1>3 DEF TxDoc
  <2>2. tx'[d] = [tx[d] EXCEPT !.status = s] /\ \A f \in References \ {d} : tx'[f] = tx[f]
    BY <1>1, <1>3 DEF TypeOK
  <2> QED
    BY <2>1, <2>2, <1>1, <1>3 DEF TypeOK
<1> QED
  BY <1>1, <1>2, <1>3

-----------------------------------------------------------------------------
(* Initialize. *)
LEMMA InitializeKeeps ==
  ASSUME DepositInv, NEW d \in Deposits,
         (\E u \in Users, a \in Amounts : InitStart(d, u, a)) \/ InitStep(d)
  PROVE  DepositInv'
<1> USE DEF DepositInv
<1>0. TypeOK /\ d \in Requests /\ d \in References /\ d \notin Others /\ Others \subseteq References
  BY DepositAssumption DEF WalletInv, Others
<1>1. ASSUME NEW u \in Users, NEW a \in Amounts, InitStart(d, u, a)
      PROVE  DepositInv'
  <2> DEFINE c == [op |-> "get", user |-> u, ref |-> None, amount |-> 0]
  <2>1. c \in Calls /\ c \notin Payments
    BY DEF Calls, Openings, Payments
  <2>2. WalletInv(Others)'
    BY <1>0, <1>1, <2>1, ServiceKeeps DEF InitStart
  <2>3. /\ \A e \in Deposits : tx'[e] = tx[e] /\ applied'[e] = applied[e]
        /\ \A q \in Requests : pc[q] # "idle" => pc'[q] # "idle"
    BY <1>0, <1>1, <2>1, ServiceLeavesDeposits DEF InitStart
  <2>4. pc'[d] # "idle"
    BY <1>0, <1>1 DEF InitStart, Start, Goto, TypeOK
  <2>5. /\ order' \in [Deposits -> Amounts \cup {None}] /\ order'[d] = a
        /\ init' \in [Deposits -> InitLabels] /\ init[d] = "idle" /\ init'[d] = "wallet"
        /\ \A e \in Deposits \ {d} : order'[e] = order[e] /\ init'[e] = init[e]
        /\ pages' = pages /\ reports' = reports /\ hook' = hook
    BY <1>1 DEF InitStart, InitAt, InitGoto, DepositTypeOK, InitLabels
  <2>6. DepositTypeOK' /\ StageOfDeposit' /\ HookBringsReport'
    BY <1>0, <2>3, <2>4, <2>5, DepositAssumption DEF DepositTypeOK, StageOfDeposit, HookBringsReport
  <2>7. NoCreditWithoutCharge' /\ SuccessIsBeingCredited'
    BY <2>3, <2>5 DEF NoCreditWithoutCharge, SuccessIsBeingCredited
  <2> QED
    BY <2>2, <2>6, <2>7
<1>2. CASE InitResume(d) \/ InitPost(d) \/ InitSave(d)
  <2>1. /\ UNCHANGED walletVars /\ order' = order /\ reports' = reports /\ hook' = hook
        /\ tx' = tx /\ pc' = pc /\ applied' = applied
        /\ init' \in [Deposits -> InitLabels]
        /\ \A e \in Deposits \ {d} : init'[e] = init[e]
        /\ \/ init[d] = "wallet" /\ init'[d] \in {"insert", "threw"}
           \/ init[d] = "post" /\ init'[d] \in {"save", "fail"}
           \/ init[d] = "save" /\ init'[d] \in {"returned", "fail"}
        /\ pages' = pages \/ (init[d] = "post" /\ order[d] > 0 /\ pages' = pages \cup {d})
    BY <1>2 DEF InitResume, InitPost, InitSave, InitAt, InitGoto, DepositTypeOK, InitLabels, walletVars
  <2>2. WalletInv(Others)'
    BY <2>1, IdlingKeeps
  <2>3. DepositTypeOK' /\ HookBringsReport'
    BY <2>1 DEF DepositTypeOK, HookBringsReport
  <2>4. NoCreditWithoutCharge' /\ SuccessIsBeingCredited'
    BY <2>1 DEF NoCreditWithoutCharge, SuccessIsBeingCredited
  <2>5. StageOfDeposit'
    BY <2>1 DEF StageOfDeposit
  <2> QED
    BY <2>2, <2>3, <2>4, <2>5
<1>3. CASE InitInsert(d) \/ InitFail(d)
  <2>1. /\ UNCHANGED <<wallets, balance, debt, pc, call, crashed, applied>>
        /\ order' = order /\ pages' = pages /\ reports' = reports /\ hook' = hook
        /\ init' \in [Deposits -> InitLabels]
        /\ \A e \in Deposits \ {d} : init'[e] = init[e]
        /\ \/ init[d] = "insert" /\ init'[d] = "post"
           \/ init[d] = "fail" /\ init'[d] = "threw"
    BY <1>3 DEF InitInsert, InitFail, InitAt, InitGoto, DepositTypeOK, InitLabels
  <2>2. /\ tx' \in [References -> TxDoc \cup {NoTx}]
        /\ \A f \in References \ {d} : tx'[f] = tx[f]
        /\ tx'[d].status = "success" => tx'[d] = tx[d]
        /\ tx'[d] # NoTx
    <3>1. CASE InitInsert(d)
      <4> DEFINE t == [status |-> "pending", user |-> call[d].user, type |-> "credit",
                       amount |-> order[d]]
      <4>1. call[d].user \in Users /\ order[d] \in Amounts
        BY <1>0, <3>1, CallShape DEF InitInsert, InitAt, StageOfDeposit, WalletInv, LabelFitsCall
      <4>2. t \in TxDoc /\ t.status = "pending" /\ t # NoTx
        BY <4>1, TxShape DEF TxDoc
      <4> QED
        BY <1>0, <3>1, <4>2 DEF InitInsert, TypeOK
    <3>2. CASE InitFail(d)
      <4>1. tx[d] # NoTx
        BY <3>2 DEF InitFail, InitAt, StageOfDeposit
      <4> QED
        BY <1>0, <3>2, <4>1, DepositDocument, TxShape DEF InitFail, TypeOK
    <3> QED
      BY <1>3, <3>1, <3>2
  <2>3. WalletInv(Others)'
    BY <1>0, <2>1, <2>2, DepositsLeaveService DEF WalletInv, TypeOK
  <2>4. DepositTypeOK' /\ StageOfDeposit' /\ HookBringsReport'
    BY <1>0, <2>1, <2>2, DepositAssumption DEF DepositTypeOK, StageOfDeposit, HookBringsReport
  <2>5. NoCreditWithoutCharge' /\ SuccessIsBeingCredited'
    BY <1>0, <2>1, <2>2, DepositAssumption DEF NoCreditWithoutCharge, SuccessIsBeingCredited
  <2> QED
    BY <2>3, <2>4, <2>5
<1> QED
  BY <1>1, <1>2, <1>3 DEF InitStep

(* The webhook. *)
LEMMA HookKeeps ==
  ASSUME DepositInv, NEW h \in Hooks, HookStep(h)
  PROVE  DepositInv'
<1> USE DEF DepositInv
<1> DEFINE d == hook[h].ref
<1>0. /\ TypeOK /\ d \in Deposits /\ d \in References /\ d \notin Others /\ Others \subseteq References
      /\ tx[d] # NoTx /\ tx[d] \in TxDoc /\ order[d] \in Amounts /\ order[d] \in Int
      /\ hook[h].event \in reports[d]
  <2>1. hook[h].at # "idle"
    BY DEF HookStep, HookFind, HookMark, HookCredit, HookFail, HookAt
  <2>2. d \in Deposits /\ hook[h].event \in reports[d] /\ tx[d] # NoTx /\ order[d] \in Amounts
    BY <2>1 DEF HookBringsReport, StageOfDeposit
  <2> QED
    BY <2>2, DepositAssumption, DepositDocument, WalletAssumption DEF WalletInv, Others
<1>1. /\ init' = init /\ order' = order /\ pages' = pages /\ reports' = reports
      /\ UNCHANGED <<wallets, debt, pc, call, crashed>>
      /\ hook' \in [Hooks -> [at : HookLabels, event : Reports \cup {None}, ref : Deposits \cup {None}]]
      /\ \A g \in Hooks \ {h} : hook'[g] = hook[g]
      /\ hook'[h].ref = d /\ hook'[h].event = hook[h].event
      /\ \/ hook[h].at \in {"find", "fail", "credit"} /\ hook'[h].at = "done"
         \/ hook[h].at = "find" /\ hook'[h].at = "mark"
         \/ hook[h].at = "mark" /\ hook'[h].at = "credit"
  BY DEF HookStep, HookFind, HookMark, HookCredit, HookFail, HookAt, HookGoto, DepositTypeOK, HookLabels,
    walletVars
<1>2. HookBringsReport'
  BY <1>0, <1>1 DEF HookBringsReport
<1>3. CASE HookFind(h)
  <2>1. UNCHANGED walletVars /\ tx' = tx /\ applied' = applied /\ hook[h].at = "find"
    BY <1>3 DEF HookFind, HookAt, walletVars
  <2>2. WalletInv(Others)'
    BY <2>1, IdlingKeeps
  <2> QED
    BY <1>1, <1>2, <2>1, <2>2 DEF DepositTypeOK, StageOfDeposit, NoCreditWithoutCharge, SuccessIsBeingCredited
<1>4. CASE HookMark(h) \/ HookFail(h)
  <2>1. /\ balance' = balance /\ applied' = applied
        /\ tx' \in [References -> TxDoc \cup {NoTx}]
        /\ tx'[d] # NoTx
        /\ \A f \in References \ {d} : tx'[f] = tx[f]
        /\ tx'[d].status = "success" => hook[h].at = "mark" /\ hook'[h].at = "credit"
        /\ hook[h].at # "credit"
    BY <1>0, <1>1, <1>4, DepositDocument, TxShape DEF HookMark, HookFail, HookAt
  <2>2. WalletInv(Others)'
    BY <1>0, <1>1, <2>1, DepositsLeaveService DEF WalletInv, TypeOK
  <2>3. SuccessIsBeingCredited'
    BY <1>0, <1>1, <2>1, DepositAssumption DEF SuccessIsBeingCredited
  <2>4. DepositTypeOK' /\ StageOfDeposit' /\ NoCreditWithoutCharge'
    BY <1>0, <1>1, <2>1, DepositAssumption DEF DepositTypeOK, StageOfDeposit, NoCreditWithoutCharge
  <2> QED
    BY <1>2, <2>2, <2>3, <2>4
<1>5. CASE HookCredit(h)
  <2>1. /\ tx' = tx /\ hook[h].at = "credit" /\ hook[h].event = "charge.success"
        /\ balance' = [balance EXCEPT ![tx[d].user] = @ + order[d]]
        /\ applied' = [applied EXCEPT ![d] = @ + 1]
    BY <1>5 DEF HookCredit, HookAt, HookBringsReport
  <2>2. /\ applied' \in [References -> Nat] /\ applied'[d] > 0
        /\ \A f \in References \ {d} : applied'[f] = applied[f]
    BY <1>0, <2>1 DEF TypeOK
  <2>3. balance' \in [Users -> Int]
    BY <1>0, <2>1 DEF TypeOK, TxDoc
  <2>4. WalletInv(Others)'
    BY <1>0, <1>1, <2>1, <2>2, <2>3, DepositsLeaveService DEF TypeOK
  <2>5. NoCreditWithoutCharge' /\ SuccessIsBeingCredited'
    BY <1>0, <1>1, <2>1, <2>2, DepositAssumption DEF NoCreditWithoutCharge, SuccessIsBeingCredited
  <2> QED
    BY <1>1, <1>2, <2>1, <2>4, <2>5 DEF DepositTypeOK, StageOfDeposit
<1> QED
  BY <1>3, <1>4, <1>5 DEF HookStep

-----------------------------------------------------------------------------
(* Every step of the composition keeps the invariant. *)
THEOREM DepositInvariantHolds == DepositSpec => []DepositInv
<1>1. DepositInit => DepositInv
  <2> SUFFICES ASSUME DepositInit PROVE DepositInv
    OBVIOUS
  <2>1. WalletInv(Others)
    BY InitHolds DEF DepositInit, Init, Others
  <2>2. DepositTypeOK /\ StageOfDeposit /\ HookBringsReport
    BY DEF DepositInit, DepositTypeOK, StageOfDeposit, HookBringsReport, InitLabels, HookLabels, IdleHook
  <2>3. NoCreditWithoutCharge /\ SuccessIsBeingCredited
    BY DepositAssumption, TxShape DEF DepositInit, Init, InitWith, NoCreditWithoutCharge, SuccessIsBeingCredited
  <2> QED
    BY <2>1, <2>2, <2>3 DEF DepositInv
<1>2. DepositInv /\ [DepositNext]_depositVars => DepositInv'
  <2> SUFFICES ASSUME DepositInv, [DepositNext]_depositVars
               PROVE  DepositInv'
    OBVIOUS
  <2> USE DEF DepositInv
  <2>1. ASSUME WalletStep
        PROVE  DepositInv'
    <3>1. PICK r \in Requests : \/ \E c \in Calls : Start(r, c) /\ (c \in Payments => c.ref \in Others)
                                \/ Handle(r) \/ Crash(r)
      BY <2>1, WalletAssumption, DepositAssumption, CallShape DEF WalletStep, Others
    <3>2. WalletInv(Others)'
      BY <3>1, ServiceKeeps DEF Others
    <3>3. /\ \A d \in Deposits : tx'[d] = tx[d] /\ applied'[d] = applied[d]
          /\ \A q \in Requests : pc[q] # "idle" => pc'[q] # "idle"
      BY <3>1, ServiceLeavesDeposits
    <3>4. UNCHANGED <<init, order, pages, reports, hook>>
      BY <2>1 DEF WalletStep
    <3>5. DepositTypeOK' /\ StageOfDeposit' /\ HookBringsReport'
      BY <3>3, <3>4, DepositAssumption DEF DepositTypeOK, StageOfDeposit, HookBringsReport
    <3>6. NoCreditWithoutCharge' /\ SuccessIsBeingCredited'
      BY <3>3, <3>4 DEF NoCreditWithoutCharge, SuccessIsBeingCredited
    <3> QED
      BY <3>2, <3>5, <3>6
  <2>2. ASSUME NEW d \in Deposits,
               (\E u \in Users, a \in Amounts : InitStart(d, u, a)) \/ InitStep(d)
        PROVE  DepositInv'
    BY <2>2, InitializeKeeps
  <2>3. ASSUME NEW h \in Hooks, HookStep(h)
        PROVE  DepositInv'
    BY <2>3, HookKeeps
  <2>4. ASSUME NEW d \in Deposits, NEW event \in Reports, ChargeEnds(d, event)
        PROVE  DepositInv'
    <3>1. /\ UNCHANGED walletVars /\ tx' = tx /\ applied' = applied /\ pc' = pc
          /\ init' = init /\ order' = order /\ pages' = pages /\ hook' = hook /\ d \in pages
          /\ reports' \in [Deposits -> SUBSET Reports]
          /\ \A e \in Deposits : reports[e] \subseteq reports'[e]
          /\ \A e \in Deposits \ {d} : reports'[e] = reports[e]
      BY <2>4 DEF ChargeEnds, DepositTypeOK, walletVars
    <3>2. WalletInv(Others)'
      BY <3>1, IdlingKeeps
    <3>3. DepositTypeOK' /\ StageOfDeposit' /\ HookBringsReport'
      BY <3>1 DEF DepositTypeOK, StageOfDeposit, HookBringsReport
    <3>4. NoCreditWithoutCharge' /\ SuccessIsBeingCredited'
      BY <3>1 DEF NoCreditWithoutCharge, SuccessIsBeingCredited
    <3> QED
      BY <3>2, <3>3, <3>4
  <2>5. ASSUME NEW h \in Hooks, NEW d \in Deposits, NEW event \in Reports, Deliver(h, d, event)
        PROVE  DepositInv'
    <3>1. /\ UNCHANGED walletVars /\ tx' = tx /\ applied' = applied /\ pc' = pc
          /\ init' = init /\ order' = order /\ pages' = pages /\ reports' = reports
          /\ event \in reports[d] /\ hook[h].at = "idle"
          /\ hook' \in [Hooks -> [at : HookLabels, event : Reports \cup {None}, ref : Deposits \cup {None}]]
          /\ hook'[h].ref = d /\ hook'[h].event = event
          /\ hook'[h].at \in {"find", "credit", "mark"} => event = "charge.success"
          /\ \A g \in Hooks \ {h} : hook'[g] = hook[g]
      BY <2>5 DEF Deliver, HookAt, DepositTypeOK, HookLabels, walletVars
    <3>2. WalletInv(Others)'
      BY <3>1, IdlingKeeps
    <3>3. DepositTypeOK' /\ StageOfDeposit' /\ HookBringsReport'
      BY <3>1 DEF DepositTypeOK, StageOfDeposit, HookBringsReport
    <3>4. NoCreditWithoutCharge' /\ SuccessIsBeingCredited'
      BY <3>1 DEF NoCreditWithoutCharge, SuccessIsBeingCredited
    <3> QED
      BY <3>2, <3>3, <3>4
  <2>6. ASSUME UNCHANGED <<walletVars, init, order, pages, reports, hook>>
        PROVE  DepositInv'
    <3>1. UNCHANGED walletVars /\ tx' = tx /\ applied' = applied /\ pc' = pc
      BY <2>6 DEF walletVars
    <3>2. WalletInv(Others)'
      BY <3>1, IdlingKeeps
    <3>3. DepositTypeOK' /\ StageOfDeposit' /\ HookBringsReport'
      BY <2>6, <3>1 DEF DepositTypeOK, StageOfDeposit, HookBringsReport
    <3>4. NoCreditWithoutCharge' /\ SuccessIsBeingCredited'
      BY <2>6, <3>1 DEF NoCreditWithoutCharge, SuccessIsBeingCredited
    <3> QED
      BY <3>2, <3>3, <3>4
  <2> QED
    BY <2>1, <2>2, <2>3, <2>4, <2>5, <2>6 DEF DepositNext, Die, depositVars
<1> QED
  BY <1>1, <1>2, PTL DEF DepositSpec

-----------------------------------------------------------------------------
(* The webhook credits a wallet only for a charge that Paystack reported,   *)
(* however failed attempts, repeated deliveries and stops are mixed.        *)
THEOREM CreditsAreCharged == DepositSpec => []NoCreditWithoutCharge
BY DepositInvariantHolds, PTL DEF DepositInv

(* "Already processed" is only answered when the money is there or some     *)
(* delivery was about to book it (handlePaystackEvent saves the status      *)
(* before it credits).                                                      *)
THEOREM SuccessIsOwned == DepositSpec => []SuccessIsBeingCredited
BY DepositInvariantHolds, PTL DEF DepositInv

(* Deposits do not break what the wallet service guarantees: a reference    *)
(* that is not a deposit moves its amount at most once, ...                 *)
THEOREM DepositsLeaveOthersOnce == DepositSpec => [](\A f \in Others : applied[f] <= 1)
<1>1. DepositInv => \A f \in Others : applied[f] <= 1
  <2> SUFFICES ASSUME DepositInv, NEW f \in Others
               PROVE  applied[f] <= 1
    OBVIOUS
  <2>1. tx[f].status \in {"pending", "success", "failed", "absent"}
    BY TxShape DEF DepositInv, WalletInv, TypeOK, Others
  <2>2. CASE tx[f].status = "pending"
    BY <2>2 DEF DepositInv, WalletInv, HeldWithin, SettlerOwnsPending
  <2>3. CASE tx[f].status # "pending"
    BY <2>1, <2>3 DEF DepositInv, WalletInv, TrueWithin
  <2> QED
    BY <2>2, <2>3
<1> QED
  BY <1>1, DepositInvariantHolds, PTL

-----------------------------------------------------------------------------
(* The books.  The document of a deposit is the pending credit of the       *)
(* amount that its Initialize call asked for, once its wallet is known.     *)
DocumentOfDeposit == \A d \in Deposits :
  /\ init[d] \in {"idle", "wallet", "insert"} => tx[d] = NoTx
  /\ init[d] = "insert" => pc[d] = "returned"
  /\ tx[d] # NoTx => tx[d].type = "credit" /\ tx[d].amount = order[d]

DepositBooksInv ==
  /\ DepositInv
  /\ WalletPart
  /\ DocumentOfDeposit
  /\ BalanceReconciles

(* A request that has returned stays so. *)
LEMMA ReturnedStays ==
  ASSUME TypeOK, NEW r \in Requests, (\E c \in Calls : Start(r, c)) \/ Handle(r) \/ Crash(r),
         NEW q \in Requests, pc[q] = "returned"
  PROVE  pc'[q] = "returned"
BY DEF TypeOK, Start, Handle, FindWallet, RecheckWallet, InsertWallet, FindTx, InsertTx,
  ApplyCredit, ApplyDebit, MarkSuccess, MarkFailed, RecordDebt, Crash, Ready, Goto

(* A step of the service next to deposits. *)
LEMMA ServiceKeepsBooks ==
  ASSUME DepositBooksInv, DepositInv', NEW r \in Requests,
         (\E c \in Calls : Start(r, c)) \/ Handle(r) \/ Crash(r)
  PROVE  /\ WalletPart' /\ BalanceReconciles'
         /\ \A d \in Deposits : tx'[d] = tx[d] /\ (pc[d] = "returned" => pc'[d] = "returned")
<1>1. /\ WalletInv(Others) /\ Others \subseteq References /\ WalletPart /\ BalanceReconciles
      /\ TypeOK /\ TypeOK' /\ DepositInv
  BY DEF DepositBooksInv, DepositInv, WalletInv, Others
<1>2. WalletPart'
  <2>1. WalletInv(Others)'
    BY DEF DepositInv
  <2> QED
    BY <1>1, <2>1, WalletsKeep
<1>3. BalanceReconciles'
  BY <1>1, ServiceReconciles
<1>4. \A d \in Deposits : tx'[d] = tx[d]
  BY <1>1, ServiceLeavesDeposits
<1>5. \A d \in Deposits : pc[d] = "returned" => pc'[d] = "returned"
  BY <1>1, ReturnedStays, DepositAssumption
<1> QED
  BY <1>2, <1>3, <1>4, <1>5

(* A step of a deposit leaves the wallets of the others as they are. *)
LEMMA DepositsLeaveWallets ==
  ASSUME WalletInv(Others), WalletPart, UNCHANGED <<wallets, debt, pc, call>>,
         \A f \in Others : tx'[f] = tx[f],
         \A f \in References : tx'[f] # NoTx => tx'[f].user \in wallets,
         \A u \in Users \ wallets : balance'[u] = balance[u],
         NoOverdraft'
  PROVE  WalletPart'
<1>1. \A r \in Requests : Settling(r) => call[r].ref \in Others
  BY SettlerWithin DEF Others
<1>2. PayerHasWallet' /\ NothingWithoutWallet' /\ DocumentHasWallet'
  BY DEF WalletPart, PayerHasWallet, NothingWithoutWallet, DocumentHasWallet, Settling
<1>3. SettlerWrote'
  BY <1>1 DEF WalletPart, SettlerWrote, Settling
<1> QED
  BY <1>2, <1>3 DEF WalletPart

(* A step of a deposit that leaves the documents and the money alone. *)
LEMMA WaitingKeepsBooks ==
  ASSUME DepositBooksInv, UNCHANGED walletVars, order' = order,
         \A d \in Deposits : \/ init'[d] = init[d]
                             \/ init'[d] \notin {"idle", "wallet", "insert"}
                             \/ init'[d] = "insert" /\ init[d] = "wallet" /\ pc[d] = "returned"
  PROVE  WalletPart' /\ DocumentOfDeposit' /\ BalanceReconciles'
<1>1. tx' = tx /\ pc' = pc /\ applied' = applied /\ balance' = balance
  BY DEF walletVars
<1>2. WalletPart'
  BY IdlingKeepsWallets DEF DepositBooksInv
<1>3. DocumentOfDeposit'
  BY <1>1 DEF DepositBooksInv, DocumentOfDeposit
<1>4. BalanceReconciles'
  <2>1. \A f \in References, u \in Users : Effect(f, u)' = Effect(f, u)
    BY <1>1 DEF Effect
  <2> QED
    BY <1>1, <2>1, QuietReconciles DEF DepositBooksInv
<1> QED
  BY <1>2, <1>3, <1>4

(* A step that writes the document of a deposit and moves no money: it      *)
(* inserts the document, or saves a status.                                 *)
LEMMA DocumentKeepsBooks ==
  ASSUME DepositBooksInv, DepositInv', NEW d \in Deposits,
         UNCHANGED <<wallets, balance, debt, pc, call, crashed, applied, order>>,
         \A e \in Deposits \ {d} : init'[e] = init[e],
         init'[d] \notin {"idle", "wallet", "insert"},
         \A f \in References \ {d} : tx'[f] = tx[f],
         tx'[d] \in TxDoc, tx'[d].user \in wallets,
         tx'[d].type = "credit" /\ tx'[d].amount = order[d],
         \/ tx[d] = NoTx /\ applied[d] = 0
         \/ tx[d] # NoTx /\ tx'[d].user = tx[d].user
  PROVE  WalletPart' /\ DocumentOfDeposit' /\ BalanceReconciles'
<1>1. /\ WalletInv(Others) /\ WalletPart /\ DocumentOfDeposit /\ BalanceReconciles
      /\ TypeOK /\ TypeOK'
      /\ d \in References /\ d \notin Others /\ Others \subseteq References
      /\ tx'[d] # NoTx
  BY DepositAssumption, TxShape DEF DepositBooksInv, DepositInv, WalletInv, Others
<1>2. WalletPart'
  <2>1. tx[d] # NoTx => tx[d].type = tx'[d].type /\ tx[d].amount = tx'[d].amount
    BY <1>1 DEF DocumentOfDeposit
  <2>2. /\ \A f \in References : applied'[f] >= applied[f]
        /\ \A u \in Users : balance'[u] >= balance[u]
    BY <1>1 DEF TypeOK
  <2>3. NoOverdraft'
    BY <1>1, <2>1, <2>2, NothingLowered DEF WalletPart
  <2> QED
    BY <1>1, <2>3, DepositsLeaveWallets DEF WalletPart, DocumentHasWallet, Others
<1>3. DocumentOfDeposit'
  BY <1>1, DepositAssumption DEF DocumentOfDeposit
<1>4. BalanceReconciles'
  <2>1. tx[d] # NoTx => tx[d].type = tx'[d].type /\ tx[d].amount = tx'[d].amount
    BY <1>1 DEF DocumentOfDeposit
  <2>2. \A f \in References, u \in Users : Effect(f, u)' = Effect(f, u)
    BY <1>1, <2>1, SameEffect
  <2> QED
    BY <1>1, <2>2, QuietReconciles
<1> QED
  BY <1>2, <1>3, <1>4

(* A saved status changes nothing else of a document. *)
LEMMA SavedDocument ==
  ASSUME TypeOK, NEW d \in References, tx[d] \in TxDoc,
         tx' = tx \/ \E s \in {"success", "failed"} : tx' = [tx EXCEPT ![d].status = s]
  PROVE  /\ tx'[d] \in TxDoc /\ tx'[d].user = tx[d].user
         /\ tx'[d].type = tx[d].type /\ tx'[d].amount = tx[d].amount
         /\ \A f \in References \ {d} : tx'[f] = tx[f]
<1>1. CASE tx' = tx
  BY <1>1
<1>2. ASSUME NEW s \in {"success", "failed"}, tx' = [tx EXCEPT ![d].status = s]
      PROVE  /\ tx'[d] = [tx[d] EXCEPT !.status = s]
             /\ \A f \in References \ {d} : tx'[f] = tx[f]
  BY <1>2 DEF TypeOK
<1> QED
  BY <1>1, <1>2 DEF TxDoc

(* Initialize keeps the books, ... *)
LEMMA InitializeKeepsBooks ==
  ASSUME DepositBooksInv, DepositInv', NEW d \in Deposits,
         (\E u \in Users, a \in Amounts : InitStart(d, u, a)) \/ InitStep(d)
  PROVE  WalletPart' /\ DocumentOfDeposit' /\ BalanceReconciles'
<1>0. /\ WalletInv(Others) /\ WalletPart /\ DocumentOfDeposit /\ DepositInv
      /\ TypeOK /\ DepositTypeOK /\ StageOfDeposit
      /\ d \in References /\ d \in Requests
  BY DepositAssumption DEF DepositBooksInv, DepositInv, WalletInv
<1>1. ASSUME NEW u \in Users, NEW a \in Amounts, InitStart(d, u, a)
      PROVE  WalletPart' /\ DocumentOfDeposit' /\ BalanceReconciles'
  <2> DEFINE c == [op |-> "get", user |-> u, ref |-> None, amount |-> 0]
  <2>1. c \in Calls /\ Start(d, c)
    BY <1>1 DEF InitStart, Calls, Openings
  <2>2. /\ WalletPart' /\ BalanceReconciles'
        /\ \A e \in Deposits : tx'[e] = tx[e] /\ (pc[e] = "returned" => pc'[e] = "returned")
    BY <1>0, <2>1, ServiceKeepsBooks
  <2>3. /\ init[d] = "idle" /\ init'[d] = "wallet"
        /\ \A e \in Deposits \ {d} : order'[e] = order[e] /\ init'[e] = init[e]
    BY <1>0, <1>1 DEF InitStart, InitAt, InitGoto, DepositTypeOK
  <2> QED
    BY <1>0, <2>2, <2>3 DEF DocumentOfDeposit
<1>2. CASE InitResume(d) \/ InitPost(d) \/ InitSave(d)
  <2>1. /\ UNCHANGED walletVars /\ order' = order
        /\ \A e \in Deposits \ {d} : init'[e] = init[e]
        /\ \/ init[d] = "wallet" /\ init'[d] = "insert" /\ pc[d] = "returned"
           \/ init'[d] \in {"threw", "save", "fail", "returned"}
    BY <1>0, <1>2 DEF InitResume, InitPost, InitSave, InitAt, InitGoto, DepositTypeOK
  <2> QED
    BY <2>1, WaitingKeepsBooks
<1>3. CASE InitInsert(d)
  <2> DEFINE t == [status |-> "pending", user |-> call[d].user, type |-> "credit", amount |-> order[d]]
  <2>1. init[d] = "insert" /\ pc[d] = "returned" /\ tx[d] = NoTx /\ order[d] \in Amounts
    BY <1>0, <1>3 DEF InitInsert, InitAt, DocumentOfDeposit, StageOfDeposit
  <2>2. applied[d] = 0
    BY <1>0, <2>1 DEF DepositInv, NoCreditWithoutCharge, StageOfDeposit, TypeOK
  <2>3. call[d].user \in wallets /\ call[d].user \in Users
    BY <1>0, <2>1, CallerKnown DEF WalletPart, PayerHasWallet, WalletInv
  <2>4. t \in TxDoc
    BY <2>1, <2>3 DEF TxDoc
  <2>5. /\ tx'[d] = t /\ \A f \in References \ {d} : tx'[f] = tx[f]
        /\ UNCHANGED <<wallets, balance, debt, pc, call, crashed, applied, order>>
        /\ init'[d] = "post" /\ \A e \in Deposits \ {d} : init'[e] = init[e]
    BY <1>0, <1>3 DEF InitInsert, InitAt, InitGoto, TypeOK, DepositTypeOK
  <2> QED
    BY <2>2, <2>1, <2>3, <2>4, <2>5, DocumentKeepsBooks
<1>4. CASE InitFail(d)
  <2>1. tx[d] # NoTx /\ tx[d] \in TxDoc
    BY <1>0, <1>4 DEF InitFail, InitAt, StageOfDeposit, TypeOK
  <2>2. /\ UNCHANGED <<wallets, balance, debt, pc, call, crashed, applied, order>>
        /\ init'[d] = "threw" /\ \A e \in Deposits \ {d} : init'[e] = init[e]
    BY <1>0, <1>4 DEF InitFail, InitAt, InitGoto, DepositTypeOK
  <2>3. /\ tx'[d] \in TxDoc /\ tx'[d].user = tx[d].user
        /\ tx'[d].type = tx[d].type /\ tx'[d].amount = tx[d].amount
        /\ \A f \in References \ {d} : tx'[f] = tx[f]
    BY <1>0, <1>4, <2>1, SavedDocument DEF InitFail
  <2> QED
    BY <1>0, <2>1, <2>2, <2>3, DocumentKeepsBooks DEF DocumentOfDeposit, WalletPart, DocumentHasWallet
<1> QED
  BY <1>1, <1>2, <1>3, <1>4 DEF InitStep

(* ... and so does the webhook: it credits the wallet that its document     *)
(* names with the amount that the document says.                            *)
LEMMA HookKeepsBooks ==
  ASSUME DepositBooksInv, DepositInv', NEW h \in Hooks, HookStep(h)
  PROVE  WalletPart' /\ DocumentOfDeposit' /\ BalanceReconciles'
<1> DEFINE d == hook[h].ref
<1>0. /\ WalletInv(Others) /\ WalletPart /\ DocumentOfDeposit /\ BalanceReconciles
      /\ TypeOK /\ TypeOK' /\ StageOfDeposit /\ HookBringsReport
  BY DEF DepositBooksInv, DepositInv, WalletInv
<1>1. /\ d \in Deposits /\ d \in References /\ d \in Requests /\ d \notin Others
      /\ tx[d] # NoTx /\ tx[d] \in TxDoc /\ init[d] \notin {"idle", "wallet", "insert"}
      /\ tx[d].type = "credit" /\ tx[d].amount = order[d] /\ tx[d].user \in wallets
      /\ order[d] \in Int /\ order[d] > 0
  <2>1. hook[h].at # "idle"
    BY DEF HookStep, HookFind, HookMark, HookCredit, HookFail, HookAt
  <2>2. d \in Deposits /\ reports[d] # {}
    BY <1>0, <2>1 DEF HookBringsReport
  <2>3. /\ init[d] \in {"save", "fail", "returned", "threw"}
        /\ tx[d] # NoTx /\ order[d] \in Amounts /\ order[d] > 0
    BY <1>0, <2>2 DEF StageOfDeposit
  <2> QED
    BY <1>0, <2>2, <2>3, DepositAssumption, DepositDocument, WalletAssumption
      DEF DocumentOfDeposit, WalletPart, DocumentHasWallet, Others
<1>2. order' = order /\ init' = init
  BY DEF HookStep, HookFind, HookMark, HookCredit, HookFail
<1> HIDE DEF d
<1>3. CASE HookFind(h)
  BY <1>2, <1>3, WaitingKeepsBooks DEF HookFind
<1>4. CASE HookMark(h) \/ HookFail(h)
  <2>1. UNCHANGED <<wallets, balance, debt, pc, call, crashed, applied, order>>
    BY <1>4 DEF HookMark, HookFail
  <2>2. PICK s \in {"success", "failed"} : tx' = [tx EXCEPT ![d].status = s]
    BY <1>1, <1>4 DEF HookMark, HookFail, d
  <2>3. /\ tx'[d] \in TxDoc /\ tx'[d].user = tx[d].user
        /\ tx'[d].type = tx[d].type /\ tx'[d].amount = tx[d].amount
        /\ \A f \in References \ {d} : tx'[f] = tx[f]
    BY <1>0, <1>1, <2>2, SavedDocument
  <2> QED
    BY <1>1, <1>2, <2>1, <2>3, DocumentKeepsBooks
<1>5. CASE HookCredit(h)
  <2>1. /\ UNCHANGED <<wallets, debt, tx, pc, call, crashed>>
        /\ balance' = [balance EXCEPT ![tx[d].user] = @ + order[d]]
        /\ applied' = [applied EXCEPT ![d] = @ + 1]
    BY <1>5 DEF HookCredit, d
  <2>2. WalletPart'
    <3>1. /\ \A f \in References : applied'[f] >= applied[f]
          /\ \A u \in Users : balance'[u] >= balance[u]
      BY <1>0, <1>1, <2>1 DEF TypeOK
    <3>2. NoOverdraft'
      BY <1>0, <2>1, <3>1, NothingLowered DEF WalletPart
    <3> QED
      BY <1>0, <1>1, <2>1, <3>2, DepositsLeaveWallets DEF WalletPart, DocumentHasWallet, TypeOK
  <2>3. DocumentOfDeposit'
    BY <1>0, <1>2, <2>1 DEF DocumentOfDeposit
  <2>4. BalanceReconciles'
    <3>1. /\ order[d] \in Int
          /\ order[d] = IF tx[d].type = "credit" THEN tx[d].amount ELSE -tx[d].amount
      BY <1>1
    <3> QED
      BY <1>0, <1>1, <2>1, <3>1, BookingReconciles
  <2> QED
    BY <2>2, <2>3, <2>4
<1> QED
  BY <1>3, <1>4, <1>5 DEF HookStep

(* The books of a service that takes deposits hold in every reachable       *)
(* state.                                                                   *)
THEOREM DepositBooksHold == DepositSpec => []DepositBooksInv
<1>1. DepositInit /\ DepositInv => DepositBooksInv
  <2> SUFFICES ASSUME DepositInit, DepositInv PROVE DepositBooksInv
    OBVIOUS
  <2>1. WalletPart /\ BalanceReconciles
    BY InitWallets, InitReconciles DEF DepositInit, Init
  <2>2. DocumentOfDeposit
    BY DepositAssumption DEF DepositInit, Init, InitWith, DocumentOfDeposit
  <2> QED
    BY <2>1, <2>2 DEF DepositBooksInv
<1>2. DepositBooksInv /\ DepositInv' /\ [DepositNext]_depositVars => DepositBooksInv'
  <2> SUFFICES ASSUME DepositBooksInv, DepositInv', [DepositNext]_depositVars
               PROVE  WalletPart' /\ DocumentOfDeposit' /\ BalanceReconciles'
    BY DEF DepositBooksInv
  <2>1. CASE WalletStep
    <3>1. PICK r \in Requests : (\E c \in Calls : Start(r, c)) \/ Handle(r) \/ Crash(r)
      BY <2>1, WalletAssumption DEF WalletStep
    <3>2. /\ WalletPart' /\ BalanceReconciles'
          /\ \A d \in Deposits : tx'[d] = tx[d] /\ (pc[d] = "returned" => pc'[d] = "returned")
      BY <3>1, ServiceKeepsBooks
    <3>3. init' = init /\ order' = order
      BY <2>1 DEF WalletStep
    <3> QED
      BY <3>2, <3>3 DEF DepositBooksInv, DocumentOfDeposit
  <2>2. CASE UNCHANGED <<walletVars, init, order>>
    BY <2>2, WaitingKeepsBooks
  <2> QED
    BY <2>1, <2>2, InitializeKeepsBooks, HookKeepsBooks
      DEF DepositNext, ChargeEnds, Deliver, Die, depositVars
<1> QED
  BY <1>1, <1>2, DepositInvariantHolds, PTL DEF DepositSpec

(* With deposits and debits under way at the same time, every balance is    *)
(* the sum of what its transactions say, counted as often as the webhook    *)
(* booked them: no increment is lost, and none lands in another wallet.     *)
THEOREM DepositsAreExplained == DepositSpec => []BalanceReconciles
BY DepositBooksHold, PTL DEF DepositBooksInv

(* ... and no deposit, refused, repeated or booked twice, takes a balance   *)
(* below zero.                                                              *)
THEOREM DepositsNeverOverdraw == DepositSpec => []NoOverdraft
BY DepositBooksHold, PTL DEF DepositBooksInv, WalletPart

-----------------------------------------------------------------------------
(* A step of a deposit settles no reference of the others, ... *)
LEMMA OthersStaySettled ==
  ASSUME UNCHANGED <<pc, call>>,
         \A f \in Others : tx'[f] = tx[f] /\ applied'[f] = applied[f]
  PROVE  Settled(Others)' = Settled(Others)
<1>1. \A f \in Others : Refused(f)' = Refused(f)
  BY DEF Refused
<1> QED
  BY <1>1 DEF Settled

(* ... and unless it credits a wallet, it is nothing to the ledger. *)
LEMMA DepositIsQuiet ==
  ASSUME UNCHANGED <<balance, debt, pc, call, applied>>,
         \A f \in Others : tx'[f] = tx[f]
  PROVE  UNCHANGED Books(Others)!ledgerVars
BY OthersStaySettled DEF Books!ledgerVars

(* Initialize moves no money, however it ends. *)
LEMMA InitializeBooks ==
  ASSUME DepositBooksInv, DepositInv', NEW d \in Deposits,
         (\E u \in Users, a \in Amounts : InitStart(d, u, a)) \/ InitStep(d)
  PROVE  Books(Others)!Next \/ UNCHANGED Books(Others)!ledgerVars
<1>0. /\ WalletInv(Others) /\ WalletPart /\ TypeOK /\ TypeOK'
      /\ d \in References /\ d \in Requests /\ d \notin Others /\ Others \subseteq References
  BY DepositAssumption DEF DepositBooksInv, DepositInv, WalletInv, Others
<1>1. ASSUME NEW u \in Users, NEW a \in Amounts, InitStart(d, u, a)
      PROVE  Books(Others)!Next \/ UNCHANGED Books(Others)!ledgerVars
  <2>1. \E c \in Calls : Start(d, c)
    BY <1>1 DEF InitStart, Calls, Openings
  <2> QED
    BY <1>0, <2>1, ServiceStepBooks
<1>2. CASE InitStep(d)
  <2>1. UNCHANGED <<balance, debt, pc, call, applied>>
    BY <1>2 DEF InitStep, InitResume, InitInsert, InitPost, InitSave, InitFail, walletVars
  <2>2. \A f \in Others : tx'[f] = tx[f]
    BY <1>0, <1>2 DEF InitStep, InitResume, InitInsert, InitPost, InitSave, InitFail, walletVars, TypeOK
  <2> QED
    BY <2>1, <2>2, DepositIsQuiet
<1> QED
  BY <1>1, <1>2

(* The webhook pays in one whole deposit, or nothing. *)
LEMMA HookBooks ==
  ASSUME DepositBooksInv, NEW h \in Hooks, HookStep(h)
  PROVE  \/ \E d \in Deposits : Deposited(d)
         \/ UNCHANGED Books(Others)!ledgerVars
<1> DEFINE d == hook[h].ref
<1>1. /\ hook[h].at # "idle" /\ d \in Deposits
      /\ HookCredit(h) => tx[d] # NoTx /\ tx[d].amount = order[d]
  <2>1. hook[h].at # "idle"
    BY DEF HookStep, HookFind, HookMark, HookCredit, HookFail, HookAt
  <2>2. d \in Deposits /\ reports[d] # {}
    BY <2>1 DEF DepositBooksInv, DepositInv, HookBringsReport
  <2>3. tx[d] # NoTx
    BY <2>2 DEF DepositBooksInv, DepositInv, StageOfDeposit
  <2> QED
    BY <2>1, <2>2, <2>3 DEF DepositBooksInv, DocumentOfDeposit
<1>2. TypeOK /\ d \in References /\ d \notin Others /\ Others \subseteq References
  BY <1>1, DepositAssumption DEF DepositBooksInv, DepositInv, WalletInv, Others
<1> HIDE DEF d
<1>3. CASE HookCredit(h)
  <2>1. \A f \in Others : tx'[f] = tx[f] /\ applied'[f] = applied[f]
    BY <1>2, <1>3 DEF HookCredit, TypeOK, d
  <2>2. Settled(Others)' = Settled(Others)
    BY <1>3, <2>1, OthersStaySettled DEF HookCredit
  <2>3. Deposited(d)
    BY <1>1, <1>3, <2>2 DEF HookCredit, Deposited, d
  <2> QED
    BY <1>1, <2>3
<1>4. CASE HookFind(h) \/ HookMark(h) \/ HookFail(h)
  <2>1. UNCHANGED <<balance, debt, pc, call, applied>>
    BY <1>4 DEF HookFind, HookMark, HookFail, walletVars
  <2>2. \A f \in Others : tx'[f] = tx[f]
    BY <1>2, <1>4 DEF HookFind, HookMark, HookFail, walletVars, TypeOK, d
  <2> QED
    BY <2>1, <2>2, DepositIsQuiet
<1> QED
  BY <1>3, <1>4 DEF HookStep

(* Next to deposits the service implements a ledger of all other            *)
(* references that is paid in from outside, one whole deposit at a time:    *)
(* handlePaystackEvent never splits, loses or overwrites a booking, not     *)
(* even when two deliveries credit the same deposit.                        *)
THEOREM DepositsJoinLedger == DepositSpec => LedgerWithDeposits
<1>1. DepositInit => Books(Others)!Init
  BY TxShape DEF DepositInit, Init, InitWith, Books!Init, Settled, Refused, Others
<1>2. DepositBooksInv /\ DepositInv' /\ [DepositNext]_depositVars
      => [Books(Others)!Next \/ \E d \in Deposits : Deposited(d)]_(Books(Others)!ledgerVars)
  <2> SUFFICES ASSUME DepositBooksInv, DepositInv', [DepositNext]_depositVars
               PROVE  \/ Books(Others)!Next
                      \/ \E d \in Deposits : Deposited(d)
                      \/ UNCHANGED Books(Others)!ledgerVars
    OBVIOUS
  <2>1. CASE WalletStep
    <3>1. PICK r \in Requests : (\E c \in Calls : Start(r, c)) \/ Handle(r) \/ Crash(r)
      BY <2>1, WalletAssumption DEF WalletStep
    <3>2. WalletInv(Others) /\ WalletPart /\ TypeOK' /\ Others \subseteq References
      BY DEF DepositBooksInv, DepositInv, WalletInv, Others
    <3> QED
      BY <3>1, <3>2, ServiceStepBooks
  <2>2. CASE UNCHANGED walletVars
    BY <2>2, IdlingIsQuiet
  <2> QED
    BY <2>1, <2>2, InitializeBooks, HookBooks DEF DepositNext, ChargeEnds, Deliver, Die, depositVars
<1> QED
  BY <1>1, <1>2, DepositInvariantHolds, DepositBooksHold, PTL DEF DepositSpec, LedgerWithDeposits
=============================================================================
