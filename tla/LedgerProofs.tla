---------------------------- MODULE LedgerProofs ----------------------------
(***************************************************************************)
(* The wallet service implements the ledger: the part of the invariant that *)
(* is about wallet documents, and the step simulation, for any users,       *)
(* references, amounts, requests and workload.                              *)
(***************************************************************************)
EXTENDS WalletBooks, WalletProofs

WInv == IInv /\ WalletPart

(* The invariant with its part about wallets holds in every reachable       *)
(* state: whichever of two requests inserts a wallet, no money is lost.     *)
THEOREM WalletInvariantHolds == Spec => []WInv
<1>1. Init => WalletPart
  <2> SUFFICES ASSUME Init PROVE WalletPart
    OBVIOUS
  <2> QED
    BY InitWallets DEF Init
<1>2. IInv /\ IInv' /\ WInv /\ [Next]_walletVars => WInv'
  <2> SUFFICES ASSUME IInv, IInv', WInv, [Next]_walletVars PROVE WalletPart'
    BY DEF WInv
  <2>1. CASE UNCHANGED walletVars
    BY <2>1, IdlingKeepsWallets DEF WInv
  <2>2. CASE Next
    <3>1. PICK r \in Requests : (\E c \in Calls : Start(r, c)) \/ Handle(r) \/ Crash(r)
      BY <2>2, WalletAssumption DEF Next
    <3>2. WalletInv(References)
      BY OwnReferences
    <3>3. WalletInv(References)'
      BY OwnReferences, PTL
    <3> QED
      BY <3>1, <3>2, <3>3, WalletsKeep DEF WInv
  <2> QED
    BY <2>1, <2>2
<1> QED
  <2>1. Init /\ IInv => WInv
    BY <1>1 DEF WInv
  <2> QED
    BY <1>2, <2>1, InvariantHolds, PTL DEF Spec

(* A wallet document exists before anything is booked on it: without one   *)
(* a user has no transaction, no money and no debt.                        *)
THEOREM MoneyIsInAWallet == Spec => []MoneyHasWallet
<1>1. WInv => MoneyHasWallet
  BY DEF WInv, WalletPart, MoneyHasWallet
<1> QED
  BY <1>1, WalletInvariantHolds, PTL

(* No balance goes below zero, however many requests debit one wallet at a *)
(* time and whatever the signs of the amounts, but for a negative credit.  *)
THEOREM NeverOverdrawn == Spec => []NoOverdraft
BY WalletInvariantHolds, PTL DEF WInv, WalletPart

-----------------------------------------------------------------------------
(* What a step does to the ledger's view of a reference. *)
LEMMA SettledOf == \A F :
  \A f \in F :
    Settled(F)[f] = IF applied[f] > 0 THEN "success"
                 ELSE IF applied[f] = 0 /\ Refused(f) THEN "failed" ELSE "open"
BY DEF Settled

(* Only the owner of a pending document can have been refused under it. *)
LEMMA OpenWhileApplying ==
  ASSUME NEW F, F \subseteq References, WalletInv(F), NEW r \in Requests, pc[r] = "apply"
  PROVE  /\ call[r].ref \in F
         /\ applied[call[r].ref] = 0
         /\ ~Refused(call[r].ref)
         /\ Settled(F)[call[r].ref] = "open"
<1>1. call[r].ref \in F /\ Settling(r)
  BY SettlerWithin DEF Settling
<1>2. tx[call[r].ref].status = "pending" /\ applied[call[r].ref] = 0
  BY <1>1 DEF WalletInv, SettlerOwnsPending
<1>3. ~Refused(call[r].ref)
  BY <1>1, <1>2 DEF Refused, WalletInv, OneSettler, Settling
<1> QED
  BY <1>1, <1>2, <1>3, SettledOf

(* A step that books nothing and refuses nothing stutters. *)
LEMMA QuietStep ==
  ASSUME NEW F, balance' = balance, debt' = debt, applied' = applied,
         \A f \in F : Refused(f)' = Refused(f)
  PROVE  UNCHANGED Books(F)!ledgerVars
BY DEF Books!ledgerVars, Settled

(* A step that moves the money of one reference settles it. *)
LEMMA AppliedSettles ==
  ASSUME NEW F, F \subseteq References, WalletInv(F), NEW f \in F,
         applied' = [applied EXCEPT ![f] = 1],
         \A g \in F : Refused(g)' = Refused(g)
  PROVE  Settled(F)' = [Settled(F) EXCEPT ![f] = "success"]
<1>1. applied'[f] = 1 /\ \A g \in F \ {f} : applied'[g] = applied[g]
  BY DEF WalletInv, TypeOK
<1>2. Settled(F)'[f] = "success"
  BY <1>1 DEF Settled
<1>3. \A g \in F \ {f} : Settled(F)'[g] = Settled(F)[g]
  BY <1>1 DEF Settled
<1> QED
  BY <1>2, <1>3 DEF Settled

(* A credit is the atomic booking of the ledger. *)
LEMMA CreditBooks ==
  ASSUME NEW F, F \subseteq References, WalletInv(F), WalletPart,
         NEW r \in Requests, ApplyCredit(r)
  PROVE  Books(F)!Next
<1> DEFINE f == call[r].ref
           u == call[r].user
           a == call[r].amount
<1>1. f \in F /\ u \in Users /\ a \in Amounts /\ a \in Int
  BY CallShape, SettlerWithin DEF ApplyCredit, Ready, WalletInv, LabelFitsCall, Settling
<1>2. Settled(F)[f] = "open" /\ applied[f] = 0
  BY OpenWhileApplying DEF ApplyCredit, Ready, WalletInv
<1>3. \A g \in F : Refused(g)' = Refused(g)
  BY DEF ApplyCredit, Ready, Goto, Refused, WalletInv, TypeOK
<1>4. applied' = [applied EXCEPT ![f] = 1]
  BY <1>1, <1>2 DEF ApplyCredit, WalletInv, TypeOK
<1>5. Settled(F)' = [Settled(F) EXCEPT ![f] = "success"]
  BY <1>1, <1>3, <1>4, AppliedSettles
<1>6. Books(F)!Credit(u, f, a)
  BY <1>2, <1>5 DEF ApplyCredit, Books!Credit, Books!Settle
<1> QED
  BY <1>1, <1>6 DEF Books!Next

(* A debit is booked, or refused, at the moment of its conditional update. *)
LEMMA DebitBooks ==
  ASSUME NEW F, F \subseteq References, WalletInv(F), WalletPart,
         NEW r \in Requests, ApplyDebit(r)
  PROVE  Books(F)!Next
<1> DEFINE f == call[r].ref
           u == call[r].user
           a == call[r].amount
<1>1. f \in F /\ u \in Users /\ a \in Amounts /\ a \in Int
  BY CallShape, SettlerWithin DEF ApplyDebit, Ready, WalletInv, LabelFitsCall, Settling
<1>2. Settled(F)[f] = "open" /\ applied[f] = 0 /\ ~Refused(f)
  BY OpenWhileApplying DEF ApplyDebit, Ready, WalletInv
<1>3. CASE balance[u] >= a
  <2>1. \A g \in F : Refused(g)' = Refused(g)
    BY <1>3 DEF ApplyDebit, Ready, Goto, Refused, WalletInv, TypeOK
  <2>2. applied' = [applied EXCEPT ![f] = 1]
    BY <1>1, <1>2, <1>3 DEF ApplyDebit, WalletInv, TypeOK
  <2>3. Settled(F)' = [Settled(F) EXCEPT ![f] = "success"]
    BY <1>1, <2>1, <2>2, AppliedSettles
  <2>4. Books(F)!Debit(u, f, a)
    BY <1>2, <1>3, <2>3 DEF ApplyDebit, Books!Debit, Books!Settle
  <2> QED
    BY <1>1, <2>4 DEF Books!Next
<1>4. CASE ~(balance[u] >= a)
  <2>1. \A g \in F : Refused(g)' = (Refused(g) \/ g = f)
    BY <1>1, <1>4 DEF ApplyDebit, Ready, Goto, Refused, WalletInv, TypeOK
  <2>2. applied' = applied
    BY <1>4 DEF ApplyDebit
  <2>3. Settled(F)' = [Settled(F) EXCEPT ![f] = "failed"]
    BY <1>1, <1>2, <2>1, <2>2 DEF Settled, WalletInv, TypeOK
  <2>4. balance[u] < a
    BY <1>1, <1>4 DEF WalletInv, TypeOK
  <2>5. Books(F)!Refuse(u, f, a)
    BY <1>2, <1>4, <2>3, <2>4 DEF ApplyDebit, Books!Refuse, Books!Settle
  <2> QED
    BY <1>1, <2>5 DEF Books!Next
<1> QED
  BY <1>3, <1>4

(* A recorded commission is owed at once. *)
LEMMA DebtBooks ==
  ASSUME NEW F, F \subseteq References, WalletInv(F), WalletPart,
         NEW r \in Requests, RecordDebt(r)
  PROVE  Books(F)!Next
<1>1. /\ call[r].user \in Users
      /\ call[r].amount \in Amounts /\ call[r].amount > 0
  BY CallShape DEF RecordDebt, Ready, WalletInv, LabelFitsCall, Debts
<1>2. \A g \in F : Refused(g)' = Refused(g)
  BY DEF RecordDebt, Ready, Goto, Refused, WalletInv, TypeOK
<1>3. Settled(F)' = Settled(F)
  BY <1>2 DEF Settled, RecordDebt
<1>4. Books(F)!Owe(call[r].user, call[r].amount)
  BY <1>1, <1>3 DEF RecordDebt, Books!Owe
<1> QED
  BY <1>1, <1>4 DEF Books!Next

(* Every other step of the service is invisible to the ledger. *)
LEMMA OtherStepsAreQuiet ==
  ASSUME NEW F, F \subseteq References, WalletInv(F), WalletPart, TypeOK',
         NEW r \in Requests,
         \/ \E c \in Calls : Start(r, c)
         \/ FindWallet(r) \/ RecheckWallet(r) \/ InsertWallet(r)
         \/ FindTx(r) \/ InsertTx(r) \/ MarkSuccess(r) \/ MarkFailed(r) \/ Crash(r)
  PROVE  UNCHANGED Books(F)!ledgerVars
<1>1. CASE (\E c \in Calls : Start(r, c)) \/ FindWallet(r) \/ RecheckWallet(r) \/ FindTx(r) \/ Crash(r)
  <2>1. \A f \in F : Refused(f)' = Refused(f)
    BY <1>1, AfterWalletFits, CallShape DEF Start, FindWallet, RecheckWallet, FindTx, Crash, Ready, Goto, store, Refused,
      WalletInv, TypeOK, LabelFitsCall
  <2> QED
    BY <1>1, <2>1, QuietStep DEF Start, FindWallet, RecheckWallet, FindTx, Crash, store
<1>2. CASE InsertWallet(r)
  <2>1. \A f \in F : Refused(f)' = Refused(f)
    BY <1>2, AfterWalletFits DEF InsertWallet, Ready, Goto, store, Refused, WalletInv, TypeOK, LabelFitsCall
  <2>2. balance' = balance /\ debt' = debt
    BY <1>2, CallerKnown DEF InsertWallet, Ready, store, WalletInv, TypeOK, WalletPart, NothingWithoutWallet
  <2> QED
    BY <1>2, <2>1, <2>2, QuietStep DEF InsertWallet
<1>3. CASE InsertTx(r)
  <2>1. call[r].ref \in F
    BY <1>3, CallShape DEF InsertTx, Ready, WalletInv, LabelFitsCall, CallsWithin
  <2>2. \A f \in F : Refused(f)' = Refused(f)
    BY <1>3, <2>1, TxShape DEF InsertTx, Ready, Goto, Refused, WalletInv, TypeOK
  <2> QED
    BY <1>3, <2>2, QuietStep DEF InsertTx
<1>4. CASE MarkSuccess(r) \/ MarkFailed(r)
  <2> DEFINE f == call[r].ref
  <2>1. /\ f \in F
        /\ tx[f].status = "pending"
        /\ \A s \in Requests \ {r} : pc[s] = "markFailed" => call[s].ref # f
    BY <1>4, SettlerWithin DEF MarkSuccess, MarkFailed, Ready, WalletInv, SettlerOwnsPending,
      OneSettler, Settling
  <2>2. \A g \in F \ {f} : tx'[g] = tx[g]
    BY <1>4, <2>1 DEF MarkSuccess, MarkFailed, WalletInv, TypeOK
  <2>3. /\ MarkSuccess(r) => tx'[f].status = "success"
        /\ MarkFailed(r) => tx'[f].status = "failed"
    BY <2>1, SavedStatus DEF MarkSuccess, MarkFailed, WalletInv
  <2>4. \A g \in F : Refused(g)' = Refused(g)
    BY <1>4, <2>1, <2>2, <2>3 DEF MarkSuccess, MarkFailed, Ready, Goto, Refused, WalletInv, TypeOK
  <2> QED
    BY <1>4, <2>4, QuietStep DEF MarkSuccess, MarkFailed
<1> QED
  BY <1>1, <1>2, <1>3, <1>4

LEMMA IdlingIsQuiet ==
  ASSUME NEW F, UNCHANGED walletVars
  PROVE  UNCHANGED Books(F)!ledgerVars
BY DEF walletVars, Books!ledgerVars, Settled, Refused

(* A step of the service, whatever call it serves, is at most one booking. *)
LEMMA ServiceStepBooks ==
  ASSUME NEW F, F \subseteq References, WalletInv(F), WalletPart, TypeOK',
         NEW r \in Requests, (\E c \in Calls : Start(r, c)) \/ Handle(r) \/ Crash(r)
  PROVE  Books(F)!Next \/ UNCHANGED Books(F)!ledgerVars
BY CreditBooks, DebitBooks, DebtBooks, OtherStepsAreQuiet DEF Handle

(* The service, with its requests interleaved at every database operation   *)
(* and stopping anywhere, is a ledger that books each reference once, in a  *)
(* single step, and a debit exactly when the funds cover it.                *)
THEOREM ServiceIsLedger == Spec => RefinesLedger
<1>1. Init => Books(References)!Init
  BY TxShape DEF Init, InitWith, Books!Init, Settled, Refused
<1>2. WInv /\ WInv' /\ [Next]_walletVars => [Books(References)!Next]_(Books(References)!ledgerVars)
  <2> SUFFICES ASSUME WInv, WInv', [Next]_walletVars
               PROVE  Books(References)!Next \/ UNCHANGED Books(References)!ledgerVars
    OBVIOUS
  <2>0. WalletInv(References) /\ WalletPart /\ TypeOK'
    BY OwnReferences DEF WInv, IInv
  <2>1. CASE UNCHANGED walletVars
    BY <2>1, IdlingIsQuiet
  <2>2. ASSUME NEW r \in Requests, (\E c \in Workload : Start(r, c)) \/ Handle(r) \/ Crash(r)
        PROVE  Books(References)!Next \/ UNCHANGED Books(References)!ledgerVars
    BY <2>0, <2>2, WalletAssumption, ServiceStepBooks
  <2> QED
    BY <2>1, <2>2 DEF Next
<1> QED
  BY <1>1, <1>2, WalletInvariantHolds, PTL DEF Spec, RefinesLedger

-----------------------------------------------------------------------------
(* A transaction keeps its effect as long as it moves no money and stays    *)
(* what it is; one that has moved none has none.                            *)
LEMMA SameEffect ==
  ASSUME TypeOK, TypeOK', NEW f \in References, NEW u \in Users, applied'[f] = applied[f],
         \/ tx'[f] = tx[f]
         \/ applied[f] = 0
         \/ /\ tx[f] # NoTx /\ tx'[f] # NoTx /\ tx'[f].user = tx[f].user
            /\ tx'[f].type = tx[f].type /\ tx'[f].amount = tx[f].amount
  PROVE  Effect(f, u)' = Effect(f, u)
<1>1. CASE applied[f] = 0
  <2>1. /\ tx[f] # NoTx => tx[f].amount \in Int
        /\ tx'[f] # NoTx => tx'[f].amount \in Int
    BY WalletAssumption DEF TypeOK, TxDoc
  <2> QED
    BY <1>1, <2>1 DEF Effect
<1>2. CASE applied[f] # 0
  BY <1>2 DEF Effect
<1> QED
  BY <1>1, <1>2

EffectsAreMoney == \A f \in References, u \in Users : Effect(f, u) \in Int

LEMMA EffectType == TypeOK => EffectsAreMoney
<1> SUFFICES ASSUME TypeOK, NEW f \in References, NEW u \in Users
             PROVE  Effect(f, u) \in Int
  BY DEF EffectsAreMoney
<1>1. applied[f] \in Nat /\ (tx[f] # NoTx => tx[f].amount \in Int)
  BY WalletAssumption DEF TypeOK, TxDoc
<1> QED
  BY <1>1 DEF Effect

(* A step that moves no money keeps the books. *)
LEMMA QuietReconciles ==
  ASSUME BalanceReconciles, balance' = balance,
         \A f \in References, u \in Users : Effect(f, u)' = Effect(f, u)
  PROVE  BalanceReconciles'
<1> SUFFICES ASSUME NEW u \in Users
             PROVE  balance'[u] = SumFunction([f \in References |-> Effect(f, u)'])
  BY DEF BalanceReconciles
<1>1. [f \in References |-> Effect(f, u)'] = [f \in References |-> Effect(f, u)]
  OBVIOUS
<1> QED
  BY <1>1 DEF BalanceReconciles

(* So does one that moves the amount of a document in the wallet it names. *)
LEMMA BookingReconciles ==
  ASSUME TypeOK, TypeOK', BalanceReconciles,
         NEW f \in References, NEW a \in Int, tx[f] # NoTx,
         a = IF tx[f].type = "credit" THEN tx[f].amount ELSE -tx[f].amount,
         tx' = tx, applied' = [applied EXCEPT ![f] = @ + 1],
         balance' = [balance EXCEPT ![tx[f].user] = @ + a]
  PROVE  BalanceReconciles'
<1>0. /\ tx[f].user \in Users
      /\ applied[f] \in Int /\ applied'[f] = applied[f] + 1
      /\ \A g \in References \ {f} : applied'[g] = applied[g]
  BY TxShape DEF TypeOK, TxDoc
<1> SUFFICES ASSUME NEW u \in Users
             PROVE  balance'[u] = SumFunction([g \in References |-> Effect(g, u)'])
  BY DEF BalanceReconciles
<1> DEFINE w == [g \in References |-> Effect(g, u)]
           v == [g \in References |-> Effect(g, u)']
<1>1. w \in [References -> Int] /\ v \in [References -> Int]
  <2>1. EffectsAreMoney /\ EffectsAreMoney'
    BY EffectType, PTL
  <2> QED
    BY <2>1 DEF EffectsAreMoney
<1>2. \A g \in References \ {f} : v[g] = w[g]
  BY <1>0, SameEffect
<1>3. v[f] = w[f] + (IF tx[f].user = u THEN a ELSE 0)
  <2>1. CASE tx[f].user # u
    BY <2>1 DEF Effect
  <2>2. CASE tx[f].user = u
    <3>1. w[f] = applied[f] * a /\ v[f] = (applied[f] + 1) * a
      BY <1>0, <2>2 DEF Effect
    <3> QED
      BY <1>0, <2>2, <3>1
  <2> QED
    BY <1>1, <2>1, <2>2
<1>4. balance'[u] = balance[u] + (IF tx[f].user = u THEN a ELSE 0) /\ balance[u] \in Int
  BY <1>0 DEF TypeOK
<1>5. balance[u] = SumFunction(w)
  BY DEF BalanceReconciles
<1> HIDE DEF w, v
<1>6. SumFunction(v) = SumFunction(w) + v[f] - w[f]
  BY <1>1, <1>2, SumChange, FiniteReferences
<1>7. SumFunction(w) \in Int /\ v[f] \in Int /\ w[f] \in Int
  BY <1>1, SumType, FiniteReferences
<1>8. balance'[u] = SumFunction(v)
  BY <1>3, <1>4, <1>5, <1>6, <1>7
<1> QED
  BY <1>8 DEF v

(* The steps of the service are of either kind. *)
LEMMA ServiceReconciles ==
  ASSUME NEW F, F \subseteq References, WalletInv(F), WalletPart, TypeOK', BalanceReconciles,
         NEW r \in Requests, (\E c \in Calls : Start(r, c)) \/ Handle(r) \/ Crash(r)
  PROVE  BalanceReconciles'
<1>0. TypeOK /\ LabelFitsCall
  BY DEF WalletInv
<1>1. CASE ApplyCredit(r) \/ (ApplyDebit(r) /\ balance[call[r].user] >= call[r].amount)
  <2> DEFINE f == call[r].ref
             a == IF call[r].op = "credit" THEN call[r].amount ELSE -call[r].amount
  <2>1. /\ f \in References /\ call[r].user \in Users /\ call[r].amount \in Int /\ a \in Int
        /\ tx[f] = [status |-> "pending", user |-> call[r].user,
                    type |-> call[r].op, amount |-> call[r].amount]
    BY <1>0, <1>1, CallShape DEF ApplyCredit, ApplyDebit, Ready, LabelFitsCall, Settling, WalletPart, SettlerWrote
  <2>2. /\ tx[f] # NoTx /\ tx[f].user = call[r].user
        /\ a = IF tx[f].type = "credit" THEN tx[f].amount ELSE -tx[f].amount
    BY <2>1 DEF NoTx
  <2>3. tx' = tx /\ applied' = [applied EXCEPT ![f] = @ + 1]
    BY <1>1 DEF ApplyCredit, ApplyDebit
  <2>4. balance' = [balance EXCEPT ![tx[f].user] = @ + a]
    <3>1. balance[call[r].user] \in Int
      BY <1>0, <2>1 DEF TypeOK
    <3>2. CASE ApplyCredit(r)
      BY <2>1, <3>2 DEF ApplyCredit
    <3>3. CASE ApplyDebit(r) /\ balance[call[r].user] >= call[r].amount
      <4>1. balance' = [balance EXCEPT ![call[r].user] = @ - call[r].amount] /\ call[r].op = "debit"
        BY <3>3 DEF ApplyDebit
      <4>2. balance[call[r].user] - call[r].amount = balance[call[r].user] + a
        BY <2>1, <3>1, <4>1
      <4> QED
        BY <2>2, <4>1, <4>2
    <3> QED
      BY <1>1, <3>2, <3>3
  <2> HIDE DEF a, f
  <2> QED
    BY <1>0, <2>1, <2>2, <2>3, <2>4, BookingReconciles
<1>2. CASE ~(ApplyCredit(r) \/ (ApplyDebit(r) /\ balance[call[r].user] >= call[r].amount))
  <2>1. balance' = balance /\ applied' = applied
    <3>1. CASE InsertWallet(r)
      BY <1>0, <3>1, CallerKnown DEF InsertWallet, Ready, store, TypeOK, WalletPart, NothingWithoutWallet
    <3>2. CASE ApplyDebit(r)
      BY <1>2, <3>2 DEF ApplyDebit
    <3> QED
      BY <1>2, <3>1, <3>2 DEF Handle, Start, FindWallet, RecheckWallet, FindTx, InsertTx,
        MarkSuccess, MarkFailed, RecordDebt, Crash, store
  <2>2. \A f \in References :
          \/ tx'[f] = tx[f]
          \/ applied[f] = 0
          \/ /\ tx[f] # NoTx /\ tx'[f] # NoTx /\ tx'[f].user = tx[f].user
             /\ tx'[f].type = tx[f].type /\ tx'[f].amount = tx[f].amount
    <3>1. CASE InsertTx(r)
      <4>1. call[r].ref \in F /\ call[r].ref \in References
        BY <1>0, <3>1, CallShape DEF InsertTx, Ready, LabelFitsCall, WalletInv, CallsWithin
      <4>2. tx[call[r].ref] = NoTx => applied[call[r].ref] = 0
        BY <4>1, TxShape DEF WalletInv, TrueWithin
      <4> QED
        BY <1>0, <3>1, <4>1, <4>2 DEF InsertTx, TypeOK
    <3>2. CASE MarkSuccess(r) \/ MarkFailed(r)
      <4>1. /\ call[r].ref \in References
            /\ tx[call[r].ref].status = "pending"
        BY <3>2, SettlerWithin DEF MarkSuccess, MarkFailed, Ready, WalletInv, SettlerOwnsPending, Settling
      <4>2. tx[call[r].ref] \in TxDoc
        BY <1>0, <4>1, TxShape DEF TypeOK
      <4>3. PICK s \in {"success", "failed"} : tx' = [tx EXCEPT ![call[r].ref].status = s]
        BY <3>2 DEF MarkSuccess, MarkFailed
      <4>4. /\ tx'[call[r].ref] = [tx[call[r].ref] EXCEPT !.status = s]
            /\ \A f \in References \ {call[r].ref} : tx'[f] = tx[f]
        BY <1>0, <4>1, <4>3 DEF TypeOK
      <4>5. [tx[call[r].ref] EXCEPT !.status = s] \in TxDoc
        BY <4>2 DEF TxDoc
      <4>6. tx'[call[r].ref] # NoTx /\ tx[call[r].ref] # NoTx
        BY <4>2, <4>4, <4>5, TxShape
      <4> QED
        BY <4>2, <4>4, <4>6 DEF TxDoc
    <3>3. CASE tx' = tx
      BY <3>3
    <3> QED
      BY <3>1, <3>2, <3>3 DEF Handle, Start, FindWallet, RecheckWallet, InsertWallet, FindTx,
        ApplyCredit, ApplyDebit, RecordDebt, Crash, store
  <2>3. \A f \in References, u \in Users : Effect(f, u)' = Effect(f, u)
    BY <1>0, <2>1, <2>2, SameEffect
  <2> QED
    BY <2>1, <2>3, QuietReconciles
<1> QED
  BY <1>1, <1>2

(* A new service has moved nothing. *)
LEMMA InitReconciles ==
  ASSUME Init
  PROVE  BalanceReconciles
<1> SUFFICES ASSUME NEW u \in Users
             PROVE  balance[u] = SumFunction([f \in References |-> Effect(f, u)])
  BY DEF BalanceReconciles
<1>1. balance[u] = 0 /\ [f \in References |-> Effect(f, u)] = [f \in References |-> 0]
  BY DEF Init, InitWith, Effect
<1> QED
  BY <1>1, SumOfZeros, FiniteReferences

(* Every balance is the sum of the transactions that say they moved it, at  *)
(* every moment: nothing createTransaction does is lost or done unrecorded. *)
THEOREM BalancesAreExplained == Spec => []BalanceReconciles
<1>1. Init => BalanceReconciles
  BY InitReconciles
<1>2. WInv /\ WInv' /\ BalanceReconciles /\ [Next]_walletVars => BalanceReconciles'
  <2> SUFFICES ASSUME WInv, WInv', BalanceReconciles, [Next]_walletVars PROVE BalanceReconciles'
    OBVIOUS
  <2>1. WalletInv(References) /\ WalletPart /\ TypeOK'
    BY OwnReferences DEF WInv, IInv
  <2>2. CASE UNCHANGED walletVars
    <3>1. balance' = balance /\ \A f \in References, u \in Users : Effect(f, u)' = Effect(f, u)
      BY <2>2 DEF walletVars, Effect
    <3> QED
      BY <3>1, QuietReconciles
  <2>3. CASE Next
    <3>1. PICK r \in Requests : (\E c \in Calls : Start(r, c)) \/ Handle(r) \/ Crash(r)
      BY <2>3, WalletAssumption DEF Next
    <3> QED
      BY <2>1, <3>1, ServiceReconciles
  <2> QED
    BY <2>2, <2>3
<1> QED
  BY <1>1, <1>2, WalletInvariantHolds, PTL DEF Spec
=============================================================================
