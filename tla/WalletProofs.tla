---------------------------- MODULE WalletProofs ----------------------------
(***************************************************************************)
(* Proofs about the wallet service, for any users, references, amounts,    *)
(* requests and workload.                                                  *)
(***************************************************************************)
EXTENDS Wallet, Functions, FiniteSetTheorems, TLAPS

(***************************************************************************)
(* Sums.  SumFunction(w) adds up w[x] over the domain of w, through a       *)
(* recursion that takes one element after another from the domain.  Facts   *)
(* about it are proved without an induction theorem: among the subsets for  *)
(* which a fact fails there would be a minimal one, and taking one element  *)
(* from it would leave a smaller one.                                       *)
(***************************************************************************)
Pick(s) == CHOOSE x \in s : TRUE

(* g holds the sums of w over every subset of s. *)
Sums(g, w, s) == g = [t \in SUBSET s |-> IF t = {} THEN 0 ELSE w[Pick(t)] + g[t \ {Pick(t)}]]

LEMMA MinimalSubset ==
  ASSUME NEW S, IsFiniteSet(S), NEW T \in SUBSET (SUBSET S), T # {}
  PROVE  \E t \in T : \A u \in T : u \subseteq t => u = t
<1>1. IsWellFoundedOn(StrictSubsetOrdering(S), FiniteSubsetsOf(S))
  BY FS_StrictSubsetOrderingWellFounded
<1>2. T \subseteq FiniteSubsetsOf(S)
  BY FS_FiniteSubsetsOfFinite
<1>3. PICK t \in T : \A u \in T : ~ (<<u, t>> \in StrictSubsetOrdering(S))
  BY <1>1, <1>2, WFMin
<1> QED
  BY <1>3 DEF StrictSubsetOrdering

LEMMA PickIn == \A s : s # {} => Pick(s) \in s
BY DEF Pick

LEMMA SumsAgree ==
  ASSUME NEW S, IsFiniteSet(S), NEW w,
         NEW s, s \subseteq S, NEW t, t \subseteq S, NEW g, NEW h, Sums(g, w, s), Sums(h, w, t),
         NEW u, u \subseteq s, u \subseteq t
  PROVE  g[u] = h[u]
<1> DEFINE Bad == {v \in SUBSET (s \cap t) : g[v] # h[v]}
<1> SUFFICES ASSUME Bad # {} PROVE FALSE
  OBVIOUS
<1>1. PICK v \in Bad : \A x \in Bad : x \subseteq v => x = v
  <2>1. Bad \in SUBSET (SUBSET S)
    OBVIOUS
  <2> HIDE DEF Bad
  <2> QED BY <2>1, MinimalSubset
<1>2. v # {}
  BY DEF Sums
<1>3. v \ {Pick(v)} \notin Bad
  BY <1>1, <1>2, PickIn
<1> QED
  BY <1>2, <1>3 DEF Sums

LEMMA SumsStep ==
  ASSUME NEW S, NEW w, NEW g, Sums(g, w, S), NEW s \in SUBSET S
  PROVE  IF s = {} THEN g[s] = 0
         ELSE /\ Pick(s) \in s /\ Pick(s) \in S
              /\ s \ {Pick(s)} \in SUBSET S /\ s \ {Pick(s)} # s
              /\ g[s] = w[Pick(s)] + g[s \ {Pick(s)}]
BY PickIn DEF Sums

LEMMA SumsExist ==
  ASSUME NEW S, IsFiniteSet(S), NEW w
  PROVE  \A s \in SUBSET S : \E g : Sums(g, w, s)
<1> DEFINE Bad == {s \in SUBSET S : ~ \E g : Sums(g, w, s)}
<1> SUFFICES ASSUME Bad # {} PROVE FALSE
  OBVIOUS
<1>1. PICK s \in Bad : \A t \in Bad : t \subseteq s => t = s
  <2>1. Bad \in SUBSET (SUBSET S)
    OBVIOUS
  <2> HIDE DEF Bad
  <2> QED BY <2>1, MinimalSubset
<1> DEFINE G == [t \in SUBSET s |-> CHOOSE g : Sums(g, w, t)]
           Less(t) == t \ {Pick(t)}
           h == [t \in SUBSET s |-> IF t = {} THEN 0 ELSE w[Pick(t)] + G[Less(t)][Less(t)]]
<1>2. \A t \in SUBSET s : t # s => Sums(G[t], w, t)
  <2> SUFFICES ASSUME NEW t \in SUBSET s, t # s PROVE Sums(G[t], w, t)
    OBVIOUS
  <2>1. \E g : Sums(g, w, t)
    BY <1>1
  <2> QED BY <2>1
<1>4. \A t \in SUBSET s : t # {} => Less(t) \in SUBSET s /\ Less(t) # s /\ Less(t) \in SUBSET t
  BY PickIn
<1> HIDE DEF G
<1>6. ASSUME NEW t \in SUBSET s, t # {}
      PROVE  h[Less(t)] = G[Less(t)][Less(t)]
  <2>1. PICK v : v = Less(t)
    OBVIOUS
  <2>2. v \in SUBSET s /\ Sums(G[v], w, v)
    BY <1>2, <1>4, <1>6, <2>1
  <2>3. CASE v = {}
    BY <2>2, <2>3, <2>1 DEF Sums
  <2>4. CASE v # {}
    <3>1. PICK r : r = Less(v)
      OBVIOUS
    <3>2. Sums(G[r], w, r) /\ r \subseteq v /\ v \subseteq S /\ r \subseteq S
      BY <2>2, <2>4, <3>1, <1>1, <1>2, <1>4
    <3>5. Sums(G[v], w, v)
      BY <2>2
    <3>6. G[v][r] = G[r][r]
      <4>1. PICK p, q : p = G[v] /\ q = G[r]
        OBVIOUS
      <4>2. Sums(p, w, v) /\ Sums(q, w, r) /\ r \subseteq r
        BY <3>2, <3>5, <4>1
      <4>3. p[r] = q[r]
        BY <3>2, <4>2, SumsAgree
      <4> QED BY <4>1, <4>3
    <3>3. G[v][v] = w[Pick(v)] + G[v][Less(v)]
      BY <2>2, <2>4 DEF Sums
    <3>4. h[v] = w[Pick(v)] + G[Less(v)][Less(v)]
      BY <2>2, <2>4
    <3> QED BY <2>1, <3>1, <3>6, <3>3, <3>4
  <2> QED BY <2>3, <2>4
<1>7. Sums(h, w, s)
  <2> SUFFICES ASSUME NEW t \in SUBSET s
               PROVE  h[t] = IF t = {} THEN 0 ELSE w[Pick(t)] + h[Less(t)]
    BY DEF Sums
  <2> QED BY <1>6
<1> QED
  BY <1>1, <1>7

(* The community modules' sum is such a sum. *)
LEMMA SumIs ==
  ASSUME NEW S, IsFiniteSet(S), NEW w, DOMAIN w = S
  PROVE  \E g : Sums(g, w, S) /\ SumFunction(w) = g[S]
<1> DEFINE it == CHOOSE g : Sums(g, w, S)
<1>1. Sums(it, w, S)
  BY SumsExist
<1>4. SumFunction(w) = it[S]
  BY DEF SumFunction, SumFunctionOnSet, FoldFunctionOnSet, MapThenFoldSet, Pick, Sums
<1> QED
  BY <1>1, <1>4

(* What is known of it: it is an integer, ... *)
LEMMA SumsType ==
  ASSUME NEW S, IsFiniteSet(S), NEW w \in [S -> Int], NEW g, Sums(g, w, S)
  PROVE  \A s \in SUBSET S : g[s] \in Int
<1> DEFINE Bad == {s \in SUBSET S : g[s] \notin Int}
<1> SUFFICES ASSUME Bad # {} PROVE FALSE
  OBVIOUS
<1>2. PICK s \in Bad : \A t \in Bad : t \subseteq s => t = s
  <2>1. Bad \in SUBSET (SUBSET S)
    OBVIOUS
  <2> HIDE DEF Bad
  <2> QED BY <2>1, MinimalSubset
<1>3. s \in SUBSET S
  OBVIOUS
<1>4. IF s = {} THEN g[s] = 0
      ELSE /\ Pick(s) \in S
           /\ s \ {Pick(s)} \in SUBSET S /\ s \ {Pick(s)} # s
           /\ g[s] = w[Pick(s)] + g[s \ {Pick(s)}]
  <2> HIDE DEF Bad
  <2> QED BY <1>3, PickIn DEF Sums
<1> QED
  BY <1>2, <1>4

LEMMA SumType ==
  ASSUME NEW S, IsFiniteSet(S), NEW w \in [S -> Int]
  PROVE  SumFunction(w) \in Int
<1>1. PICK g : Sums(g, w, S) /\ SumFunction(w) = g[S]
  BY SumIs
<1> QED
  BY <1>1, SumsType

(* ... nothing sums to nothing, ... *)
LEMMA SumOfZeros ==
  ASSUME NEW S, IsFiniteSet(S)
  PROVE  SumFunction([x \in S |-> 0]) = 0
<1> DEFINE w == [x \in S |-> 0]
<1>1. PICK g : Sums(g, w, S) /\ SumFunction(w) = g[S]
  BY SumIs
<1> DEFINE Bad == {s \in SUBSET S : g[s] # 0}
<1> SUFFICES ASSUME Bad # {} PROVE FALSE
  BY <1>1
<1>2. PICK s \in Bad : \A t \in Bad : t \subseteq s => t = s
  <2>1. Bad \in SUBSET (SUBSET S)
    OBVIOUS
  <2> HIDE DEF Bad
  <2> QED BY <2>1, MinimalSubset
<1>3. IF s = {} THEN g[s] = 0
      ELSE /\ Pick(s) \in S
           /\ s \ {Pick(s)} \in SUBSET S /\ s \ {Pick(s)} # s
           /\ g[s] = w[Pick(s)] + g[s \ {Pick(s)}]
  <2> HIDE DEF w
  <2> QED BY <1>1, SumsStep
<1> QED
  BY <1>2, <1>3

(* ... and a change of one term changes it as much. *)
LEMMA SumChange ==
  ASSUME NEW S, IsFiniteSet(S), NEW w \in [S -> Int], NEW v \in [S -> Int], NEW x \in S,
         \A y \in S \ {x} : v[y] = w[y]
  PROVE  SumFunction(v) = SumFunction(w) + v[x] - w[x]
<1>1. PICK g : Sums(g, w, S) /\ SumFunction(w) = g[S]
  BY SumIs
<1>2. PICK h : Sums(h, v, S) /\ SumFunction(v) = h[S]
  BY SumIs
<1>3. \A s \in SUBSET S : g[s] \in Int /\ h[s] \in Int
  BY <1>1, <1>2, SumsType
<1> DEFINE Bad == {s \in SUBSET S : h[s] # g[s] + (IF x \in s THEN v[x] - w[x] ELSE 0)}
<1> SUFFICES ASSUME Bad # {} PROVE FALSE
  BY <1>1, <1>2
<1>4. PICK s \in Bad : \A t \in Bad : t \subseteq s => t = s
  <2>1. Bad \in SUBSET (SUBSET S)
    OBVIOUS
  <2> HIDE DEF Bad
  <2> QED BY <2>1, MinimalSubset
<1>5. s # {}
  BY <1>1, <1>2 DEF Sums
<1>6. s \ {Pick(s)} \notin Bad /\ Pick(s) \in s /\ Pick(s) \in S
  BY <1>4, <1>5, PickIn
<1>7. g[s] = w[Pick(s)] + g[s \ {Pick(s)}] /\ h[s] = v[Pick(s)] + h[s \ {Pick(s)}]
  BY <1>1, <1>2, <1>5 DEF Sums
<1> QED
  BY <1>3, <1>6, <1>7

-----------------------------------------------------------------------------
(***************************************************************************)
(* The inductive invariant.  The labels from findTx to markFailed are only *)
(* reached by payments, and recordDebt only by debts; a request between    *)
(* the insertion of its document and the final save owns the document      *)
(* exclusively, and its label tells whether the money has moved.           *)
(***************************************************************************)
LabelFitsCall == \A r \in Requests :
  /\ pc[r] # "idle" => call[r] \in Calls
  /\ pc[r] \in {"findTx", "insertTx"} \/ Settling(r) => call[r] \in Payments
  /\ pc[r] = "recordDebt" => call[r] \in Debts

SettlerOwnsPending == \A r \in Requests : Settling(r) =>
  /\ tx[call[r].ref].status = "pending"
  /\ applied[call[r].ref] = IF pc[r] = "markSuccess" THEN 1 ELSE 0

OneSettler == \A r, s \in Requests :
  Settling(r) /\ Settling(s) /\ call[r].ref = call[s].ref => r = s

HeldWithin(F) == \A f \in F : tx[f].status = "pending" =>
  \E r \in Requests : Settling(r) /\ call[r].ref = f

PendingIsHeld == HeldWithin(References)

IInv ==
  /\ TypeOK
  /\ LabelFitsCall
  /\ SettlerOwnsPending
  /\ OneSettler
  /\ PendingIsHeld
  /\ StatusTellsMoney

(***************************************************************************)
(* The same for a service whose calls use the references in F only: others *)
(* write the documents under the rest (deposits do).                       *)
(***************************************************************************)
CallsWithin(F) == \A r \in Requests : pc[r] # "idle" /\ call[r] \in Payments => call[r].ref \in F

TrueWithin(F) == \A f \in F :
  /\ tx[f].status = "success" => applied[f] = 1
  /\ tx[f].status \in {"absent", "failed"} => applied[f] = 0

WalletInv(F) ==
  /\ TypeOK
  /\ LabelFitsCall
  /\ CallsWithin(F)
  /\ SettlerOwnsPending
  /\ OneSettler
  /\ HeldWithin(F)
  /\ TrueWithin(F)

(***************************************************************************)
(* What is known of wallet documents.  A request that is past the lookup of *)
(* its wallet has one, so that the insertion of a wallet, which empties it, *)
(* only ever meets an empty one; and the document that a settler works      *)
(* under is the one that its own call asked for.                            *)
(***************************************************************************)
PayerHasWallet == \A r \in Requests :
  pc[r] \in {"findTx", "insertTx", "recordDebt", "returned"} \/ Settling(r)
    => call[r].user \in wallets

SettlerWrote == \A r \in Requests : Settling(r) =>
  tx[call[r].ref] = [status |-> "pending", user |-> call[r].user,
                     type |-> call[r].op, amount |-> call[r].amount]

WalletPart ==
  /\ PayerHasWallet
  /\ NothingWithoutWallet
  /\ DocumentHasWallet
  /\ SettlerWrote
  /\ NoOverdraft

-----------------------------------------------------------------------------
(* The shape of each kind of call. *)
LEMMA CallShape ==
  /\ \A c \in Calls : /\ c.op \in {"credit", "debit", "debt", "get", "create"}
                      /\ c.user \in Users
                      /\ c.op \in {"credit", "debit"} => c \in Payments
                      /\ c.op = "debt" => c \in Debts
  /\ \A c \in Payments : /\ c \in Calls
                         /\ c.op \in {"credit", "debit"}
                         /\ c.user \in Users
                         /\ c.ref \in References
                         /\ c.amount \in Amounts
                         /\ c.amount \in Int
  /\ \A c \in Debts : /\ c \in Calls
                      /\ c.op = "debt"
                      /\ c.user \in Users
                      /\ c.amount \in Amounts /\ c.amount > 0 /\ c.amount \in Nat
<1>1. \A c \in Payments : c.amount \in Amounts /\ c.amount \in Int
  BY WalletAssumption DEF Payments
<1>2. \A c \in Debts : c.amount \in Amounts /\ c.amount > 0 /\ c.amount \in Nat
  <2> SUFFICES ASSUME NEW c \in Debts PROVE c.amount \in Amounts /\ c.amount > 0 /\ c.amount \in Nat
    OBVIOUS
  <2>1. c.amount \in Amounts /\ c.amount > 0
    BY DEF Debts
  <2>2. c.amount \in Int
    BY <2>1, WalletAssumption
  <2> QED
    BY <2>1, <2>2
<1> QED
  BY <1>1, <1>2 DEF Calls, Payments, Debts, Openings

(* A stored document is told from an absent one by its status. *)
LEMMA TxShape ==
  /\ NoTx.status = "absent"
  /\ \A d \in TxDoc : d.status \in {"pending", "success", "failed"} /\ d # NoTx
  /\ \A c \in Payments :
       LET d == [status |-> "pending", user |-> c.user, type |-> c.op,
       amount |-> c.amount]
       IN  d \in TxDoc /\ d.status = "pending"
BY DEF NoTx, TxDoc, Payments

(* Saving a new status on a pending document keeps the rest of the collection. *)
LEMMA SavedStatus ==
  ASSUME TypeOK, NEW f \in References, tx[f].status = "pending",
         NEW s \in {"success", "failed"}, tx' = [tx EXCEPT ![f].status = s]
  PROVE  /\ tx' \in [References -> TxDoc \cup {NoTx}]
         /\ tx'[f].status = s
         /\ \A g \in References \ {f} : tx'[g] = tx[g]
<1>1. tx[f] \in TxDoc
  BY TxShape DEF TypeOK
<1>2. [tx[f] EXCEPT !.status = s] \in TxDoc /\ [tx[f] EXCEPT !.status = s].status = s
  BY <1>1 DEF TxDoc
<1>3. tx'[f] = [tx[f] EXCEPT !.status = s] /\ \A g \in References \ {f} : tx'[g] = tx[g]
  BY DEF TypeOK
<1> QED
  BY <1>2, <1>3 DEF TypeOK

(* Where a call goes once its wallet is known. *)
LEMMA AfterWalletFits ==
  ASSUME NEW c \in Calls
  PROVE  /\ AfterWallet(c.op) \in {"findTx", "recordDebt", "returned"}
         /\ AfterWallet(c.op) = "findTx" => c \in Payments
         /\ AfterWallet(c.op) = "recordDebt" => c \in Debts
BY CallShape DEF AfterWallet

(* Whoever settles is a payment, so it names a reference. *)
LEMMA SettlerHasRef ==
  ASSUME IInv
  PROVE  \A r \in Requests : Settling(r) => call[r].ref \in References
BY CallShape DEF IInv, LabelFitsCall

LEMMA OwnReferences == IInv <=> WalletInv(References)
BY CallShape DEF IInv, WalletInv, CallsWithin, LabelFitsCall, PendingIsHeld, TrueWithin, StatusTellsMoney

LEMMA SettlerWithin ==
  ASSUME NEW F, F \subseteq References, WalletInv(F)
  PROVE  \A r \in Requests : Settling(r) => call[r].ref \in F /\ call[r].ref \in References
BY DEF WalletInv, LabelFitsCall, CallsWithin, Settling

(* A service without transactions satisfies the inductive invariant. *)
LEMMA InitHolds ==
  ASSUME NEW F, F \subseteq References, NEW owners, owners \subseteq Users,
         NEW opening \in [Users -> Nat], InitWith(owners, opening)
  PROVE  WalletInv(F)
BY TxShape DEF InitWith, WalletInv, TypeOK, Labels, LabelFitsCall, CallsWithin, SettlerOwnsPending,
  OneSettler, HeldWithin, TrueWithin, Settling

(* Steps that neither touch a transaction nor enter or leave a settlement. *)
LEMMA LookupsKeep ==
  ASSUME NEW F, F \subseteq References, WalletInv(F), NEW r \in Requests,
         \/ \E c \in Calls : Start(r, c) /\ (c \in Payments => c.ref \in F)
         \/ FindWallet(r) \/ RecheckWallet(r) \/ InsertWallet(r)
         \/ FindTx(r) \/ RecordDebt(r) \/ Crash(r)
  PROVE  WalletInv(F)'
<1>1. ASSUME NEW c \in Calls, Start(r, c), c \in Payments => c.ref \in F
      PROVE  WalletInv(F)'
  BY <1>1, CallShape DEF Start, Ready, Goto, store, WalletInv, TypeOK, Labels, LabelFitsCall, CallsWithin,
    SettlerOwnsPending, OneSettler, HeldWithin, TrueWithin, Settling
<1>2. CASE FindWallet(r)
  BY <1>2, AfterWalletFits DEF FindWallet, Ready, Goto, store, WalletInv, TypeOK, Labels,
    LabelFitsCall, CallsWithin,
    SettlerOwnsPending, OneSettler, HeldWithin, TrueWithin, Settling
<1>3. CASE RecheckWallet(r)
  BY <1>3, AfterWalletFits DEF RecheckWallet, Ready, Goto, store, WalletInv, TypeOK, Labels,
    LabelFitsCall, CallsWithin,
    SettlerOwnsPending, OneSettler, HeldWithin, TrueWithin, Settling
<1>4. CASE InsertWallet(r)
  BY <1>4, AfterWalletFits, CallShape DEF InsertWallet, Ready, Goto, store, WalletInv,
    TypeOK, Labels, LabelFitsCall, CallsWithin,
    SettlerOwnsPending, OneSettler, HeldWithin, TrueWithin, Settling
<1>5. CASE FindTx(r)
  BY <1>5 DEF FindTx, Ready, Goto, store, WalletInv, TypeOK, Labels, LabelFitsCall, CallsWithin,
    SettlerOwnsPending, OneSettler, HeldWithin, TrueWithin, Settling
<1>6. CASE RecordDebt(r)
  BY <1>6, CallShape DEF RecordDebt, Ready, Goto, store, WalletInv, TypeOK, Labels,
    LabelFitsCall, CallsWithin,
    SettlerOwnsPending, OneSettler, HeldWithin, TrueWithin, Settling
<1>7. CASE Crash(r)
  BY <1>7 DEF Crash, store, WalletInv, TypeOK, Labels, LabelFitsCall, CallsWithin,
    SettlerOwnsPending, OneSettler, HeldWithin, TrueWithin, Settling
<1> QED
  BY <1>1, <1>2, <1>3, <1>4, <1>5, <1>6, <1>7

(* A request becomes the only settler of the document it inserts. *)
LEMMA InsertTxKeeps ==
  ASSUME NEW F, F \subseteq References, WalletInv(F), NEW r \in Requests, InsertTx(r)
  PROVE  WalletInv(F)'
<1> DEFINE f == call[r].ref
<1>1. f \in F /\ f \in References /\ call[r] \in Payments
  BY CallShape DEF InsertTx, Ready, WalletInv, LabelFitsCall, CallsWithin, Settling
<1>2. /\ tx' \in [References -> TxDoc \cup {NoTx}]
      /\ \A g \in References \ {f} : tx'[g] = tx[g]
      /\ pc'[r] = "apply" => tx[f] = NoTx /\ tx'[f].status = "pending"
  BY <1>1, CallShape, TxShape DEF InsertTx, Ready, Goto, WalletInv, TypeOK
<1>3. TypeOK'
  BY <1>1, <1>2, TxShape DEF InsertTx, Ready, Goto, WalletInv, TypeOK, Labels
<1>4. LabelFitsCall' /\ CallsWithin(F)'
  BY <1>1, <1>2, TxShape DEF InsertTx, Ready, Goto, WalletInv, TypeOK, LabelFitsCall, CallsWithin, Settling
<1>5. SettlerOwnsPending'
  BY <1>1, <1>2, TxShape, SettlerWithin DEF InsertTx, Ready, Goto, WalletInv, TypeOK,
    SettlerOwnsPending, OneSettler,
    TrueWithin, Settling
<1>6. OneSettler'
  BY <1>1, <1>2, TxShape DEF InsertTx, Ready, Goto, WalletInv, TypeOK, SettlerOwnsPending,
    OneSettler, Settling
<1>7. HeldWithin(F)'
  BY <1>1, <1>2, TxShape DEF InsertTx, Ready, Goto, WalletInv, TypeOK, HeldWithin, Settling
<1>8. TrueWithin(F)'
  BY <1>1, <1>2, TxShape DEF InsertTx, Ready, Goto, WalletInv, TypeOK, SettlerOwnsPending,
    TrueWithin, Settling
<1> QED
  BY <1>3, <1>4, <1>5, <1>6, <1>7, <1>8 DEF WalletInv

(* A credit moves its amount once, under a document that stays pending. *)
LEMMA ApplyCreditKeeps ==
  ASSUME NEW F, F \subseteq References, WalletInv(F), NEW r \in Requests, ApplyCredit(r)
  PROVE  WalletInv(F)'
<1> DEFINE f == call[r].ref
<1>1. f \in F /\ f \in References /\ call[r] \in Payments
  BY CallShape DEF ApplyCredit, Ready, WalletInv, LabelFitsCall, CallsWithin, Settling
<1>2. TypeOK'
  BY <1>1, CallShape DEF ApplyCredit, Ready, Goto, WalletInv, TypeOK, Labels
<1>3. LabelFitsCall' /\ CallsWithin(F)'
  BY <1>1 DEF ApplyCredit, Ready, Goto, WalletInv, TypeOK, LabelFitsCall, CallsWithin, Settling
<1>4. SettlerOwnsPending'
  BY <1>1, SettlerWithin DEF ApplyCredit, Ready, Goto, WalletInv, TypeOK,
    SettlerOwnsPending, OneSettler, Settling
<1>5. OneSettler'
  BY <1>1 DEF ApplyCredit, Ready, Goto, WalletInv, TypeOK, SettlerOwnsPending, OneSettler,
    Settling
<1>6. HeldWithin(F)'
  BY <1>1 DEF ApplyCredit, Ready, Goto, WalletInv, TypeOK, HeldWithin, Settling
<1>7. TrueWithin(F)'
  BY <1>1 DEF ApplyCredit, Ready, Goto, WalletInv, TypeOK, SettlerOwnsPending,
    TrueWithin, Settling
<1> QED
  BY <1>2, <1>3, <1>4, <1>5, <1>6, <1>7 DEF WalletInv

(* A debit moves its amount once and only if the balance covers it. *)
LEMMA ApplyDebitKeeps ==
  ASSUME NEW F, F \subseteq References, WalletInv(F), NEW r \in Requests, ApplyDebit(r)
  PROVE  WalletInv(F)'
<1> DEFINE f == call[r].ref
<1>1. f \in F /\ f \in References /\ call[r] \in Payments
  BY CallShape DEF ApplyDebit, Ready, WalletInv, LabelFitsCall, CallsWithin, Settling
<1>2. TypeOK'
  BY <1>1, CallShape DEF ApplyDebit, Ready, Goto, WalletInv, TypeOK, Labels
<1>3. LabelFitsCall' /\ CallsWithin(F)'
  BY <1>1 DEF ApplyDebit, Ready, Goto, WalletInv, TypeOK, LabelFitsCall, CallsWithin, Settling
<1>4. SettlerOwnsPending'
  BY <1>1, SettlerWithin DEF ApplyDebit, Ready, Goto, WalletInv, TypeOK, SettlerOwnsPending,
    OneSettler, Settling
<1>5. OneSettler'
  BY <1>1 DEF ApplyDebit, Ready, Goto, WalletInv, TypeOK, SettlerOwnsPending, OneSettler,
    Settling
<1>6. HeldWithin(F)'
  BY <1>1 DEF ApplyDebit, Ready, Goto, WalletInv, TypeOK, HeldWithin, Settling
<1>7. TrueWithin(F)'
  BY <1>1 DEF ApplyDebit, Ready, Goto, WalletInv, TypeOK, SettlerOwnsPending,
    TrueWithin, Settling
<1> QED
  BY <1>2, <1>3, <1>4, <1>5, <1>6, <1>7 DEF WalletInv

(* The document settles as a success after the money has moved. *)
LEMMA MarkSuccessKeeps ==
  ASSUME NEW F, F \subseteq References, WalletInv(F), NEW r \in Requests, MarkSuccess(r)
  PROVE  WalletInv(F)'
<1> DEFINE f == call[r].ref
<1>1. f \in F /\ f \in References /\ call[r] \in Payments
  BY CallShape DEF MarkSuccess, Ready, WalletInv, LabelFitsCall, CallsWithin, Settling
<1>2. /\ tx' \in [References -> TxDoc \cup {NoTx}]
      /\ \A g \in References \ {f} : tx'[g] = tx[g]
      /\ tx'[f].status = "success"
  BY <1>1, SavedStatus DEF MarkSuccess, Ready, WalletInv, SettlerOwnsPending, Settling
<1>3. TypeOK'
  BY <1>1, <1>2, TxShape DEF MarkSuccess, Ready, Goto, WalletInv, TypeOK, Labels
<1>4. LabelFitsCall' /\ CallsWithin(F)'
  BY <1>1, <1>2, TxShape DEF MarkSuccess, Ready, Goto, WalletInv, TypeOK, LabelFitsCall, CallsWithin,
    Settling
<1>5. SettlerOwnsPending'
  BY <1>1, <1>2, TxShape, SettlerWithin DEF MarkSuccess, Ready, Goto, WalletInv, TypeOK,
    SettlerOwnsPending, OneSettler, Settling
<1>6. OneSettler'
  BY <1>1, <1>2, TxShape DEF MarkSuccess, Ready, Goto, WalletInv, TypeOK,
    SettlerOwnsPending, OneSettler, Settling
<1>7. HeldWithin(F)'
  BY <1>1, <1>2, TxShape DEF MarkSuccess, Ready, Goto, WalletInv, TypeOK, HeldWithin,
    Settling
<1>8. TrueWithin(F)'
  BY <1>1, <1>2, TxShape DEF MarkSuccess, Ready, Goto, WalletInv, TypeOK,
    SettlerOwnsPending, TrueWithin, Settling
<1> QED
  BY <1>3, <1>4, <1>5, <1>6, <1>7, <1>8 DEF WalletInv

(* The document settles as a failure while the money has not moved. *)
LEMMA MarkFailedKeeps ==
  ASSUME NEW F, F \subseteq References, WalletInv(F), NEW r \in Requests, MarkFailed(r)
  PROVE  WalletInv(F)'
<1> DEFINE f == call[r].ref
<1>1. f \in F /\ f \in References /\ call[r] \in Payments
  BY CallShape DEF MarkFailed, Ready, WalletInv, LabelFitsCall, CallsWithin, Settling
<1>2. /\ tx' \in [References -> TxDoc \cup {NoTx}]
      /\ \A g \in References \ {f} : tx'[g] = tx[g]
      /\ tx'[f].status = "failed"
  BY <1>1, SavedStatus DEF MarkFailed, Ready, WalletInv, SettlerOwnsPending, Settling
<1>3. TypeOK'
  BY <1>1, <1>2, TxShape DEF MarkFailed, Ready, Goto, WalletInv, TypeOK, Labels
<1>4. LabelFitsCall' /\ CallsWithin(F)'
  BY <1>1, <1>2, TxShape DEF MarkFailed, Ready, Goto, WalletInv, TypeOK, LabelFitsCall, CallsWithin,
    Settling
<1>5. SettlerOwnsPending'
  BY <1>1, <1>2, TxShape, SettlerWithin DEF MarkFailed, Ready, Goto, WalletInv, TypeOK,
    SettlerOwnsPending, OneSettler, Settling
<1>6. OneSettler'
  BY <1>1, <1>2, TxShape DEF MarkFailed, Ready, Goto, WalletInv, TypeOK, SettlerOwnsPending,
    OneSettler, Settling
<1>7. HeldWithin(F)'
  BY <1>1, <1>2, TxShape DEF MarkFailed, Ready, Goto, WalletInv, TypeOK, HeldWithin,
    Settling
<1>8. TrueWithin(F)'
  BY <1>1, <1>2, TxShape DEF MarkFailed, Ready, Goto, WalletInv, TypeOK, SettlerOwnsPending,
    TrueWithin, Settling
<1> QED
  BY <1>3, <1>4, <1>5, <1>6, <1>7, <1>8 DEF WalletInv

(* Every step of the service keeps the invariant, and so does every step    *)
(* that leaves the service alone.                                           *)
LEMMA ServiceKeeps ==
  ASSUME NEW F, F \subseteq References, WalletInv(F), NEW r \in Requests,
         \/ \E c \in Calls : Start(r, c) /\ (c \in Payments => c.ref \in F)
         \/ Handle(r) \/ Crash(r)
  PROVE  WalletInv(F)'
BY LookupsKeep, InsertTxKeeps, ApplyCreditKeeps, ApplyDebitKeeps, MarkSuccessKeeps, MarkFailedKeeps
  DEF Handle

LEMMA IdlingKeeps ==
  ASSUME NEW F, WalletInv(F), UNCHANGED walletVars
  PROVE  WalletInv(F)'
BY DEF walletVars, WalletInv, TypeOK, LabelFitsCall, CallsWithin, SettlerOwnsPending, OneSettler,
  HeldWithin, TrueWithin, Settling

-----------------------------------------------------------------------------
(* Every kind of call knows its user. *)
LEMMA CallerKnown ==
  ASSUME LabelFitsCall, NEW r \in Requests, pc[r] # "idle"
  PROVE  call[r].user \in Users
BY CallShape DEF LabelFitsCall

(* What excuses a wallet in the red stays on record. *)
LEMMA NegativeStays ==
  ASSUME TypeOK, TypeOK', NEW f \in References, NEW u \in Users, NegativeCredit(f, u),
         applied'[f] >= applied[f],
         tx[f] # NoTx => tx'[f].user = tx[f].user /\ tx'[f].type = tx[f].type
                         /\ tx'[f].amount = tx[f].amount
  PROVE  NegativeCredit(f, u)'
<1>1. tx[f] # NoTx
  BY WalletAssumption DEF NegativeCredit, NoTx
<1>2. applied[f] \in Nat /\ applied'[f] \in Nat
  BY DEF TypeOK
<1> QED
  BY <1>1, <1>2 DEF NegativeCredit

(* A step that lowers no balance keeps whoever was solvent so, ... *)
LEMMA NothingLowered ==
  ASSUME TypeOK, TypeOK', NoOverdraft,
         \A u \in Users : balance'[u] >= balance[u] \/ balance'[u] >= 0,
         \A f \in References : /\ applied'[f] >= applied[f]
                               /\ tx[f] # NoTx => /\ tx'[f].user = tx[f].user
                                                  /\ tx'[f].type = tx[f].type
                                                  /\ tx'[f].amount = tx[f].amount
  PROVE  NoOverdraft'
<1> SUFFICES ASSUME NEW u \in Users, balance'[u] < 0
             PROVE  \E f \in References : NegativeCredit(f, u)'
  BY DEF NoOverdraft
<1>1. balance[u] < 0
  BY DEF TypeOK
<1>2. PICK f \in References : NegativeCredit(f, u)
  BY <1>1 DEF NoOverdraft
<1> QED
  BY <1>2, NegativeStays

(* ... and so do all steps of the service but a credit of a negative amount. *)
LEMMA SolvencyKeeps ==
  ASSUME NEW F, F \subseteq References, WalletInv(F), WalletInv(F)', WalletPart, NEW r \in Requests,
         (\E c \in Calls : Start(r, c)) \/ Handle(r) \/ Crash(r)
  PROVE  NoOverdraft'
<1>0. TypeOK /\ TypeOK' /\ LabelFitsCall /\ NoOverdraft /\ SettlerWrote
  BY DEF WalletInv, WalletPart
<1>1. CASE InsertTx(r)
  <2>1. \A f \in References : tx[f] # NoTx => tx'[f] = tx[f]
    BY <1>0, <1>1, CallShape DEF InsertTx, Ready, LabelFitsCall, TypeOK
  <2>2. applied' = applied /\ balance' = balance
    BY <1>1 DEF InsertTx
  <2>3. \A f \in References : applied'[f] >= applied[f]
    BY <1>0, <2>2 DEF TypeOK
  <2>4. \A u \in Users : balance'[u] >= balance[u]
    BY <1>0, <2>2 DEF TypeOK
  <2> QED
    BY <1>0, <2>1, <2>3, <2>4, NothingLowered
<1>2. CASE MarkSuccess(r) \/ MarkFailed(r)
  <2>1. /\ call[r].ref \in References
        /\ tx[call[r].ref].status = "pending"
    BY <1>2, SettlerWithin DEF MarkSuccess, MarkFailed, Ready, WalletInv, SettlerOwnsPending, Settling
  <2>2. tx[call[r].ref] \in TxDoc
    BY <1>0, <2>1, TxShape DEF TypeOK
  <2>3. PICK s \in {"success", "failed"} : tx' = [tx EXCEPT ![call[r].ref].status = s]
    BY <1>2 DEF MarkSuccess, MarkFailed
  <2>4. /\ tx'[call[r].ref] = [tx[call[r].ref] EXCEPT !.status = s]
        /\ \A f \in References \ {call[r].ref} : tx'[f] = tx[f]
    BY <1>0, <2>1, <2>3 DEF TypeOK
  <2>5. \A f \in References : /\ tx'[f].user = tx[f].user
                              /\ tx'[f].type = tx[f].type
                              /\ tx'[f].amount = tx[f].amount
    BY <2>2, <2>4 DEF TxDoc
  <2>6. applied' = applied /\ balance' = balance
    BY <1>2 DEF MarkSuccess, MarkFailed
  <2>7. /\ \A f \in References : applied'[f] >= applied[f]
        /\ \A u \in Users : balance'[u] >= balance[u]
    BY <1>0, <2>6 DEF TypeOK
  <2> QED
    BY <1>0, <2>5, <2>7, NothingLowered
<1>3. CASE ApplyCredit(r) \/ ApplyDebit(r)
  <2> DEFINE f == call[r].ref
             a == call[r].amount
             w == call[r].user
  <2>1. /\ f \in References /\ w \in Users /\ a \in Int
        /\ tx[f] = [status |-> "pending", user |-> w, type |-> call[r].op, amount |-> a]
    BY <1>0, <1>3, CallShape DEF ApplyCredit, ApplyDebit, Ready, LabelFitsCall, Settling, SettlerWrote
  <2>2. tx' = tx /\ (\A g \in References : applied'[g] >= applied[g])
    BY <1>0, <1>3, <2>1 DEF ApplyCredit, ApplyDebit, TypeOK
  <2>3. CASE ApplyCredit(r) /\ a < 0
    <3>1. applied'[f] > 0 /\ tx'[f].user = w /\ tx'[f].type = "credit" /\ tx'[f].amount < 0
      BY <1>0, <2>1, <2>2, <2>3 DEF ApplyCredit, TypeOK
    <3>2. \A u \in Users \ {w} : balance'[u] = balance[u]
      BY <1>0, <2>1, <2>3 DEF ApplyCredit, TypeOK
    <3> SUFFICES ASSUME NEW u \in Users, balance'[u] < 0
                 PROVE  \E g \in References : NegativeCredit(g, u)'
      BY DEF NoOverdraft
    <3>3. CASE u = w
      BY <2>1, <3>1, <3>3 DEF NegativeCredit
    <3>4. CASE u # w
      <4>1. PICK g \in References : NegativeCredit(g, u)
        BY <1>0, <3>2, <3>4 DEF NoOverdraft
      <4> QED
        BY <1>0, <2>2, <4>1, NegativeStays
    <3> QED
      BY <3>3, <3>4
  <2>4. CASE ApplyCredit(r) /\ ~(a < 0)
    <3>1. \A u \in Users : balance'[u] >= balance[u]
      BY <1>0, <2>1, <2>4 DEF ApplyCredit, TypeOK
    <3> QED
      BY <1>0, <2>2, <3>1, NothingLowered
  <2>5. CASE ApplyDebit(r)
    <3>1. \A u \in Users : balance'[u] >= balance[u] \/ balance'[u] >= 0
      BY <1>0, <2>1, <2>5 DEF ApplyDebit, TypeOK
    <3> QED
      BY <1>0, <2>2, <3>1, NothingLowered
  <2> QED
    BY <1>3, <2>3, <2>4, <2>5
<1>4. CASE UNCHANGED <<balance, tx, applied>>
  BY <1>0, <1>4 DEF NoOverdraft, NegativeCredit
<1>5. CASE InsertWallet(r)
  <2>1. /\ tx' = tx /\ applied' = applied
        /\ \A u \in Users : balance'[u] >= balance[u] \/ balance'[u] >= 0
    BY <1>0, <1>5 DEF InsertWallet, store, TypeOK
  <2>2. \A f \in References : applied'[f] >= applied[f]
    BY <1>0, <2>1 DEF TypeOK
  <2> QED
    BY <1>0, <2>1, <2>2, NothingLowered
<1> QED
  BY <1>1, <1>2, <1>3, <1>4, <1>5 DEF Handle, Start, FindWallet, RecheckWallet, FindTx, RecordDebt, Crash, store

(* The part about wallets survives every step of the service, ... *)
LEMMA WalletsKeep ==
  ASSUME NEW F, F \subseteq References, WalletInv(F), WalletInv(F)', WalletPart, NEW r \in Requests,
         (\E c \in Calls : Start(r, c)) \/ Handle(r) \/ Crash(r)
  PROVE  WalletPart'
<1>0. TypeOK /\ LabelFitsCall
  BY DEF WalletInv
<1> SUFFICES PayerHasWallet' /\ NothingWithoutWallet' /\ DocumentHasWallet' /\ SettlerWrote'
  BY SolvencyKeeps DEF WalletPart
<1> USE DEF WalletPart
<1>1. CASE \E c \in Calls : Start(r, c)
  BY <1>0, <1>1 DEF Start, Ready, Goto, store, TypeOK, PayerHasWallet,
    NothingWithoutWallet, DocumentHasWallet, SettlerWrote, Settling
<1>2. CASE FindWallet(r)
  BY <1>0, <1>2, CallerKnown DEF FindWallet, Ready, Goto, store, AfterWallet, TypeOK,
    PayerHasWallet, NothingWithoutWallet, DocumentHasWallet, SettlerWrote, Settling
<1>3. CASE RecheckWallet(r)
  BY <1>0, <1>3, CallerKnown DEF RecheckWallet, Ready, Goto, store, AfterWallet, TypeOK,
    PayerHasWallet, NothingWithoutWallet, DocumentHasWallet, SettlerWrote, Settling
<1>4. CASE InsertWallet(r)
  BY <1>0, <1>4, CallerKnown DEF InsertWallet, Ready, Goto, store, AfterWallet, TypeOK,
    PayerHasWallet, NothingWithoutWallet, DocumentHasWallet, SettlerWrote, Settling
<1>5. CASE FindTx(r)
  BY <1>0, <1>5 DEF FindTx, Ready, Goto, store, TypeOK,
    PayerHasWallet, NothingWithoutWallet, DocumentHasWallet, SettlerWrote, Settling
<1>6. CASE InsertTx(r)
  <2>1. /\ call[r].ref \in References /\ call[r].user \in wallets
        /\ \A q \in Requests : Settling(q) =>
              tx[call[q].ref].status = "pending" /\ tx[call[q].ref] # NoTx
    BY <1>0, <1>6, CallShape, TxShape DEF InsertTx, Ready, LabelFitsCall, PayerHasWallet,
      WalletInv, SettlerOwnsPending
  <2>2. PayerHasWallet' /\ NothingWithoutWallet' /\ DocumentHasWallet'
    BY <1>0, <1>6, <2>1 DEF InsertTx, Ready, Goto, TypeOK,
      PayerHasWallet, NothingWithoutWallet, DocumentHasWallet, Settling
  <2>3. SettlerWrote'
    <3>1. CASE tx[call[r].ref] # NoTx
      BY <1>0, <1>6, <3>1 DEF InsertTx, Ready, Goto, TypeOK, SettlerWrote, Settling
    <3>2. CASE tx[call[r].ref] = NoTx
      <4>1. /\ tx'[call[r].ref] = [status |-> "pending", user |-> call[r].user,
                                   type |-> call[r].op, amount |-> call[r].amount]
            /\ \A f \in References : f # call[r].ref => tx'[f] = tx[f]
            /\ call' = call /\ \A q \in Requests \ {r} : pc'[q] = pc[q]
        BY <1>0, <1>6, <2>1, <3>2 DEF InsertTx, Ready, Goto, TypeOK
      <4>2. \A q \in Requests \ {r} : Settling(q)' =>
              Settling(q) /\ call[q].ref # call[r].ref /\ call[q].ref \in References
        BY <2>1, <3>2, <4>1, SettlerWithin DEF Settling
      <4> QED
        BY <4>1, <4>2 DEF SettlerWrote
    <3> QED
      BY <3>1, <3>2
  <2> QED
    BY <2>2, <2>3
<1>7. CASE ApplyCredit(r) \/ ApplyDebit(r)
  <2>1. call[r].user \in wallets /\ call[r].user \in Users
    BY <1>0, <1>7, CallerKnown DEF ApplyCredit, ApplyDebit, Ready, PayerHasWallet, Settling
  <2> QED
    BY <1>0, <1>7, <2>1 DEF ApplyCredit, ApplyDebit, Ready, Goto, TypeOK,
      PayerHasWallet, NothingWithoutWallet, DocumentHasWallet, SettlerWrote, Settling
<1>8. CASE MarkSuccess(r) \/ MarkFailed(r)
  <2>1. call[r].ref \in References /\ tx[call[r].ref].status = "pending" /\ Settling(r)
    BY <1>8, SettlerWithin DEF MarkSuccess, MarkFailed, Ready, WalletInv, SettlerOwnsPending, Settling
  <2>2. tx[call[r].ref] # NoTx /\ tx'[call[r].ref].user = tx[call[r].ref].user
    BY <1>0, <1>8, <2>1, TxShape DEF MarkSuccess, MarkFailed, TypeOK, TxDoc
  <2>3. \A f \in References : f # call[r].ref => tx'[f] = tx[f]
    BY <1>0, <1>8, <2>1 DEF MarkSuccess, MarkFailed, TypeOK
  <2>4. DocumentHasWallet'
    BY <1>8, <2>1, <2>2, <2>3 DEF MarkSuccess, MarkFailed, DocumentHasWallet
  <2>5. \A q \in Requests : Settling(q)' => Settling(q) /\ q # r
    BY <1>0, <1>8 DEF MarkSuccess, MarkFailed, Ready, Goto, TypeOK, Settling
  <2>6. \A q \in Requests : Settling(q)' => call[q].ref \in References /\ call[q].ref # call[r].ref
    BY <2>1, <2>5, SettlerWithin DEF WalletInv, OneSettler
  <2>7. SettlerWrote'
    BY <1>8, <2>3, <2>5, <2>6 DEF MarkSuccess, MarkFailed, SettlerWrote
  <2> QED
    BY <1>0, <1>8, <2>4, <2>7 DEF MarkSuccess, MarkFailed, Ready, Goto, TypeOK,
      PayerHasWallet, NothingWithoutWallet, Settling
<1>9. CASE RecordDebt(r)
  <2>1. call[r].user \in wallets /\ call[r].user \in Users
    BY <1>0, <1>9, CallerKnown DEF RecordDebt, Ready, PayerHasWallet
  <2> QED
    BY <1>0, <1>9, <2>1 DEF RecordDebt, Ready, Goto, TypeOK,
      PayerHasWallet, NothingWithoutWallet, DocumentHasWallet, SettlerWrote, Settling
<1>10. CASE Crash(r)
  BY <1>0, <1>10 DEF Crash, store, TypeOK, PayerHasWallet, NothingWithoutWallet,
    DocumentHasWallet, SettlerWrote, Settling
<1> QED
  BY <1>1, <1>2, <1>3, <1>4, <1>5, <1>6, <1>7, <1>8, <1>9, <1>10 DEF Handle

(* ... and every step that leaves it alone. *)
LEMMA IdlingKeepsWallets ==
  ASSUME WalletPart, UNCHANGED walletVars
  PROVE  WalletPart'
BY DEF walletVars, WalletPart, PayerHasWallet, NothingWithoutWallet, DocumentHasWallet, SettlerWrote,
  NoOverdraft, NegativeCredit, Settling

(* It holds of a service without transactions, whoever has a wallet. *)
LEMMA InitWallets ==
  ASSUME NEW owners, NEW opening \in [Users -> Nat],
         \A u \in Users \ owners : opening[u] = 0, InitWith(owners, opening)
  PROVE  WalletPart
BY DEF InitWith, WalletPart, PayerHasWallet, NothingWithoutWallet, DocumentHasWallet, SettlerWrote,
  NoOverdraft, Settling

-----------------------------------------------------------------------------
(* The inductive invariant holds in every reachable state: each database   *)
(* operation of createTransaction, getOrCreateWallet and recordDebt keeps  *)
(* it, whatever the other requests have done since its last one.           *)
THEOREM InvariantHolds == Spec => []IInv
<1>1. Init => WalletInv(References)
  BY InitHolds DEF Init
<1>2. WalletInv(References) /\ [Next]_walletVars => WalletInv(References)'
  <2> SUFFICES ASSUME WalletInv(References), [Next]_walletVars
               PROVE  WalletInv(References)'
    OBVIOUS
  <2>1. ASSUME NEW r \in Requests, Handle(r) \/ Crash(r)
        PROVE  WalletInv(References)'
    BY <2>1, ServiceKeeps
  <2>2. ASSUME NEW r \in Requests, NEW c \in Workload, Start(r, c)
        PROVE  WalletInv(References)'
    <3>1. c \in Calls /\ (c \in Payments => c.ref \in References)
      BY WalletAssumption, CallShape
    <3> QED
      BY <2>2, <3>1, ServiceKeeps
  <2>3. CASE UNCHANGED walletVars
    BY <2>3, IdlingKeeps
  <2> QED
    BY <2>1, <2>2, <2>3 DEF Next
<1> QED
  BY <1>1, <1>2, OwnReferences, PTL DEF Spec

-----------------------------------------------------------------------------
(* Every reachable state has the types the schemas give it. *)
THEOREM TypeCorrect == Spec => []TypeOK
BY InvariantHolds, PTL DEF IInv

(* The status stored under a reference tells whether its money moved. *)
THEOREM StatusIsTrue == Spec => []StatusTellsMoney
BY InvariantHolds, PTL DEF IInv

(* A pending document has exactly one request that will settle it. *)
THEOREM PendingIsOwned == Spec => []PendingHasOwner
<1>1. IInv => PendingHasOwner
  BY DEF IInv, PendingIsHeld, HeldWithin, OneSettler, PendingHasOwner
<1> QED
  BY <1>1, InvariantHolds, PTL

(* A reference moves its amount at most once: a settled document says so,  *)
(* and a pending one by the label of its only settler.                     *)
THEOREM AppliedAtMostOnce == Spec => []AppliedOnce
<1>1. IInv => AppliedOnce
  <2> SUFFICES ASSUME IInv, NEW f \in References
               PROVE  applied[f] <= 1
    BY DEF AppliedOnce
  <2>1. tx[f].status \in {"absent", "pending", "success", "failed"}
    BY TxShape DEF IInv, TypeOK
  <2>2. CASE tx[f].status = "pending"
    BY <2>2 DEF IInv, PendingIsHeld, HeldWithin, SettlerOwnsPending
  <2>3. CASE tx[f].status # "pending"
    BY <2>1, <2>3 DEF IInv, StatusTellsMoney
  <2> QED
    BY <2>2, <2>3
<1> QED
  BY <1>1, InvariantHolds, PTL

(* A settled transaction is never reopened, rewritten or moved, and no      *)
(* document disappears: only the owner of a pending one writes to it, and   *)
(* only its status.                                                         *)
THEOREM SettledStays == Spec => SettledIsFinal
<1> DEFINE Kept(f) ==
      /\ tx[f].status \in {"success", "failed"} => tx'[f] = tx[f]
      /\ tx[f] # NoTx => [tx'[f] EXCEPT !.status = "pending"] = [tx[f] EXCEPT !.status = "pending"]
<1>1. IInv /\ [Next]_walletVars => \A f \in References : Kept(f)
  <2> SUFFICES ASSUME IInv, [Next]_walletVars, NEW f \in References
               PROVE  Kept(f)
    OBVIOUS
  <2>1. CASE tx' = tx
    BY <2>1
  <2>2. ASSUME NEW r \in Requests, InsertTx(r), tx' # tx
        PROVE  Kept(f)
    <3>1. call[r].ref \in References /\ tx[call[r].ref] = NoTx
      BY <2>2, CallShape DEF InsertTx, Ready, IInv, LabelFitsCall
    <3>2. f # call[r].ref => tx'[f] = tx[f]
      BY <2>2, <3>1 DEF InsertTx, IInv, TypeOK
    <3> QED
      BY <3>1, <3>2, TxShape
  <2>3. ASSUME NEW r \in Requests, MarkSuccess(r) \/ MarkFailed(r)
        PROVE  Kept(f)
    <3>1. call[r].ref \in References /\ tx[call[r].ref].status = "pending"
      BY <2>3, SettlerHasRef DEF MarkSuccess, MarkFailed, Ready, IInv, SettlerOwnsPending, Settling
    <3>2. tx[call[r].ref] \in TxDoc
      BY <3>1, TxShape DEF IInv, TypeOK
    <3>3. CASE f = call[r].ref
      <4>1. PICK s \in {"success", "failed"} : tx'[f] = [tx[f] EXCEPT !.status = s]
        BY <2>3, <3>1, <3>3 DEF MarkSuccess, MarkFailed, IInv, TypeOK
      <4> QED
        BY <3>1, <3>2, <3>3, <4>1 DEF TxDoc
    <3>4. CASE f # call[r].ref
      BY <2>3, <3>1, <3>4 DEF MarkSuccess, MarkFailed, IInv, TypeOK
    <3> QED
      BY <3>3, <3>4
  <2> QED
    BY <2>1, <2>2, <2>3 DEF Next, Handle, walletVars, Start, FindWallet, RecheckWallet,
      InsertWallet, FindTx, ApplyCredit, ApplyDebit, RecordDebt, Crash, store
<1> QED
  BY <1>1, InvariantHolds, PTL DEF Spec, SettledIsFinal
=============================================================================
