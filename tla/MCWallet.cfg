SPECIFICATION Spec
CONSTANTS
  u1 = u1
  u2 = u2
  f1 = f1
  f2 = f2
  Users = {u1, u2}
  References = {f1, f2}
  Amounts <- MCAmounts
  Requests = {r1, r2, r3}
  Workload <- MCWorkload
  None = None
SYMMETRY Interchangeable
INVARIANTS
  TypeOK
  NoOverdraft
  AppliedOnce
  StatusTellsMoney
  PendingHasOwner
  MoneyHasWallet
  BalanceReconciles
PROPERTIES
  RefinesLedger
CHECK_DEADLOCK FALSE
