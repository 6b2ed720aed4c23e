SPECIFICATION DepositFairSpec
CONSTANTS
  u1 = u1
  f1 = f1
  Users = {u1}
  References = {f1, d1}
  Amounts <- MCAmounts
  Requests = {r1, d1}
  Deposits = {d1}
  Hooks = {h1, h2, h3}
  Workload <- MCWorkload
  None = None
INVARIANTS
  NoCreditWithoutCharge
  SuccessIsBeingCredited
  BalanceReconciles
PROPERTIES
  ChargeReachesWallet
  LedgerWithDeposits
CHECK_DEADLOCK FALSE
