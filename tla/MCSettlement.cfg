SPECIFICATION SettlementFairSpec
CONSTANTS
  poster = poster
  executor = executor
  j1 = j1
  j2 = j2
  Users = {poster, executor}
  Tasks = {t1}
  Jobs <- MCJobs
  Ops = {"complete", "acknowledge", "cancel", "edit"}
  Terms <- MCTerms
  Opening <- MCOpening
  Requests <- MCRequests
  References <- MCReferences
  Amounts = {1, 2, 19}
  Workload = {}
  None = None
INVARIANTS
  CreditBackedByDebit
  MoneyConserved
  DebtIsCommission
  PaidOnce
PROPERTIES
  DebitIsPassedOn
CHECK_DEADLOCK FALSE
