---------------------------- MODULE MCSettlement ----------------------------
(* Two acknowledgements of a task by a poster whose money suffices for one *)
(* of them; both credits may race to create the executor's wallet.  Before, *)
(* between and after them the task is completed, cancelled and edited.      *)
EXTENDS SettlementBooks

CONSTANTS poster, executor, j1, j2

MCJobs == {j1, j2}

MCRequests == MCJobs \X {"debit", "credit", "debt"}

MCReferences == MCJobs \X {"debit", "credit"}

MCTerms == {[method |-> "IN_APP", incentive |-> 2], [method |-> "CASH", incentive |-> 19]}

MCOpening == [u \in {poster, executor} |-> IF u = poster THEN 3 ELSE 0]
=============================================================================
