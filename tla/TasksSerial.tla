----------------------------- MODULE TasksSerial -----------------------------
(***************************************************************************)
(* The conditions under which the task handlers do implement the board.    *)
(* The code enforces neither; the free specification of Tasks shows what   *)
(* happens without them.                                                   *)
(***************************************************************************)
EXTENDS Tasks

Board == INSTANCE TaskBoard

(* No two requests for the same task are in progress at a time. *)
OneRequestPerTask == \A j, k \in Jobs :
  job[j] # NoJob /\ job[k] # NoJob /\ job[j].id = job[k].id => j = k

(* A lookup by user alone finds no task but the one the request names.  It *)
(* is so while nobody has two accepted, or two ongoing, tasks.             *)
LookupsFindNamedTask == \A j \in Jobs : job[j] = NoJob /\ job'[j] # NoJob =>
  \A x \in Tasks : Matches(job'[j].op, job'[j].user, job'[j].id, x) => x = job'[j].id

SerialNext == Next /\ OneRequestPerTask' /\ LookupsFindNamedTask

SerialSpec == Init /\ [][SerialNext]_taskVars

(* Orderly requests make the two-step handlers behave as atomic ones. *)
RefinesBoard == Board!Spec
=============================================================================
