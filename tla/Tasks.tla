-------------------------------- MODULE Tasks --------------------------------
(***************************************************************************)
(* TasksService: the life of an errand from its posting to its             *)
(* acknowledgement.                                                        *)
(*                                                                         *)
(* Every handler that changes a task works in two database operations: a   *)
(* findOne with the handler's conditions, and an update of the task named  *)
(* in the request which repeats none of them.  Handlers of different       *)
(* requests interleave between the two.  The lookups of declineTask,       *)
(* startTask and completeTask do not mention the task's id, so any         *)
(* document that fits may be the one they find.                            *)
(***************************************************************************)
CONSTANTS
  Users,   \* posters and executors
  Tasks,   \* task ids
  Jobs,    \* slots for requests in progress: at most this many at a time
  Ops,     \* the handlers that clients call (a bound)
  Terms,   \* what is paid for a task and how (incentive and payment_method)
  None     \* an absent value

Handlers == {"accept", "cancel", "decline", "start", "complete", "acknowledge", "edit"}

ASSUME TasksAssumption ==
  /\ None \notin Users \cup Terms \cup Handlers
  /\ Ops \subseteq Handlers

VARIABLES
  task,     \* the task documents by id
  job,      \* the request in each slot
  finished, \* history: the tasks that were ever in status "finished"
  crossed   \* history: the tasks for which two requests were in progress at a time,
            \* or for which a lookup has found another task than the named one

taskVars == <<task, job, finished, crossed>>

Statuses == {"accepted", "declined", "pending", "ongoing", "finished", "completed", "canceled"}

NoTask == [status |-> "absent", poster |-> None, acceptedBy |-> None,
           declinedBy |-> {}, terms |-> None]

Doc == [status : Statuses, poster : Users, acceptedBy : Users \cup {None},
        declinedBy : SUBSET Users, terms : Terms]

Unread == [acceptedBy |-> None, declinedBy |-> {}, terms |-> None]

Found == [acceptedBy : Users \cup {None}, declinedBy : SUBSET Users, terms : Terms \cup {None}]

Request == [op : Ops, user : Users, id : Tasks, found : Found, terms : Terms \cup {None}]

NoJob == [op |-> None, user |-> None, id |-> None,
          found |-> Unread, terms |-> None]

Init ==
  /\ task = [t \in Tasks |-> NoTask]
  /\ job = [j \in Jobs |-> NoJob]
  /\ finished = {}
  /\ crossed = {}

(***************************************************************************)
(* The conditions of each handler's findOne, for user u and the request's  *)
(* task id, on the document x.                                             *)
(***************************************************************************)
(* Mutants of the conditions: *)
AcceptsOwn(u, id, x)         == x = id /\ task[x].status \in {"pending", "declined"}
CancelsOngoing(u, id, x)     == x = id /\ task[x].poster = u
CompletesAccepted(u, id, x)  == task[x].poster # u /\ task[x].acceptedBy = u
AcknowledgesAgain(u, id, x)  == x = id /\ task[x].poster = u /\ task[x].status \in {"finished", "completed"}
AcknowledgesEarly(u, id, x)  == x = id /\ task[x].poster = u /\ task[x].status \in {"ongoing", "finished"}

MatchesAccept(u, id, x)      == x = id /\ task[x].poster # u /\ task[x].status \in {"pending", "declined"}
MatchesCancel(u, id, x)      == x = id /\ task[x].poster = u /\ task[x].status # "ongoing"
MatchesDecline(u, id, x)     == u \in {task[x].acceptedBy, task[x].poster} /\ task[x].status = "accepted"
MatchesStart(u, id, x)       == task[x].poster # u /\ task[x].acceptedBy = u /\ task[x].status = "accepted"
MatchesComplete(u, id, x)    == task[x].poster # u /\ task[x].acceptedBy = u /\ task[x].status = "ongoing"
MatchesAcknowledge(u, id, x) == x = id /\ task[x].poster = u /\ task[x].status = "finished"
MatchesEdit(u, id, x)        == x = id /\ task[x].poster = u

Matches(op, u, id, x) ==
  /\ task[x] # NoTask
  /\ CASE op = "accept"      -> MatchesAccept(u, id, x)
       [] op = "cancel"      -> MatchesCancel(u, id, x)
       [] op = "decline"     -> MatchesDecline(u, id, x)
       [] op = "start"       -> MatchesStart(u, id, x)
       [] op = "complete"    -> MatchesComplete(u, id, x)
       [] op = "acknowledge" -> MatchesAcknowledge(u, id, x)
       [] op = "edit"        -> MatchesEdit(u, id, x)

-----------------------------------------------------------------------------
(* create: one insert; the status is the schema's default. *)
Post(u, t, terms) ==
  /\ task[t] = NoTask
  /\ task' = [task EXCEPT ![t] = [status |-> "pending", poster |-> u, acceptedBy |-> None,
                                  declinedBy |-> {}, terms |-> terms]]
  /\ UNCHANGED <<job, finished, crossed>>

(* What a handler goes on to read of the document it found. *)
Remembered(op, doc) ==
  CASE op = "decline"     -> [Unread EXCEPT !.declinedBy = doc.declinedBy]
    [] op = "acknowledge" -> [Unread EXCEPT !.acceptedBy = doc.acceptedBy, !.terms = doc.terms]
    [] OTHER              -> Unread

(* A request arrives and its lookup finds some document that fits.  When   *)
(* none does the handler throws NotFoundException and nothing changes.     *)
(* Only an edit carries new terms.                                         *)
Find(j, op, u, id, terms) ==
  /\ job[j] = NoJob
  /\ (op = "edit") <=> (terms # None)
  /\ \E x \in Tasks :
       /\ Matches(op, u, id, x)
       /\ job' = [job EXCEPT ![j] = [op |-> op, user |-> u, id |-> id,
                                     found |-> Remembered(op, task[x]), terms |-> terms]]
       /\ crossed' = IF x # id \/ \E k \in Jobs : job[k].id = id
                      THEN crossed \cup {id} ELSE crossed
  /\ UNCHANGED <<task, finished>>

Updating(j, op) == job[j].op = op

(* updateOne by id: writes the document, whatever it is by now, and changes *)
(* nothing when there is none.  The request ends with it.                   *)
Write(j, doc) ==
  /\ task' = IF task[job[j].id] = NoTask THEN task ELSE [task EXCEPT ![job[j].id] = doc]
  /\ job' = [job EXCEPT ![j] = NoJob]
  /\ UNCHANGED crossed

Accept(j) ==
  /\ Updating(j, "accept")
  /\ Write(j, [task[job[j].id] EXCEPT !.status = "accepted", !.acceptedBy = job[j].user])
  /\ UNCHANGED finished

Cancel(j) ==
  /\ Updating(j, "cancel")
  /\ Write(j, [task[job[j].id] EXCEPT !.status = "canceled"])
  /\ UNCHANGED finished

DeclineReopens(j) ==        \* mutant: a declined task is offered as pending again
  /\ Updating(j, "decline")
  /\ Write(j, [task[job[j].id] EXCEPT !.status = "pending",
                 !.declinedBy = job[j].found.declinedBy \cup {job[j].user}])
  /\ UNCHANGED finished

(* The decliner is added to the list of the document that was found. *)
Decline(j) ==
  /\ Updating(j, "decline")
  /\ Write(j, [task[job[j].id] EXCEPT !.status = "declined",
                 !.declinedBy = job[j].found.declinedBy \cup {job[j].user}])
  /\ UNCHANGED finished

Start(j) ==
  /\ Updating(j, "start")
  /\ Write(j, [task[job[j].id] EXCEPT !.status = "ongoing"])
  /\ UNCHANGED finished

Complete(j) ==
  /\ Updating(j, "complete")
  /\ Write(j, [task[job[j].id] EXCEPT !.status = "finished"])
  /\ finished' = IF task[job[j].id] = NoTask THEN finished ELSE finished \cup {job[j].id}

(* The status part of acknowledgeTask; what is paid for it follows, see    *)
(* Settlement.                                                             *)
Acknowledge(j) ==
  /\ Updating(j, "acknowledge")
  /\ Write(j, [task[job[j].id] EXCEPT !.status = "completed"])
  /\ UNCHANGED finished

(* update: the poster may change the terms in any status. *)
Edit(j) ==
  /\ Updating(j, "edit")
  /\ Write(j, [task[job[j].id] EXCEPT !.terms = job[j].terms])
  /\ UNCHANGED finished

(* The process dies, or a database operation fails: the handler ends here. *)
Abort(j) ==
  /\ job[j] # NoJob
  /\ job' = [job EXCEPT ![j] = NoJob]
  /\ UNCHANGED <<task, finished, crossed>>

(* The handlers that pay for nothing, and the one that does. *)
HandleUnpaid(j) ==
  \/ Accept(j) \/ Cancel(j) \/ Decline(j) \/ Start(j)
  \/ Complete(j) \/ Edit(j)

Handle(j) == HandleUnpaid(j) \/ Acknowledge(j)

Next ==
  \/ \E u \in Users, t \in Tasks :
       \/ \E terms \in Terms : Post(u, t, terms)
       \/ \E j \in Jobs, op \in Ops, terms \in Terms \cup {None} : Find(j, op, u, t, terms)
  \/ \E j \in Jobs : Handle(j) \/ Abort(j)

Spec == Init /\ [][Next]_taskVars

-----------------------------------------------------------------------------
(* Documents fit the schema, and a slot holds a request or nothing. *)
TypeOK ==
  /\ task \in [Tasks -> Doc \cup {NoTask}]
  /\ job \in [Jobs -> Request \cup {NoJob}]
  /\ finished \subseteq Tasks
  /\ crossed \subseteq Tasks

(* Nobody executes an errand of their own, whatever raced with the accept. *)
AssigneeIsNotPoster == \A t \in Tasks :
  task[t] # NoTask => task[t].acceptedBy # task[t].poster

(* A task that someone can still find among the pending ones has never     *)
(* been touched: no interleaving takes a task back to pending.             *)
PendingIsUntouched == \A t \in Tasks : task[t].status = "pending" =>
  task[t].acceptedBy = None /\ task[t].declinedBy = {} /\ t \notin finished

(* A task is completed, and so paid for, only after an executor reported   *)
(* it finished: also when the acknowledgement writes over later changes.   *)
CompletedWasFinished == \A t \in Tasks : task[t].status = "completed" => t \in finished

(* What goes wrong in the life of a task takes two requests that cross: as *)
(* long as they come one at a time and each finds the task it names, only  *)
(* the report of a known executor ends the work on a task, what is over is *)
(* not taken up again, and no refusal is forgotten.                        *)
OrderlyLife == [][\A t \in Tasks \ crossed :
  /\ task[t].status = "ongoing" => task'[t].status \in {"ongoing", "finished"}
  /\ task[t].status # "finished" /\ task'[t].status = "finished" =>
       task[t].status = "ongoing" /\ task[t].acceptedBy # None
  /\ task[t].status \in {"completed", "canceled"} => task'[t].status \in {task[t].status, "canceled"}
  /\ task[t].declinedBy \subseteq task'[t].declinedBy]_taskVars

(* acceptTask finds "the task that is not already accepted": a task changes *)
(* hands only while it is open.                                             *)
AcceptTakesOpenTask == [][\A t \in Tasks :
  task'[t].acceptedBy # task[t].acceptedBy => task[t].status \in {"pending", "declined"}]_taskVars
=============================================================================
