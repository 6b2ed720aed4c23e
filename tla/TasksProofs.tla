----------------------------- MODULE TasksProofs -----------------------------
(***************************************************************************)
(* Proofs about the task handlers and about the views of tasks, for any     *)
(* users, tasks, terms and number of requests in progress, whatever the     *)
(* interleaving of their lookups and updates.                               *)
(***************************************************************************)
EXTENDS TasksSerial, TaskViews, FiniteSetTheorems, TLAPS

(***************************************************************************)
(* What a request keeps of its lookup and is still true when it updates:    *)
(* an acceptance is by somebody other than the poster, since the poster of  *)
(* a task never changes; and an acknowledgement found a finished task.      *)
(***************************************************************************)
AcceptedByOther == \A j \in Jobs : job[j].op = "accept" =>
  /\ task[job[j].id] # NoTask
  /\ job[j].user # task[job[j].id].poster

AcknowledgesFinished == \A j \in Jobs : job[j].op = "acknowledge" => job[j].id \in finished

EditBringsTerms == \A j \in Jobs : job[j].op = "edit" => job[j].terms \in Terms

FinishedIsNoted == \A t \in Tasks :
  /\ task[t].status = "finished" => t \in finished
  /\ t \in finished => task[t] # NoTask

TInv ==
  /\ TypeOK
  /\ AssigneeIsNotPoster
  /\ PendingIsUntouched
  /\ CompletedWasFinished
  /\ AcceptedByOther
  /\ AcknowledgesFinished
  /\ EditBringsTerms
  /\ FinishedIsNoted

(* Jobs in progress name a handler and a task. *)
LEMMA JobShape ==
  ASSUME TypeOK, NEW j \in Jobs, job[j].op \in Handlers
  PROVE  job[j].id \in Tasks /\ job[j].user \in Users
BY TasksAssumption DEF TypeOK, Request, NoJob, Handlers

(* What a lookup keeps of a document fits the slot. *)
LEMMA RememberedFits ==
  ASSUME NEW op \in Handlers, NEW d \in Doc
  PROVE  Remembered(op, d) \in Found
BY DEF Remembered, Unread, Found, Doc, Handlers

(* A task that was there stays, with its poster, through any write by id. *)
LEMMA WriteShape ==
  ASSUME TypeOK, NEW j \in Jobs, job[j].id \in Tasks, NEW doc \in Doc, Write(j, doc)
  PROVE  /\ job' = [job EXCEPT ![j] = NoJob]
         /\ task[job[j].id] = NoTask => task' = task
         /\ task[job[j].id] # NoTask => task'[job[j].id] = doc
         /\ \A t \in Tasks \ {job[j].id} : task'[t] = task[t]
         /\ task' \in [Tasks -> Doc \cup {NoTask}]
BY DEF Write, TypeOK

(* A posted task is new, with a poster and no executor. *)
LEMMA PostKeeps ==
  ASSUME TInv, NEW u \in Users, NEW t \in Tasks, NEW terms \in Terms, Post(u, t, terms)
  PROVE  TInv'
<1> DEFINE new == [status |-> "pending", poster |-> u, acceptedBy |-> None,
                   declinedBy |-> {}, terms |-> terms]
<1>1. /\ task[t] = NoTask
      /\ task'[t] = new
      /\ \A x \in Tasks \ {t} : task'[x] = task[x]
      /\ new \in Doc /\ new # NoTask
      /\ task' \in [Tasks -> Doc \cup {NoTask}]
      /\ job' = job /\ finished' = finished /\ crossed' = crossed
  BY DEF Post, TInv, TypeOK, Doc, NoTask, Statuses
<1>2. TypeOK'
  BY <1>1 DEF TInv, TypeOK
<1>3. AssigneeIsNotPoster' /\ PendingIsUntouched' /\ CompletedWasFinished' /\ FinishedIsNoted'
  <2>1. t \notin finished
    BY <1>1 DEF TInv, FinishedIsNoted
  <2> QED
    BY <1>1, <2>1, TasksAssumption DEF TInv, AssigneeIsNotPoster, PendingIsUntouched, CompletedWasFinished, FinishedIsNoted
<1>4. AcceptedByOther' /\ AcknowledgesFinished' /\ EditBringsTerms'
  BY <1>1, JobShape DEF TInv, AcceptedByOther, AcknowledgesFinished, EditBringsTerms, Handlers
<1> QED
  BY <1>2, <1>3, <1>4 DEF TInv

(* A lookup leaves the documents alone and remembers what its handler       *)
(* relies on.                                                               *)
LEMMA FindKeeps ==
  ASSUME TInv, NEW j \in Jobs, NEW op \in Ops, NEW u \in Users, NEW t \in Tasks,
         NEW terms \in Terms \cup {None}, Find(j, op, u, t, terms)
  PROVE  TInv'
<1>1. PICK x \in Tasks :
        /\ Matches(op, u, t, x)
        /\ job' = [job EXCEPT ![j] = [op |-> op, user |-> u, id |-> t,
                                      found |-> Remembered(op, task[x]), terms |-> terms]]
  BY DEF Find
<1>2. task' = task /\ finished' = finished /\ (TypeOK => crossed' \subseteq Tasks)
  BY DEF Find, TypeOK
<1>3. op \in Handlers /\ task[x] \in Doc
  BY <1>1, TasksAssumption DEF Matches, TInv, TypeOK
<1>4. /\ job'[j] = [op |-> op, user |-> u, id |-> t, found |-> Remembered(op, task[x]), terms |-> terms]
      /\ \A i \in Jobs \ {j} : job'[i] = job[i]
  BY <1>1 DEF TInv, TypeOK, Find
<1>5. TypeOK'
  BY <1>1, <1>2, <1>3, RememberedFits DEF TInv, TypeOK, Request
<1>6. AcceptedByOther'
  <2>1. op = "accept" => t = x /\ task[x] # NoTask /\ task[x].poster # u
    BY <1>1 DEF Matches, MatchesAccept
  <2>2. ASSUME NEW i \in Jobs, job'[i].op = "accept"
        PROVE  task'[job'[i].id] # NoTask /\ job'[i].user # task'[job'[i].id].poster
    BY <1>2, <1>4, <2>1, <2>2 DEF TInv, AcceptedByOther
  <2> QED
    BY <2>2 DEF AcceptedByOther
<1>7. AcknowledgesFinished'
  <2>1. op = "acknowledge" => t = x /\ task[x].status = "finished"
    BY <1>1 DEF Matches, MatchesAcknowledge
  <2>2. ASSUME NEW i \in Jobs, job'[i].op = "acknowledge"
        PROVE  job'[i].id \in finished'
    BY <1>2, <1>4, <2>1, <2>2 DEF TInv, AcknowledgesFinished, FinishedIsNoted
  <2> QED
    BY <2>2 DEF AcknowledgesFinished
<1>8. EditBringsTerms'
  BY <1>4, TasksAssumption DEF Find, TInv, EditBringsTerms
<1> QED
  BY <1>2, <1>5, <1>6, <1>7, <1>8 DEF TInv, AssigneeIsNotPoster, PendingIsUntouched, CompletedWasFinished, FinishedIsNoted

(* Each update writes a document that keeps the poster of the one that is   *)
(* there; the slot becomes free, and the others keep what they know.        *)
LEMMA HandleKeeps ==
  ASSUME TInv, NEW j \in Jobs, Handle(j)
  PROVE  TInv'
<1> DEFINE t == job[j].id
<1>1. job[j].op \in Handlers /\ t \in Tasks /\ job[j].user \in Users
  <2>1. job[j].op \in Handlers
    BY DEF Handle, HandleUnpaid, Accept, Cancel, Decline, Start, Complete, Acknowledge, Edit, Updating, Handlers
  <2> QED
    BY <2>1, JobShape DEF TInv
<1>2. job[j] \in Request /\ job[j].terms \in Terms \cup {None} /\ job[j].found \in Found
  BY <1>1, TasksAssumption DEF TInv, TypeOK, NoJob, Request
<1>3. job' = [job EXCEPT ![j] = NoJob] /\ crossed' = crossed
  BY DEF Handle, HandleUnpaid, Accept, Cancel, Decline, Start, Complete, Acknowledge, Edit, Write
<1>4. \A x \in Tasks \ {t} : task'[x] = task[x]
  BY <1>1 DEF Handle, HandleUnpaid, Accept, Cancel, Decline, Start, Complete, Acknowledge, Edit, Write, TInv, TypeOK
<1>5. task[t] = NoTask => task' = task /\ finished' = finished
  BY <1>1 DEF Handle, HandleUnpaid, Accept, Cancel, Decline, Start, Complete, Acknowledge, Edit, Write
<1>6. /\ \A i \in Jobs \ {j} : job'[i] = job[i]
      /\ job'[j] = NoJob
      /\ job' \in [Jobs -> Request \cup {NoJob}]
  BY <1>3 DEF TInv, TypeOK
<1>7. CASE task[t] = NoTask
  <2>1. AcceptedByOther' /\ AcknowledgesFinished' /\ EditBringsTerms'
    BY <1>5, <1>6, <1>7, TasksAssumption DEF TInv, AcceptedByOther, AcknowledgesFinished, EditBringsTerms, NoJob, Handlers
  <2> QED
    BY <1>3, <1>5, <1>6, <1>7, <2>1 DEF TInv, TypeOK, AssigneeIsNotPoster, PendingIsUntouched,
      CompletedWasFinished, FinishedIsNoted
<1>8. CASE task[t] # NoTask
  <2>1. task[t] \in Doc
    BY <1>1, <1>8 DEF TInv, TypeOK
  <2>2. /\ task'[t] \in Doc
        /\ task'[t].poster = task[t].poster
        /\ task'[t].acceptedBy # task'[t].poster
        /\ task'[t].status = "pending" => /\ task[t].status = "pending"
                                          /\ task'[t].acceptedBy = task[t].acceptedBy
                                          /\ task'[t].declinedBy = task[t].declinedBy
                                          /\ finished' = finished
        /\ task'[t].status = "completed" => t \in finished'
        /\ task'[t].status = "finished" => t \in finished'
        /\ finished \subseteq finished' /\ finished' \subseteq finished \cup {t}
    <3>1. CASE Accept(j)
      BY <1>1, <1>8, <2>1, <3>1 DEF Accept, Updating, Write, TInv, TypeOK, AcceptedByOther,
        Doc, Statuses
    <3>2. CASE Cancel(j)
      BY <1>1, <1>8, <2>1, <3>2 DEF Cancel, Write, TInv, TypeOK, AssigneeIsNotPoster, Doc, Statuses
    <3>3. CASE Decline(j)
      BY <1>1, <1>2, <1>8, <2>1, <3>3 DEF Decline, Write, TInv, TypeOK, AssigneeIsNotPoster,
        Doc, Statuses, Found
    <3>4. CASE Start(j)
      BY <1>1, <1>8, <2>1, <3>4 DEF Start, Write, TInv, TypeOK, AssigneeIsNotPoster, Doc, Statuses
    <3>5. CASE Complete(j)
      BY <1>1, <1>8, <2>1, <3>5 DEF Complete, Write, TInv, TypeOK, AssigneeIsNotPoster, Doc, Statuses
    <3>6. CASE Acknowledge(j)
      BY <1>1, <1>8, <2>1, <3>6 DEF Acknowledge, Updating, Write, TInv, TypeOK,
        AssigneeIsNotPoster, AcknowledgesFinished, Doc, Statuses
    <3>7. CASE Edit(j)
      BY <1>1, <1>2, <1>8, <2>1, <3>7 DEF Edit, Updating, Write, TInv, TypeOK, AssigneeIsNotPoster,
        CompletedWasFinished, FinishedIsNoted, EditBringsTerms, Doc, Statuses
    <3> QED
      BY <3>1, <3>2, <3>3, <3>4, <3>5, <3>6, <3>7 DEF Handle, HandleUnpaid
  <2>3. task' \in [Tasks -> Doc \cup {NoTask}]
    BY <1>1, <1>4, <2>2 DEF Handle, HandleUnpaid, Accept, Cancel, Decline, Start, Complete, Acknowledge, Edit,
      Write, TInv, TypeOK
  <2>4. \A d \in Doc : d # NoTask
    BY DEF Doc, NoTask, Statuses
  <2>5. TypeOK'
    BY <1>1, <1>3, <1>6, <2>2, <2>3 DEF TInv, TypeOK
  <2>6. AssigneeIsNotPoster' /\ PendingIsUntouched' /\ CompletedWasFinished' /\ FinishedIsNoted'
    BY <1>1, <1>4, <2>2, <2>4 DEF TInv, AssigneeIsNotPoster, PendingIsUntouched,
      CompletedWasFinished, FinishedIsNoted
  <2>7. \A i \in Jobs : job'[i].op \in Handlers => job'[i] = job[i] /\ job[i].id \in Tasks
    BY <1>6, JobShape, TasksAssumption DEF TInv, NoJob
  <2>8. AcceptedByOther' /\ AcknowledgesFinished' /\ EditBringsTerms'
    BY <1>4, <2>2, <2>4, <2>7 DEF TInv, AcceptedByOther, AcknowledgesFinished, EditBringsTerms, Handlers
  <2> QED
    BY <2>5, <2>6, <2>8 DEF TInv
<1> QED
  BY <1>7, <1>8

(* A handler that ends early changes nothing but its slot. *)
LEMMA AbortKeeps ==
  ASSUME TInv, NEW j \in Jobs, Abort(j)
  PROVE  TInv'
BY TasksAssumption DEF Abort, NoJob, Handlers, TInv, TypeOK, AssigneeIsNotPoster, PendingIsUntouched,
  CompletedWasFinished, AcceptedByOther, AcknowledgesFinished, EditBringsTerms, FinishedIsNoted

(* The inductive invariant holds in every reachable state: each lookup and  *)
(* each update of each handler keeps it.                                    *)
THEOREM TasksInvariantHolds == Spec => []TInv
<1>1. Init => TInv
  BY TasksAssumption DEF Init, NoTask, NoJob, Handlers, TInv, TypeOK, AssigneeIsNotPoster,
    PendingIsUntouched, CompletedWasFinished, AcceptedByOther, AcknowledgesFinished, EditBringsTerms, FinishedIsNoted
<1>2. TInv /\ [Next]_taskVars => TInv'
  <2>1. TInv /\ Next => TInv'
    BY PostKeeps, FindKeeps, HandleKeeps, AbortKeeps DEF Next
  <2>2. TInv /\ UNCHANGED taskVars => TInv'
    BY DEF taskVars, TInv, TypeOK, AssigneeIsNotPoster, PendingIsUntouched,
      CompletedWasFinished, AcceptedByOther, AcknowledgesFinished, EditBringsTerms, FinishedIsNoted
  <2> QED
    BY <2>1, <2>2
<1> QED
  BY <1>1, <1>2, PTL DEF Spec

-----------------------------------------------------------------------------
(* Documents keep to the schema, and slots hold requests. *)
THEOREM TasksTypeCorrect == Spec => []TypeOK
BY TasksInvariantHolds, PTL DEF TInv

(* Nobody executes an errand of their own: acceptTask's lookup is enough,   *)
(* although its update repeats no condition, because no handler changes     *)
(* the poster.                                                              *)
THEOREM NobodyServesThemselves == Spec => []AssigneeIsNotPoster
BY TasksInvariantHolds, PTL DEF TInv

(* No handler takes a task back to pending, whichever update comes last. *)
THEOREM PendingStaysUntouched == Spec => []PendingIsUntouched
BY TasksInvariantHolds, PTL DEF TInv

(* What is completed, and so paid for, was reported finished before. *)
THEOREM CompletedAfterFinished == Spec => []CompletedWasFinished
BY TasksInvariantHolds, PTL DEF TInv

-----------------------------------------------------------------------------
(* Orderly requests, as TasksSerial describes them. *)

(* What a handler's lookup says of the document that it found. *)
Fits(op, u, doc) ==
  /\ doc # NoTask
  /\ op = "accept"      => doc.poster # u /\ doc.status \in {"pending", "declined"}
  /\ op = "cancel"      => doc.poster = u /\ doc.status # "ongoing"
  /\ op = "decline"     => u \in {doc.acceptedBy, doc.poster} /\ doc.status = "accepted"
  /\ op = "start"       => doc.acceptedBy = u /\ doc.status = "accepted"
  /\ op = "complete"    => doc.acceptedBy = u /\ doc.status = "ongoing"
  /\ op = "acknowledge" => doc.poster = u /\ doc.status = "finished"
  /\ op = "edit"        => doc.poster = u

LEMMA FoundFits ==
  ASSUME NEW op \in Handlers, NEW u, NEW id, NEW x, Matches(op, u, id, x)
  PROVE  Fits(op, u, task[x])
BY DEF Handlers, Fits, Matches, MatchesAccept, MatchesCancel, MatchesDecline, MatchesStart,
  MatchesComplete, MatchesAcknowledge, MatchesEdit

(* It is still so when the handler updates. *)
LookupsHold == \A j \in Jobs : job[j] # NoJob =>
  /\ Fits(job[j].op, job[j].user, task[job[j].id])
  /\ job[j].op = "decline" => job[j].found.declinedBy = task[job[j].id].declinedBy

SerialInv == TInv /\ OneRequestPerTask /\ LookupsHold

LEMMA NextKeeps ==
  ASSUME TInv, Next
  PROVE  TInv'
BY PostKeeps, FindKeeps, HandleKeeps, AbortKeeps DEF Next

(* A request in a slot names a handler, a user and a task. *)
LEMMA SlotShape ==
  ASSUME TypeOK, NEW j \in Jobs, job[j] # NoJob
  PROVE  /\ job[j].op \in Handlers /\ job[j].id \in Tasks /\ job[j].user \in Users
         /\ job[j].op \in Ops
BY TasksAssumption DEF TypeOK, Request

(* An update touches the task that its request names and frees the slot. *)
LEMMA HandleMoves ==
  ASSUME TInv, NEW j \in Jobs, Handle(j)
  PROVE  /\ job[j] # NoJob /\ job'[j] = NoJob
         /\ \A i \in Jobs \ {j} : job'[i] = job[i]
         /\ \A t \in Tasks \ {job[j].id} : task'[t] = task[t]
<1>1. job[j].op \in Handlers
  BY DEF Handle, HandleUnpaid, Accept, Cancel, Decline, Start, Complete, Acknowledge, Edit, Updating, Handlers
<1>2. job[j] # NoJob /\ job[j].id \in Tasks
  BY <1>1, JobShape, TasksAssumption DEF TInv, NoJob
<1>3. job' = [job EXCEPT ![j] = NoJob]
  BY DEF Handle, HandleUnpaid, Accept, Cancel, Decline, Start, Complete, Acknowledge, Edit, Write
<1>4. \A t \in Tasks \ {job[j].id} : task'[t] = task[t]
  BY <1>2 DEF Handle, HandleUnpaid, Accept, Cancel, Decline, Start, Complete, Acknowledge, Edit, Write, TInv, TypeOK
<1> QED
  BY <1>2, <1>3, <1>4 DEF TInv, TypeOK

LEMMA LookupsHoldStill ==
  ASSUME SerialInv, SerialNext
  PROVE  LookupsHold'
<1>1. Next /\ TInv /\ TypeOK /\ LookupsHold /\ OneRequestPerTask
  BY DEF SerialNext, SerialInv, TInv
(* A request that goes on keeps what it found if its task is left alone. *)
<1>2. ASSUME NEW j \in Jobs, job'[j] # NoJob, job'[j] = job[j], task'[job[j].id] = task[job[j].id]
      PROVE  /\ Fits(job'[j].op, job'[j].user, task'[job'[j].id])
             /\ job'[j].op = "decline" => job'[j].found.declinedBy = task'[job'[j].id].declinedBy
  BY <1>1, <1>2 DEF LookupsHold
<1>3. CASE \E u \in Users, t \in Tasks, terms \in Terms : Post(u, t, terms)
  <2>1. PICK t \in Tasks : task[t] = NoTask /\ \A x \in Tasks \ {t} : task'[x] = task[x]
    BY <1>1, <1>3 DEF Post, TypeOK
  <2>2. job' = job
    BY <1>3 DEF Post
  <2>3. \A j \in Jobs : job[j] # NoJob => job[j].id \in Tasks /\ job[j].id # t
    BY <1>1, <2>1, SlotShape DEF LookupsHold, Fits
  <2> QED
    BY <1>2, <2>1, <2>2, <2>3 DEF LookupsHold
<1>4. CASE \E u \in Users, t \in Tasks, j \in Jobs, op \in Ops, terms \in Terms \cup {None} :
             Find(j, op, u, t, terms)
  <2>1. PICK u \in Users, t \in Tasks, j \in Jobs, op \in Ops, terms \in Terms \cup {None} :
             Find(j, op, u, t, terms)
    BY <1>4
  <2>2. PICK x \in Tasks :
          /\ Matches(op, u, t, x)
          /\ job' = [job EXCEPT ![j] = [op |-> op, user |-> u, id |-> t,
                                        found |-> Remembered(op, task[x]), terms |-> terms]]
    BY <2>1 DEF Find
  <2>3. task' = task /\ job[j] = NoJob /\ op \in Handlers
    BY <2>1, TasksAssumption DEF Find
  <2>4. /\ job'[j] = [op |-> op, user |-> u, id |-> t, found |-> Remembered(op, task[x]), terms |-> terms]
        /\ \A i \in Jobs \ {j} : job'[i] = job[i]
    BY <1>1, <2>2 DEF TypeOK
  <2>5. job'[j] # NoJob
    BY <2>3, <2>4, TasksAssumption DEF NoJob
  <2>6. x = t
    BY <2>2, <2>3, <2>4, <2>5 DEF SerialNext, LookupsFindNamedTask
  <2>7. Fits(op, u, task[t])
    BY <2>2, <2>3, <2>6, FoundFits
  <2>8. op = "decline" => Remembered(op, task[x]).declinedBy = task[t].declinedBy
    BY <2>6 DEF Remembered, Unread
  <2>9. /\ Fits(job'[j].op, job'[j].user, task'[job'[j].id])
        /\ job'[j].op = "decline" => job'[j].found.declinedBy = task'[job'[j].id].declinedBy
    BY <2>3, <2>4, <2>7, <2>8
  <2> QED
    BY <1>2, <2>3, <2>4, <2>9 DEF LookupsHold
<1>5. CASE \E j \in Jobs : Handle(j)
  <2>1. PICK j \in Jobs : Handle(j)
    BY <1>5
  <2>2. ASSUME NEW i \in Jobs, job'[i] # NoJob
        PROVE  job'[i] = job[i] /\ task'[job[i].id] = task[job[i].id]
    <3>1. i # j /\ job'[i] = job[i] /\ job[j] # NoJob
      BY <1>1, <2>1, <2>2, HandleMoves
    <3>2. job[i].id # job[j].id /\ job[i].id \in Tasks
      BY <1>1, <2>2, <3>1, SlotShape DEF OneRequestPerTask
    <3> QED
      BY <1>1, <2>1, <3>1, <3>2, HandleMoves
  <2> QED
    BY <1>2, <2>2 DEF LookupsHold
<1>6. CASE \E j \in Jobs : Abort(j)
  <2>1. task' = task /\ \A i \in Jobs : job'[i] # NoJob => job'[i] = job[i]
    BY <1>1, <1>6 DEF Abort, TypeOK
  <2> QED
    BY <1>2, <2>1 DEF LookupsHold
<1> QED
  BY <1>1, <1>3, <1>4, <1>5, <1>6 DEF Next

(* The update of an orderly request is one step of the board. *)
LEMMA HandleIsBoardStep ==
  ASSUME SerialInv, NEW j \in Jobs, Handle(j)
  PROVE  Board!Next
<1> DEFINE t == job[j].id
           u == job[j].user
<1>1. /\ TypeOK /\ TInv
      /\ job[j] # NoJob /\ t \in Tasks /\ u \in Users
      /\ Fits(job[j].op, u, task[t])
      /\ job[j].op = "decline" => job[j].found.declinedBy = task[t].declinedBy
  BY HandleMoves, SlotShape DEF SerialInv, TInv, LookupsHold
<1>2. task[t] \in Doc
  BY <1>1 DEF TypeOK, Fits
<1>3. ASSUME NEW doc, Write(j, doc)
      PROVE  task' = [task EXCEPT ![t] = doc]
  BY <1>1, <1>3 DEF Write, Fits
<1>4. CASE Accept(j)
  <2>1. task' = [task EXCEPT ![t] = [task[t] EXCEPT !.status = "accepted", !.acceptedBy = u]]
    BY <1>3, <1>4 DEF Accept
  <2>2. Board!Accept(u, t)
    BY <1>1, <1>2, <1>4, <2>1 DEF Accept, Updating, Fits, Board!Accept, TypeOK
  <2> QED
    BY <1>1, <2>2 DEF Board!Next
<1>5. CASE Cancel(j)
  <2>1. task' = [task EXCEPT ![t] = [task[t] EXCEPT !.status = "canceled"]]
    BY <1>3, <1>5 DEF Cancel
  <2>2. Board!Cancel(u, t)
    BY <1>1, <1>2, <1>5, <2>1 DEF Cancel, Updating, Fits, Board!Cancel, Board!Moves, TypeOK,
      Doc, Statuses
  <2> QED
    BY <1>1, <2>2 DEF Board!Next
<1>6. CASE Decline(j)
  <2>1. task' = [task EXCEPT ![t] = [task[t] EXCEPT !.status = "declined",
                                       !.declinedBy = job[j].found.declinedBy \cup {u}]]
    BY <1>3, <1>6 DEF Decline
  <2>2. Board!Decline(u, t)
    BY <1>1, <1>2, <1>6, <2>1 DEF Decline, Updating, Fits, Board!Decline, TypeOK
  <2> QED
    BY <1>1, <2>2 DEF Board!Next
<1>7. CASE Start(j)
  <2>1. task' = [task EXCEPT ![t] = [task[t] EXCEPT !.status = "ongoing"]]
    BY <1>3, <1>7 DEF Start
  <2>2. Board!Start(u, t)
    BY <1>1, <1>2, <1>7, <2>1 DEF Start, Updating, Fits, Board!Start, Board!Moves, TypeOK
  <2> QED
    BY <1>1, <2>2 DEF Board!Next
<1>8. CASE Complete(j)
  <2>1. task' = [task EXCEPT ![t] = [task[t] EXCEPT !.status = "finished"]]
    BY <1>3, <1>8 DEF Complete
  <2>2. Board!Complete(u, t)
    BY <1>1, <1>2, <1>8, <2>1 DEF Complete, Updating, Fits, Board!Complete, Board!Moves, TypeOK
  <2> QED
    BY <1>1, <2>2 DEF Board!Next
<1>9. CASE Acknowledge(j)
  <2>1. task' = [task EXCEPT ![t] = [task[t] EXCEPT !.status = "completed"]]
    BY <1>3, <1>9 DEF Acknowledge
  <2>2. Board!Acknowledge(u, t)
    BY <1>1, <1>2, <1>9, <2>1 DEF Acknowledge, Updating, Fits, Board!Acknowledge, Board!Moves, TypeOK
  <2> QED
    BY <1>1, <2>2 DEF Board!Next
<1>10. CASE Edit(j)
  <2>1. task' = [task EXCEPT ![t] = [task[t] EXCEPT !.terms = job[j].terms]]
    BY <1>3, <1>10 DEF Edit
  <2>2. job[j].terms \in Terms
    BY <1>1, <1>10 DEF Edit, Updating, TInv, EditBringsTerms
  <2>3. Board!Edit(u, t, job[j].terms)
    BY <1>1, <1>2, <1>10, <2>1 DEF Edit, Updating, Fits, Board!Edit, TypeOK
  <2> QED
    BY <1>1, <2>2, <2>3 DEF Board!Next
<1> QED
  BY <1>4, <1>5, <1>6, <1>7, <1>8, <1>9, <1>10 DEF Handle, HandleUnpaid

LEMMA SerialStepRefines ==
  ASSUME SerialInv, SerialNext
  PROVE  Board!Next \/ task' = task
<1>1. CASE \E u \in Users, t \in Tasks, terms \in Terms : Post(u, t, terms)
  BY <1>1 DEF Post, Board!Next, Board!Post, NoTask, Board!NoTask
<1>2. CASE ~\E u \in Users, t \in Tasks, terms \in Terms : Post(u, t, terms)
  BY <1>2, HandleIsBoardStep DEF SerialNext, Next, Find, Abort
<1> QED
  BY <1>1, <1>2

THEOREM SerialInvariantHolds == SerialSpec => []SerialInv
<1>1. Init => SerialInv
  <2>1. Init => TInv
    BY TasksAssumption DEF Init, NoTask, NoJob, Handlers, TInv, TypeOK, AssigneeIsNotPoster,
      PendingIsUntouched, CompletedWasFinished, AcceptedByOther, AcknowledgesFinished,
      EditBringsTerms, FinishedIsNoted
  <2> QED
    BY <2>1 DEF Init, SerialInv, OneRequestPerTask, LookupsHold
<1>2. SerialInv /\ [SerialNext]_taskVars => SerialInv'
  <2>1. SerialInv /\ SerialNext => SerialInv'
    <3>1. SerialInv /\ SerialNext => TInv'
      BY NextKeeps DEF SerialInv, SerialNext
    <3> QED
      BY <3>1, LookupsHoldStill DEF SerialInv, SerialNext
  <2>2. SerialInv /\ UNCHANGED taskVars => SerialInv'
    BY DEF taskVars, SerialInv, TInv, TypeOK, AssigneeIsNotPoster, PendingIsUntouched,
      CompletedWasFinished, AcceptedByOther, AcknowledgesFinished, EditBringsTerms,
      FinishedIsNoted, OneRequestPerTask, LookupsHold
  <2> QED
    BY <2>1, <2>2
<1> QED
  BY <1>1, <1>2, PTL DEF SerialSpec

(* acceptTask, cancelTask, declineTask, startTask, completeTask,            *)
(* acknowledgeTask and update, while requests are orderly: a handler that   *)
(* looks a task up and then updates it implements one atomic step of the    *)
(* board, and its lookup nothing at all.                                    *)
THEOREM BoardImplemented == SerialSpec => RefinesBoard
<1>1. Init => Board!Init
  BY DEF Init, Board!Init, NoTask, Board!NoTask
<1>2. SerialInv /\ [SerialNext]_taskVars => [Board!Next]_task
  BY SerialStepRefines DEF taskVars
<1> QED
  BY <1>1, <1>2, SerialInvariantHolds, PTL DEF SerialSpec, RefinesBoard, Board!Spec

(* On the board only an acceptance changes who works on a task. *)
LEMMA BoardTakesOpenTask ==
  ASSUME TypeOK, Board!Next, NEW t \in Tasks, task'[t].acceptedBy # task[t].acceptedBy
  PROVE  task[t].status \in {"pending", "declined"}
<1>1. PICK u \in Users, x \in Tasks :
        \/ Board!Accept(u, x) \/ Board!Cancel(u, x) \/ Board!Decline(u, x)
        \/ Board!Start(u, x) \/ Board!Complete(u, x) \/ Board!Acknowledge(u, x)
        \/ \E terms \in Terms : Board!Post(u, x, terms) \/ Board!Edit(u, x, terms)
  BY DEF Board!Next
<1>2. task \in [Tasks -> Doc \cup {NoTask}]
  BY DEF TypeOK
<1>3. CASE t # x
  BY <1>1, <1>2, <1>3 DEF Board!Accept, Board!Cancel, Board!Decline, Board!Start, Board!Complete,
    Board!Acknowledge, Board!Post, Board!Edit, Board!Moves
<1>4. CASE t = x
  <2>1. CASE Board!Accept(u, x)
    BY <1>4, <2>1 DEF Board!Accept
  <2>2. CASE Board!Decline(u, x)
    BY <1>2, <1>4, <2>2 DEF Board!Decline, Doc, NoTask
  <2>3. CASE Board!Cancel(u, x) \/ Board!Start(u, x) \/ Board!Complete(u, x) \/ Board!Acknowledge(u, x)
    <3>1. \E to : task' = [task EXCEPT ![t] = [task[t] EXCEPT !.status = to]]
      BY <1>4, <2>3 DEF Board!Cancel, Board!Start, Board!Complete, Board!Acknowledge, Board!Moves
    <3> QED
      BY <1>2, <3>1 DEF Doc, NoTask
  <2>4. CASE \E terms \in Terms : Board!Post(u, x, terms)
    BY <1>2, <1>4, <2>4 DEF Board!Post, Board!NoTask
  <2>5. CASE \E terms \in Terms : Board!Edit(u, x, terms)
    BY <1>2, <1>4, <2>5 DEF Board!Edit, Doc, NoTask
  <2> QED
    BY <1>1, <2>1, <2>2, <2>3, <2>4, <2>5
<1> QED
  BY <1>3, <1>4

(* acceptTask takes only open tasks while requests are orderly: to take a   *)
(* task from its executor needs two requests for it at once, or a lookup    *)
(* that found another task than the one it names.                           *)
THEOREM OrderlyAcceptsTakeOpenTasks == SerialSpec => AcceptTakesOpenTask
<1>1. SerialInv /\ [SerialNext]_taskVars =>
        [\A t \in Tasks :
           task'[t].acceptedBy # task[t].acceptedBy => task[t].status \in {"pending", "declined"}]_taskVars
  BY SerialStepRefines, BoardTakesOpenTask DEF SerialInv, TInv, taskVars
<1> QED
  BY <1>1, SerialInvariantHolds, PTL DEF SerialSpec, AcceptTakesOpenTask

-----------------------------------------------------------------------------
(* The life of a task on which no two requests have crossed. *)

(* A request whose task is not crossed is the only one for it, and what its *)
(* lookup said of the task still holds when it updates.                     *)
AloneHolds == \A j \in Jobs : job[j] # NoJob /\ job[j].id \notin crossed =>
  /\ Fits(job[j].op, job[j].user, task[job[j].id])
  /\ job[j].op = "decline" => job[j].found.declinedBy = task[job[j].id].declinedBy
  /\ \A k \in Jobs : job[k] # NoJob /\ job[k].id = job[j].id => k = j

(* A request that goes on keeps that if its task is left alone and no new   *)
(* request for it arrives.                                                  *)
LEMMA AloneStays ==
  ASSUME AloneHolds, crossed \subseteq crossed', NEW j \in Jobs,
         job'[j] # NoJob, job'[j] = job[j], job[j].id \notin crossed',
         task'[job[j].id] = task[job[j].id],
         \A k \in Jobs : job'[k] = job[k] \/ job'[k] = NoJob \/ job'[k].id # job[j].id
  PROVE  /\ Fits(job'[j].op, job'[j].user, task'[job'[j].id])
         /\ job'[j].op = "decline" => job'[j].found.declinedBy = task'[job'[j].id].declinedBy
         /\ \A k \in Jobs : job'[k] # NoJob /\ job'[k].id = job'[j].id => k = j
BY DEF AloneHolds

LEMMA PostLeavesAlone ==
  ASSUME TypeOK, AloneHolds, NEW u \in Users, NEW t \in Tasks, NEW terms \in Terms, Post(u, t, terms)
  PROVE  AloneHolds'
<1>1. task[t] = NoTask /\ \A x \in Tasks \ {t} : task'[x] = task[x]
  BY DEF Post, TypeOK
<1>2. job' = job /\ crossed' = crossed
  BY DEF Post
<1>3. \A j \in Jobs : job[j] # NoJob /\ job[j].id \notin crossed => job[j].id \in Tasks /\ job[j].id # t
  BY <1>1, SlotShape DEF AloneHolds, Fits
<1> QED
  BY <1>1, <1>2, <1>3 DEF AloneHolds

(* The lookup marks its task unless it is alone and found the named one. *)
LEMMA FindIsAlone ==
  ASSUME TypeOK, AloneHolds, NEW j \in Jobs, NEW op \in Ops, NEW u \in Users, NEW t \in Tasks,
         NEW terms \in Terms \cup {None}, Find(j, op, u, t, terms)
  PROVE  AloneHolds'
<1>1. PICK x \in Tasks :
        /\ Matches(op, u, t, x)
        /\ job' = [job EXCEPT ![j] = [op |-> op, user |-> u, id |-> t,
                                      found |-> Remembered(op, task[x]), terms |-> terms]]
        /\ crossed' = IF x # t \/ \E k \in Jobs : job[k].id = t THEN crossed \cup {t} ELSE crossed
  BY DEF Find
<1>2. task' = task /\ job[j] = NoJob /\ op \in Handlers
  BY TasksAssumption DEF Find
<1>3. /\ job'[j] = [op |-> op, user |-> u, id |-> t, found |-> Remembered(op, task[x]), terms |-> terms]
      /\ \A i \in Jobs \ {j} : job'[i] = job[i]
  BY <1>1 DEF TypeOK
<1> SUFFICES ASSUME NEW i \in Jobs, job'[i] # NoJob, job'[i].id \notin crossed'
             PROVE  /\ Fits(job'[i].op, job'[i].user, task'[job'[i].id])
                    /\ job'[i].op = "decline" => job'[i].found.declinedBy = task'[job'[i].id].declinedBy
                    /\ \A k \in Jobs : job'[k] # NoJob /\ job'[k].id = job'[i].id => k = i
  BY DEF AloneHolds
<1>4. CASE i = j
  <2>1. x = t /\ \A k \in Jobs : job[k].id # t
    BY <1>1, <1>3, <1>4
  <2>2. Fits(op, u, task[t])
    BY <1>1, <1>2, <2>1, FoundFits
  <2>3. op = "decline" => Remembered(op, task[x]).declinedBy = task[t].declinedBy
    BY <2>1 DEF Remembered, Unread
  <2> QED
    BY <1>2, <1>3, <1>4, <2>1, <2>2, <2>3
<1>5. CASE i # j
  <2>1. job'[i] = job[i] /\ job[i].id # t
    BY <1>1, <1>3, <1>5
  <2>2. \A k \in Jobs : job'[k] = job[k] \/ job'[k].id # job[i].id
    BY <1>3, <2>1
  <2> QED
    BY <1>1, <1>2, <2>1, <2>2, AloneStays
<1> QED
  BY <1>4, <1>5

(* An update leaves the other requests alone: where one is alone, the       *)
(* update is not of its task.                                               *)
LEMMA HandleLeavesAlone ==
  ASSUME TInv, AloneHolds, NEW j \in Jobs, Handle(j)
  PROVE  AloneHolds'
<1>1. crossed' = crossed
  BY DEF Handle, HandleUnpaid, Accept, Cancel, Decline, Start, Complete, Acknowledge, Edit, Write
<1> SUFFICES ASSUME NEW i \in Jobs, job'[i] # NoJob, job'[i].id \notin crossed'
             PROVE  /\ Fits(job'[i].op, job'[i].user, task'[job'[i].id])
                    /\ job'[i].op = "decline" => job'[i].found.declinedBy = task'[job'[i].id].declinedBy
                    /\ \A k \in Jobs : job'[k] # NoJob /\ job'[k].id = job'[i].id => k = i
  BY DEF AloneHolds
<1>2. /\ i # j /\ job'[i] = job[i] /\ job[j] # NoJob
      /\ \A k \in Jobs : job'[k] = job[k] \/ job'[k] = NoJob
  BY HandleMoves
<1>3. job[i].id # job[j].id /\ job[i].id \in Tasks
  BY <1>1, <1>2, SlotShape DEF AloneHolds, TInv
<1>4. task'[job[i].id] = task[job[i].id]
  BY <1>3, HandleMoves
<1> QED
  BY <1>1, <1>2, <1>4, AloneStays

LEMMA AbortLeavesAlone ==
  ASSUME TypeOK, AloneHolds, NEW j \in Jobs, Abort(j)
  PROVE  AloneHolds'
<1>1. task' = task /\ crossed' = crossed /\ \A i \in Jobs : job'[i] = job[i] \/ job'[i] = NoJob
  BY DEF Abort, TypeOK
<1> QED
  BY <1>1 DEF AloneHolds

(* What an update does to its task while its request is alone: the document *)
(* is the one that the lookup fitted.                                       *)
LEMMA AloneHandleIsOrderly ==
  ASSUME TInv, AloneHolds, NEW j \in Jobs, Handle(j), NEW t \in Tasks \ crossed
  PROVE  /\ task[t].status = "ongoing" => task'[t].status \in {"ongoing", "finished"}
         /\ task[t].status # "finished" /\ task'[t].status = "finished" =>
              task[t].status = "ongoing" /\ task[t].acceptedBy # None
         /\ task[t].status \in {"completed", "canceled"} => task'[t].status \in {task[t].status, "canceled"}
         /\ task[t].declinedBy \subseteq task'[t].declinedBy
<1>1. CASE t # job[j].id
  BY <1>1, HandleMoves
<1>2. CASE t = job[j].id
  <2>1. /\ Fits(job[j].op, job[j].user, task[t])
        /\ job[j].op = "decline" => job[j].found.declinedBy = task[t].declinedBy
        /\ job[j].user \in Users
    BY <1>2, HandleMoves, SlotShape DEF AloneHolds, TInv
  <2>2. task[t] \in Doc
    BY <2>1 DEF Fits, TInv, TypeOK
  <2>3. CASE Accept(j)
    <3>1. task'[t] = [task[t] EXCEPT !.status = "accepted", !.acceptedBy = job[j].user]
      BY <1>2, <2>1, <2>3 DEF Accept, Write, Fits, TInv, TypeOK
    <3> QED
      BY <2>1, <2>2, <2>3, <3>1 DEF Accept, Updating, Fits, Doc
  <2>4. CASE Cancel(j)
    <3>1. task'[t] = [task[t] EXCEPT !.status = "canceled"]
      BY <1>2, <2>1, <2>4 DEF Cancel, Write, Fits, TInv, TypeOK
    <3> QED
      BY <2>1, <2>2, <2>4, <3>1 DEF Cancel, Updating, Fits, Doc
  <2>5. CASE Decline(j)
    <3>1. task'[t] = [task[t] EXCEPT !.status = "declined",
                                !.declinedBy = job[j].found.declinedBy \cup {job[j].user}]
      BY <1>2, <2>1, <2>5 DEF Decline, Write, Fits, TInv, TypeOK
    <3> QED
      BY <2>1, <2>2, <2>5, <3>1 DEF Decline, Updating, Fits, Doc
  <2>6. CASE Start(j)
    <3>1. task'[t] = [task[t] EXCEPT !.status = "ongoing"]
      BY <1>2, <2>1, <2>6 DEF Start, Write, Fits, TInv, TypeOK
    <3> QED
      BY <2>1, <2>2, <2>6, <3>1 DEF Start, Updating, Fits, Doc
  <2>7. CASE Complete(j)
    <3>1. task'[t] = [task[t] EXCEPT !.status = "finished"]
      BY <1>2, <2>1, <2>7 DEF Complete, Write, Fits, TInv, TypeOK
    <3>2. task[t].acceptedBy # None
      BY <2>1, <2>7, TasksAssumption DEF Complete, Updating, Fits
    <3> QED
      BY <2>1, <2>2, <2>7, <3>1, <3>2 DEF Complete, Updating, Fits, Doc
  <2>8. CASE Acknowledge(j)
    <3>1. task'[t] = [task[t] EXCEPT !.status = "completed"]
      BY <1>2, <2>1, <2>8 DEF Acknowledge, Write, Fits, TInv, TypeOK
    <3> QED
      BY <2>1, <2>2, <2>8, <3>1 DEF Acknowledge, Updating, Fits, Doc
  <2>9. CASE Edit(j)
    <3>1. task'[t] = [task[t] EXCEPT !.terms = job[j].terms]
      BY <1>2, <2>1, <2>9 DEF Edit, Write, Fits, TInv, TypeOK
    <3> QED
      BY <2>1, <2>2, <2>9, <3>1 DEF Edit, Updating, Fits, Doc
  <2> QED
    BY <2>3, <2>4, <2>5, <2>6, <2>7, <2>8, <2>9 DEF Handle, HandleUnpaid
<1> QED
  BY <1>1, <1>2

(* Lookups that came alone hold in every reachable state. *)
THEOREM AloneInvariantHolds == Spec => [](TInv /\ AloneHolds)
<1>1. Init => AloneHolds
  BY DEF Init, AloneHolds
<1>2. TInv /\ AloneHolds /\ [Next]_taskVars => AloneHolds'
  <2>1. TInv /\ AloneHolds /\ Next => AloneHolds'
    BY PostLeavesAlone, FindIsAlone, HandleLeavesAlone, AbortLeavesAlone DEF Next, TInv
  <2>2. AloneHolds /\ UNCHANGED taskVars => AloneHolds'
    BY DEF taskVars, AloneHolds
  <2> QED
    BY <2>1, <2>2
<1> QED
  BY <1>1, <1>2, TasksInvariantHolds, PTL DEF Spec

(* The handlers as they interleave in the code: whatever happens to other   *)
(* tasks, as long as the requests for a task come one at a time and find    *)
(* the task they name, only its executor's report finishes it, what is      *)
(* completed or canceled is not taken up again, and no refusal is lost.     *)
THEOREM LivesAreOrderly == Spec => OrderlyLife
<1> DEFINE Orderly(t) ==
      /\ task[t].status = "ongoing" => task'[t].status \in {"ongoing", "finished"}
      /\ task[t].status # "finished" /\ task'[t].status = "finished" =>
           task[t].status = "ongoing" /\ task[t].acceptedBy # None
      /\ task[t].status \in {"completed", "canceled"} => task'[t].status \in {task[t].status, "canceled"}
      /\ task[t].declinedBy \subseteq task'[t].declinedBy
<1>1. TInv /\ AloneHolds /\ Next => \A t \in Tasks \ crossed : Orderly(t)
  <2> SUFFICES ASSUME TInv, AloneHolds, Next, NEW t \in Tasks \ crossed
               PROVE  Orderly(t)
    OBVIOUS
  <2>1. ASSUME task'[t] = task[t]
        PROVE  Orderly(t)
    BY <2>1
  <2>2. ASSUME NEW u \in Users, NEW x \in Tasks, NEW terms \in Terms, Post(u, x, terms)
        PROVE  Orderly(t)
    <3>1. CASE t = x
      BY <2>2, <3>1 DEF Post, NoTask, TInv, TypeOK
    <3>2. CASE t # x
      BY <2>1, <2>2, <3>2 DEF Post, TInv, TypeOK
    <3> QED
      BY <3>1, <3>2
  <2>3. ASSUME NEW j \in Jobs, Handle(j)
        PROVE  Orderly(t)
    BY <2>3, AloneHandleIsOrderly
  <2> QED
    BY <2>1, <2>2, <2>3 DEF Next, Find, Abort
<1>2. TInv /\ AloneHolds /\ [Next]_taskVars => [\A t \in Tasks \ crossed : Orderly(t)]_taskVars
  BY <1>1
<1> QED
  BY <1>2, AloneInvariantHolds, PTL DEF Spec, OrderlyLife

-----------------------------------------------------------------------------
(* Proofs about the views. *)

Seen == [views : Nat, viewedBy : SUBSET Users]

Looking == [user : Users, id : Tasks, views : Nat]

ViewsTypeOK ==
  /\ seen \in [Tasks -> Seen]
  /\ \A t \in Tasks : IsFiniteSet(seen[t].viewedBy)
  /\ look \in [Looks -> Looking \cup {NoLook}]
  /\ crowded \subseteq Tasks

(* The number a request has read leaves room for its own user: at most the  *)
(* others on the list have been counted in it.                              *)
RoomForViewer == \A k \in Looks : look[k] # NoLook =>
  look[k].views <= Cardinality(seen[look[k].id].viewedBy \ {look[k].user})

(* Where requests never met, the one that opens a task has the latest       *)
(* number, and its user is new to the list.                                 *)
AloneIsFresh == \A k \in Looks : look[k] # NoLook /\ look[k].id \notin crowded =>
  /\ look[k].views = seen[look[k].id].views
  /\ look[k].user \notin seen[look[k].id].viewedBy
  /\ \A i \in Looks : look[i] # NoLook /\ look[i].id = look[k].id => i = k

VInv ==
  /\ ViewsTypeOK
  /\ ViewsNeverExceedViewers
  /\ OrderlyViews
  /\ RoomForViewer
  /\ AloneIsFresh

(* The lookup. *)
LEMMA ViewFindKeeps ==
  ASSUME VInv, NEW k \in Looks, NEW u \in Users, NEW t \in Tasks, ViewFind(k, u, t)
  PROVE  VInv'
<1>1. /\ look'[k] = [user |-> u, id |-> t, views |-> seen[t].views]
      /\ \A i \in Looks \ {k} : look'[i] = look[i]
      /\ look' \in [Looks -> Looking \cup {NoLook}]
  BY DEF ViewFind, VInv, ViewsTypeOK, Seen, Looking
<1>2. seen' = seen /\ u \notin seen[t].viewedBy /\ seen[t].viewedBy \ {u} = seen[t].viewedBy
  BY DEF ViewFind
<1>3. crowded' = IF \E i \in Looks : look[i].id = t THEN crowded \cup {t} ELSE crowded
  BY DEF ViewFind
<1>4. ViewsTypeOK' /\ ViewsNeverExceedViewers' /\ OrderlyViews'
  BY <1>1, <1>2, <1>3 DEF VInv, ViewsTypeOK, ViewsNeverExceedViewers, OrderlyViews
<1>5. RoomForViewer'
  <2> SUFFICES ASSUME NEW i \in Looks, look'[i] # NoLook
               PROVE  look'[i].views <= Cardinality(seen[look'[i].id].viewedBy \ {look'[i].user})
    BY <1>2 DEF RoomForViewer
  <2>1. CASE i = k
    <3>1. seen[t].views <= Cardinality(seen[t].viewedBy)
      BY DEF VInv, ViewsNeverExceedViewers
    <3>2. look'[i].id = t /\ look'[i].user = u /\ look'[i].views = seen[t].views
      BY <1>1, <2>1
    <3>3. seen[t].viewedBy \ {look'[i].user} = seen[t].viewedBy
      BY <1>2, <3>2
    <3> QED
      BY <3>1, <3>2, <3>3
  <2>2. CASE i # k
    BY <1>1, <2>2 DEF VInv, RoomForViewer
  <2> QED
    BY <2>1, <2>2
<1>6. AloneIsFresh'
  <2> SUFFICES ASSUME NEW i \in Looks, look'[i] # NoLook, look'[i].id \notin crowded'
               PROVE  /\ look'[i].views = seen[look'[i].id].views
                      /\ look'[i].user \notin seen[look'[i].id].viewedBy
                      /\ \A h \in Looks : look'[h] # NoLook /\ look'[h].id = look'[i].id => h = i
    BY <1>2 DEF AloneIsFresh
  <2>1. CASE i = k
    BY <1>1, <1>2, <1>3, <2>1
  <2>2. CASE i # k
    <3>1. look'[i] = look[i] /\ look[i].id \notin crowded /\ look[i].id # t
      BY <1>1, <1>3, <2>2
    <3> QED
      BY <1>1, <3>1 DEF VInv, AloneIsFresh
  <2> QED
    BY <2>1, <2>2
<1> QED
  BY <1>4, <1>5, <1>6 DEF VInv

(* The save: the list gains the user, and the number becomes one more than  *)
(* the request read, which the others on the list make up for.              *)
LEMMA ViewSaveKeeps ==
  ASSUME VInv, NEW k \in Looks, ViewSave(k)
  PROVE  VInv'
<1> DEFINE t == look[k].id
           u == look[k].user
           old == seen[t].viewedBy
           new == old \cup {u}
<1>1. t \in Tasks /\ u \in Users /\ look[k].views \in Nat /\ look[k] # NoLook
  <2>1. look[k] # NoLook /\ look[k] \in Looking \cup {NoLook}
    BY DEF ViewSave, VInv, ViewsTypeOK
  <2> QED
    BY <2>1 DEF Looking
<1>2. /\ seen'[t] = [views |-> look[k].views + 1, viewedBy |-> new]
      /\ \A x \in Tasks \ {t} : seen'[x] = seen[x]
      /\ seen' \in [Tasks -> Seen]
  <2>1. seen \in [Tasks -> Seen] /\ old \subseteq Users
    BY <1>1 DEF VInv, ViewsTypeOK, Seen
  <2>2. seen' = [seen EXCEPT ![t] = [views |-> look[k].views + 1, viewedBy |-> new]]
    BY <1>1, <2>1 DEF ViewSave
  <2>3. [views |-> look[k].views + 1, viewedBy |-> new] \in Seen
    BY <1>1, <2>1 DEF Seen
  <2> HIDE DEF t, new
  <2> QED
    BY <1>1, <2>1, <2>2, <2>3
<1>3. /\ look'[k] = NoLook
      /\ \A i \in Looks \ {k} : look'[i] = look[i]
      /\ look' \in [Looks -> Looking \cup {NoLook}]
      /\ crowded' = crowded
  BY DEF ViewSave, VInv, ViewsTypeOK
<1>4. IsFiniteSet(old) /\ IsFiniteSet(new) /\ IsFiniteSet(old \ {u})
  BY <1>1, FS_AddElement, FS_RemoveElement DEF VInv, ViewsTypeOK
<1>5. Cardinality(new) = Cardinality(old \ {u}) + 1
  <2>1. new = (old \ {u}) \cup {u}
    OBVIOUS
  <2> QED
    BY <1>4, <2>1, FS_AddElement
<1>6. ViewsTypeOK'
  <2>1. \A x \in Tasks : IsFiniteSet(seen'[x].viewedBy)
    <3> SUFFICES ASSUME NEW x \in Tasks PROVE IsFiniteSet(seen'[x].viewedBy)
      OBVIOUS
    <3>1. CASE x = t
      BY <1>2, <1>4, <3>1
    <3>2. CASE x # t
      <4>1. seen'[x] = seen[x]
        BY <1>2, <3>2
      <4> QED
        BY <4>1 DEF VInv, ViewsTypeOK
    <3> QED
      BY <3>1, <3>2
  <2> QED
    BY <1>2, <1>3, <2>1 DEF VInv, ViewsTypeOK
<1>7. ViewsNeverExceedViewers'
  <2>1. look[k].views + 1 <= Cardinality(new)
    <3>1. Cardinality(old \ {u}) \in Nat
      BY <1>4, FS_CardinalityType
    <3> QED
      BY <1>1, <1>5, <3>1 DEF VInv, RoomForViewer
  <2>2. seen'[t].views <= Cardinality(seen'[t].viewedBy)
    BY <1>2, <2>1
  <2> HIDE DEF t
  <2> QED
    BY <1>2, <2>2 DEF VInv, ViewsNeverExceedViewers
<1>8. OrderlyViews'
  <2>1. t \notin crowded => look[k].views + 1 = Cardinality(new)
    <3>1. t \notin crowded => old \ {u} = old /\ look[k].views = Cardinality(old)
      BY <1>1 DEF VInv, AloneIsFresh, OrderlyViews
    <3> QED
      BY <1>5, <3>1
  <2>2. t \notin crowded => seen'[t].views = Cardinality(seen'[t].viewedBy)
    BY <1>2, <2>1
  <2> HIDE DEF t
  <2> QED
    BY <1>2, <1>3, <2>2 DEF VInv, OrderlyViews
<1>9. RoomForViewer'
  <2> SUFFICES ASSUME NEW i \in Looks, look'[i] # NoLook
               PROVE  look'[i].views <= Cardinality(seen'[look'[i].id].viewedBy \ {look'[i].user})
    BY DEF RoomForViewer
  <2>1. i # k /\ look'[i] = look[i] /\ look[i] \in Looking
    BY <1>3 DEF VInv, ViewsTypeOK
  <2>2. look[i].views <= Cardinality(seen[look[i].id].viewedBy \ {look[i].user})
    BY <2>1 DEF VInv, RoomForViewer
  <2>3. CASE look[i].id # t
    BY <1>2, <2>1, <2>2, <2>3 DEF Looking
  <2>4. CASE look[i].id = t
    <3> DEFINE v == look[i].user
    <3>1. IsFiniteSet(new \ {v}) /\ old \ {v} \subseteq new \ {v}
      BY <1>4, FS_RemoveElement
    <3>2. Cardinality(old \ {v}) <= Cardinality(new \ {v})
      BY <3>1, FS_Subset
    <3>3. Cardinality(old \ {v}) \in Nat /\ Cardinality(new \ {v}) \in Nat
      BY <3>1, FS_Subset, FS_CardinalityType
    <3> QED
      BY <1>2, <2>1, <2>2, <2>4, <3>2, <3>3 DEF Looking
  <2> QED
    BY <2>3, <2>4
<1>10. AloneIsFresh'
  <2> SUFFICES ASSUME NEW i \in Looks, look'[i] # NoLook, look'[i].id \notin crowded
               PROVE  /\ look'[i].views = seen'[look'[i].id].views
                      /\ look'[i].user \notin seen'[look'[i].id].viewedBy
                      /\ \A h \in Looks : look'[h] # NoLook /\ look'[h].id = look'[i].id => h = i
    BY <1>3 DEF AloneIsFresh
  <2>1. i # k /\ look'[i] = look[i] /\ look[i] \in Looking
    BY <1>3 DEF VInv, ViewsTypeOK
  <2>2. /\ look[i].views = seen[look[i].id].views
        /\ look[i].user \notin seen[look[i].id].viewedBy
        /\ \A h \in Looks : look[h] # NoLook /\ look[h].id = look[i].id => h = i
    BY <2>1 DEF VInv, AloneIsFresh
  <2>3. look[i].id \in Tasks \ {t}
    BY <1>1, <2>1, <2>2 DEF Looking
  <2> QED
    BY <1>2, <1>3, <2>1, <2>2, <2>3
<1> QED
  BY <1>6, <1>7, <1>8, <1>9, <1>10 DEF VInv

(* A request that ends early has changed nothing. *)
LEMMA ViewAbortKeeps ==
  ASSUME VInv, NEW k \in Looks, ViewAbort(k)
  PROVE  VInv'
<1>1. /\ look'[k] = NoLook
      /\ \A i \in Looks \ {k} : look'[i] = look[i]
      /\ look' \in [Looks -> Looking \cup {NoLook}]
  BY DEF ViewAbort, VInv, ViewsTypeOK
<1>2. seen' = seen /\ crowded' = crowded
  BY DEF ViewAbort
<1>3. ViewsTypeOK' /\ ViewsNeverExceedViewers' /\ OrderlyViews'
  BY <1>1, <1>2 DEF VInv, ViewsTypeOK, ViewsNeverExceedViewers, OrderlyViews
<1>4. RoomForViewer'
  BY <1>1, <1>2 DEF VInv, RoomForViewer
<1>5. AloneIsFresh'
  BY <1>1, <1>2 DEF VInv, AloneIsFresh
<1> QED
  BY <1>3, <1>4, <1>5 DEF VInv

(* The inductive invariant holds in every reachable state, whatever the     *)
(* other handlers do to the tasks meanwhile.                                *)
THEOREM ViewsInvariantHolds == TasksAndViewsSpec => []VInv
<1>1. ViewInit => VInv
  <2> SUFFICES ASSUME ViewInit PROVE VInv
    OBVIOUS
  <2>1. /\ \A t \in Tasks : seen[t] = Unseen
        /\ \A k \in Looks : look[k] = NoLook
        /\ crowded = {}
    BY DEF ViewInit
  <2>2. ViewsTypeOK
    BY FS_EmptySet DEF ViewInit, Unseen, Seen, ViewsTypeOK
  <2>3. ViewsNeverExceedViewers /\ OrderlyViews
    BY <2>1, FS_EmptySet DEF Unseen, ViewsNeverExceedViewers, OrderlyViews
  <2>4. RoomForViewer /\ AloneIsFresh
    BY <2>1 DEF RoomForViewer, AloneIsFresh
  <2> QED
    BY <2>2, <2>3, <2>4 DEF VInv
<1>2. VInv /\ [TasksAndViewsNext]_<<taskVars, viewVars>> => VInv'
  <2>1. VInv /\ UNCHANGED viewVars => VInv'
    BY DEF viewVars, VInv, ViewsTypeOK, ViewsNeverExceedViewers, OrderlyViews, RoomForViewer,
      AloneIsFresh
  <2>2. VInv /\ ViewNext => VInv'
    BY ViewFindKeeps, ViewSaveKeeps, ViewAbortKeeps DEF ViewNext
  <2> QED
    BY <2>1, <2>2 DEF TasksAndViewsNext
<1> QED
  BY <1>1, <1>2, PTL DEF TasksAndViewsSpec

-----------------------------------------------------------------------------
(* A task never has more views than people on its list, although the        *)
(* number is read, awaited over and written back by many requests at once.  *)
THEOREM ViewsAreViewers == TasksAndViewsSpec => []ViewsNeverExceedViewers
BY ViewsInvariantHolds, PTL DEF VInv

(* Views are lost only where two requests opened a task at the same time. *)
THEOREM LonelyViewsCount == TasksAndViewsSpec => []OrderlyViews
BY ViewsInvariantHolds, PTL DEF VInv
=============================================================================
