------------------------------ MODULE TaskBoard ------------------------------
(***************************************************************************)
(* The errand board that the task handlers are written for: a request      *)
(* checks and changes one task in a single step.                           *)
(***************************************************************************)
CONSTANTS Users, Tasks, Terms, None

VARIABLE task

NoTask == [status |-> "absent", poster |-> None, acceptedBy |-> None,
           declinedBy |-> {}, terms |-> None]

Init == task = [t \in Tasks |-> NoTask]

Moves(t, from, to) ==
  /\ task[t].status \in from
  /\ task' = [task EXCEPT ![t].status = to]

Post(u, t, terms) ==
  /\ task[t] = NoTask
  /\ task' = [task EXCEPT ![t] = [status |-> "pending", poster |-> u, acceptedBy |-> None,
                                  declinedBy |-> {}, terms |-> terms]]

(* An open task goes to somebody other than its poster. *)
Accept(u, t) ==
  /\ task[t].status \in {"pending", "declined"}
  /\ task[t].poster # u
  /\ task' = [task EXCEPT ![t].status = "accepted", ![t].acceptedBy = u]

(* The poster withdraws a task that is not being worked on. *)
Cancel(u, t) ==
  /\ task[t].poster = u
  /\ Moves(t, {"pending", "declined", "accepted", "finished", "completed", "canceled"}, "canceled")

(* Either side gives an accepted task back. *)
Decline(u, t) ==
  /\ task[t].status = "accepted"
  /\ u \in {task[t].poster, task[t].acceptedBy}
  /\ task' = [task EXCEPT ![t].status = "declined", ![t].declinedBy = @ \cup {u}]

(* The executor starts and reports; the poster acknowledges. *)
Start(u, t)       == task[t].acceptedBy = u /\ Moves(t, {"accepted"}, "ongoing")
Complete(u, t)    == task[t].acceptedBy = u /\ Moves(t, {"ongoing"}, "finished")
Acknowledge(u, t) == task[t].poster = u /\ Moves(t, {"finished"}, "completed")

Edit(u, t, terms) ==
  /\ task[t].poster = u
  /\ task' = [task EXCEPT ![t].terms = terms]

Next == \E u \in Users, t \in Tasks :
  \/ Accept(u, t) \/ Cancel(u, t) \/ Decline(u, t)
  \/ Start(u, t) \/ Complete(u, t) \/ Acknowledge(u, t)
  \/ \E terms \in Terms : Post(u, t, terms) \/ Edit(u, t, terms)

Spec == Init /\ [][Next]_task
=============================================================================
