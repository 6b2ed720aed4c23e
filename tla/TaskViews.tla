------------------------------ MODULE TaskViews ------------------------------
(***************************************************************************)
(* TasksService.findOne: opening a task counts its views, one per user.    *)
(* Like the handlers of Tasks it reads the document, awaits the poster and *)
(* the assets, and saves what it made of the copy: the number of views is  *)
(* written as a value, the viewer is pushed on the list of the document as *)
(* it is by then, and neither save looks at the version of the document.   *)
(***************************************************************************)
EXTENDS Tasks, Naturals, FiniteSets

CONSTANT Looks   \* slots for requests that open a task: at most this many at a time

VARIABLES
  seen,     \* views and viewedBy of each task
  look,     \* the opening request in each slot
  crowded   \* history: the tasks that two requests were opening at the same time

viewVars == <<seen, look, crowded>>

Unseen == [views |-> 0, viewedBy |-> {}]

NoLook == [user |-> None, id |-> None, views |-> 0]

ViewInit ==
  /\ seen = [t \in Tasks |-> Unseen]
  /\ look = [k \in Looks |-> NoLook]
  /\ crowded = {}

ViewFindUntested(k, u, t) ==  \* mutant: the list of viewers is not consulted
  /\ look[k] = NoLook
  /\ task[t] # NoTask
  /\ look' = [look EXCEPT ![k] = [user |-> u, id |-> t, views |-> seen[t].views]]
  /\ crowded' = IF \E i \in Looks : look[i].id = t THEN crowded \cup {t} ELSE crowded
  /\ UNCHANGED seen

(* The task is found, and is new to the user; otherwise nothing changes.   *)
ViewFind(k, u, t) ==
  /\ look[k] = NoLook
  /\ task[t] # NoTask
  /\ u \notin seen[t].viewedBy
  /\ look' = [look EXCEPT ![k] = [user |-> u, id |-> t, views |-> seen[t].views]]
  /\ crowded' = IF \E i \in Looks : look[i].id = t THEN crowded \cup {t} ELSE crowded
  /\ UNCHANGED seen

ViewSaveIncrement(k) ==       \* mutant: the views are incremented in place, the list is a set
  /\ look[k] # NoLook
  /\ seen' = [seen EXCEPT ![look[k].id] = [views |-> @.views + 1,
                                           viewedBy |-> @.viewedBy \cup {look[k].user}]]
  /\ look' = [look EXCEPT ![k] = NoLook]
  /\ UNCHANGED crowded

(* save: $set of the number, $push of the user. *)
ViewSave(k) ==
  /\ look[k] # NoLook
  /\ seen' = [seen EXCEPT ![look[k].id] = [views |-> look[k].views + 1,
                                           viewedBy |-> @.viewedBy \cup {look[k].user}]]
  /\ look' = [look EXCEPT ![k] = NoLook]
  /\ UNCHANGED crowded

(* The process dies, or the poster or an asset cannot be read. *)
ViewAbort(k) ==
  /\ look[k] # NoLook
  /\ look' = [look EXCEPT ![k] = NoLook]
  /\ UNCHANGED <<seen, crowded>>

ViewNext == \E k \in Looks :
  \/ \E u \in Users, t \in Tasks : ViewFind(k, u, t)
  \/ ViewSave(k)
  \/ ViewAbort(k)

TasksAndViewsNext == (Next /\ UNCHANGED viewVars) \/ (ViewNext /\ UNCHANGED taskVars)

TasksAndViewsSpec == Init /\ ViewInit /\ [][TasksAndViewsNext]_<<taskVars, viewVars>>

-----------------------------------------------------------------------------
(* "1 view per user, if user call api call multiple times, it still counts *)
(* as 1 view": however many requests overlap, a task never has more views  *)
(* than there are people who opened it.                                    *)
ViewsNeverExceedViewers == \A t \in Tasks :
  seen[t].views <= Cardinality(seen[t].viewedBy)

(* Views are lost only by requests that open a task at the same time:      *)
(* otherwise the number is the number of people who opened it.             *)
OrderlyViews == \A t \in Tasks \ crowded :
  seen[t].views = Cardinality(seen[t].viewedBy)
=============================================================================
