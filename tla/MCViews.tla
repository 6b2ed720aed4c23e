------------------------------- MODULE MCViews -------------------------------
(* Three people open tasks, any three of their requests at the same time,  *)
(* while the tasks are posted; no other handler touches the two fields.    *)
EXTENDS TaskViews, TLC

Interchangeable == Permutations(Users) \cup Permutations(Tasks) \cup Permutations(Looks)
=============================================================================
