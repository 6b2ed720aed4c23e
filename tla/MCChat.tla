------------------------------- MODULE MCChat -------------------------------
(* Two people open the room of a task, send to it and read it, in four     *)
(* requests of any kind; room ids may also name rooms that do not exist.   *)
EXTENDS Chat, TLC

CONSTANTS u1, u2, t1

MCConversations == {[task |-> t1, members |-> {u1, u2}]}

(* Requests are interchangeable, and so are room ids and the two people. *)
Interchangeable == Permutations(Requests) \cup Permutations(Rooms) \cup Permutations({u1, u2})
=============================================================================
