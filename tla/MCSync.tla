------------------------------- MODULE MCSync -------------------------------
(* Two people with a room, or about to open it.  One of them has a device   *)
(* that may hold two messages written offline and push them twice, and that *)
(* pulls again and again; three requests to the chat service in all, the    *)
(* pushed messages included.                                                *)
EXTENDS Sync, TLC

CONSTANTS u1, u2, t1

MCConversations == {[task |-> t1, members |-> {u1, u2}]}

Interchangeable == Permutations(Requests) \cup Permutations(Rooms) \cup Permutations(Pushes)
=============================================================================
