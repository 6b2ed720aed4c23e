----------------------------- MODULE MCGateway ------------------------------
(* Two sockets of one user and one of another on two processes, and two     *)
(* events that are handled at any time.                                     *)
EXTENDS Gateway, TLC

CONSTANTS u1, u2, s1, s2, s3

MCOwner == (s1 :> u1) @@ (s2 :> u1) @@ (s3 :> u2)

Interchangeable == Permutations(Processes) \cup Permutations(Handlers) \cup Permutations({s1, s2})

(* Bound: a connection to Redis lags behind by three commands at most, and  *)
(* by one command once an event has come.                                   *)
FewCommands ==
  LET limit == IF \A h \in Handlers : handler[h] = Idle THEN 3 ELSE 1 IN
  \A p \in Processes : Len(queue[p]) <= limit
=============================================================================
