------------------------------- MODULE MCTasks -------------------------------
(* Few users and tasks, two requests in progress at any time, and no bound *)
(* on how many follow one another.                                         *)
EXTENDS TasksSerial, TLC

Interchangeable ==
  Permutations(Users) \cup Permutations(Tasks) \cup Permutations(Jobs) \cup Permutations(Terms)
=============================================================================
