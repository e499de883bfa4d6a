---------------------------- MODULE MCRedisQueue ----------------------------
(* Model values for RedisQueue.  Workers are interchangeable, and so are jobs. *)
EXTENDS RedisQueue, TLC

Symmetry == Permutations(Worker) \cup Permutations(Job)
=============================================================================
