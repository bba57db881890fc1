---------------------------- MODULE MCRedisGuard ----------------------------
(* Instances of RedisGuard for TLC. *)
EXTENDS RedisGuard, TLC

\* Requests are interchangeable, and so are users.
Symmetry == Permutations(Procs) \cup Permutations(Users)
=============================================================================
