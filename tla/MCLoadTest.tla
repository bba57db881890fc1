---------------------------- MODULE MCLoadTest ----------------------------
(* Instances of LoadTest for TLC. *)
EXTENDS LoadTest, TLC

\* A rate below one request a second, with the default burst.
MCLimits == {[num |-> 1, den |-> 2, burst |-> 0]}

\* The limiter as time passes, the verification as calls fail, the writes.
MCPlans ==
    {[limited |-> TRUE, writes |-> 0, mishaps |-> 0, ticks |-> 2],
     [limited |-> FALSE, writes |-> 0, mishaps |-> 1, ticks |-> 0],
     [limited |-> FALSE, writes |-> 2, mishaps |-> 0, ticks |-> 0]}

\* Requests and workers are interchangeable.
Symmetry == Permutations(Procs) \cup Permutations(Workers)

MCUsers == 1..UserCount
=============================================================================
