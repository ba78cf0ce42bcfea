------------------------------ MODULE MCJobQueue ------------------------------
(* JobQueue on a small instance: the two processes share one worker id, as    *)
(* two servers with the pump's default "plaik-core" do.                       *)
EXTENDS JobQueue, TLC

CONSTANTS j1, j2, k1, k2, op1, op2, ownerA, ownerB, p1, p2, w1

MCOwnerOf == op1 :> ownerA @@ op2 :> ownerB
MCOneOwnerOf == op1 :> ownerA
MCWorkerOf == p1 :> w1 @@ p2 :> w1

\* Jobs, keys, processes, and packages together with their operations.
Symmetry ==
    Permutations({j1, j2}) \cup Permutations({p1, p2}) \cup Permutations({k1, k2})
    \cup {op1 :> op2 @@ op2 :> op1 @@ ownerA :> ownerB @@ ownerB :> ownerA}
===============================================================================
