----------------------------- MODULE MCBackupRestore ----------------------------
(***************************************************************************)
(* Instances of BackupRestore: a backup, its restore, and release commands *)
(* that may run beside each other.                                         *)
(***************************************************************************)
EXTENDS BackupRestore

CONSTANTS p1, p2, b, r, s, u, k, a

Processes == {p1, p2}
Symmetry == Permutations(Processes)

Offer(kind, archive, version) == [kind |-> kind, archive |-> archive, version |-> version]
Commands == b :> Offer("create", a, None) @@ r :> Offer("restore", a, None)
            @@ s :> Offer("stage", None, 2) @@ u :> Offer("activate", None, 2)
            @@ k :> Offer("rollback", None, None)
Schemas == [v \in {1, 2} |-> 1]
Attempts == [op \in {b, r, s, u, k} |-> IF op \in {u, k} THEN 1 ELSE 2]
Releases(staged) == [staged |-> staged, active |-> 1, previous |-> None]

Starting(ops, staged, n) ==
    [operations |-> ops, releases |-> Releases(staged), faults |-> n]
Plans == {Starting({b, r}, {1}, 2), Starting({b, r, s}, {1}, 1),
          Starting({u, k}, {1, 2}, 1)}

\* For the run about restores that never settle.
OneCrash == {Starting({b, r}, {1}, 1)}
================================================================================
