----------------------------- MODULE MCDurableEvents -----------------------------
(* DurableEvents on a small instance.                                            *)
EXTENDS DurableEvents, TLC

CONSTANTS t1, t2, a, b, k1, k2

\* Only one of the threads syncs, so only the keys are interchangeable.
KeySymmetry == Permutations(Key)
================================================================================
