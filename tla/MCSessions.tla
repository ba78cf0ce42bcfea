------------------------------- MODULE MCSessions -------------------------------
(* Instance of Sessions: users, browsers and addresses are interchangeable. *)
EXTENDS Sessions, TLC
Symmetry == Permutations(User) \cup Permutations(Browser) \cup Permutations(Peer)
================================================================================
